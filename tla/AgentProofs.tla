---------------------------- MODULE AgentProofs ----------------------------
(***************************************************************************)
(* Proofs about what the components of an agent share: Models, for any     *)
(* agent, investigators, models and inferences, and, in the last part,     *)
(* SharedSubtask, for any callers, keys and size of the cache.             *)
(***************************************************************************)
EXTENDS Models, SharedSubtask, FunctionTheorems, FiniteSetTheorems, SequenceTheorems, TLAPS

InferenceType ==
    [stage : Stages, inv : Component, kwargs : Model \cup {Own}, latest : Model, blind : BOOLEAN]

\* The model of an investigator says whether it published any.
PublishedInv ==
    /\ published \in [Investigator -> Nat]
    /\ \A i \in Investigator : model_kwargs[i] # Empty <=> published[i] > 0

\* An inference waits for an investigator.  The agent's has the arguments of the
\* selector, or none because it was selected before there was a model.
WaitsRight(rec) ==
    rec.stage = "waiting" =>
        /\ rec.inv \in Investigator
        /\ rec.inv \in Child => rec.kwargs = Own \/ (rec.blind /\ rec.kwargs = Empty)

WaitInv == \A c \in Call : WaitsRight(inference[c])

\* Only the agent and the investigators that it started have the sub-task.
SharedInv == \A i \in Investigator \ Started : shared_tasks[i] = 0

ModelsInv ==
    /\ TypeOK
    /\ PublishedInv
    /\ WaitInv
    /\ SharedInv
    /\ OneCache
    /\ ModelInTime
-----------------------------------------------------------------------------
(***************************************************************************)
(* The record of an inference.                                             *)
(***************************************************************************)
LEMMA NoneTyped ==
    /\ NoInference \in InferenceType
    /\ \A i \in Component :
          /\ [NoInference EXCEPT !.inv = i] \in InferenceType
          /\ [NoInference EXCEPT !.inv = i].inv = i
<1>1. Empty \in Model /\ Agent \in Component /\ "idle" \in Stages
  BY DEF Model, Component, Stages
<1>2. NoInference \in InferenceType
  BY <1>1 DEF NoInference, InferenceType
<1>3. ASSUME NEW i \in Component PROVE [NoInference EXCEPT !.inv = i] \in InferenceType
  BY <1>2 DEF InferenceType
<1>4. ASSUME NEW i \in Component PROVE [NoInference EXCEPT !.inv = i].inv = i
  BY <1>2 DEF InferenceType
<1> QED
  BY <1>2, <1>3, <1>4

\* Goes changes one inference; what it was called with is kept while it goes on.
LEMMA GoesOne ==
    ASSUME inference \in [Call -> InferenceType], NEW c \in Call, NEW rec \in InferenceType,
           NEW how \in Stages, Goes(c, rec, how)
    PROVE  /\ inference' \in [Call -> InferenceType]
           /\ \A d \in Call : d # c => inference'[d] = inference[d]
           /\ inference'[c].stage = how
           /\ how \notin Ended =>
                 /\ inference'[c].inv = rec.inv /\ inference'[c].kwargs = rec.kwargs
                 /\ inference'[c].latest = rec.latest /\ inference'[c].blind = rec.blind
<1> DEFINE base == IF how \in Ended THEN NoInference ELSE rec
           new  == [base EXCEPT !.stage = how]
<1>1. base \in InferenceType
  BY NoneTyped
<1>2. inference' = [inference EXCEPT ![c] = new]
  BY DEF Goes
<1>3. how \notin Ended => base = rec
  OBVIOUS
<1> HIDE DEF base
<1>4. new \in InferenceType
  BY <1>1 DEF InferenceType
<1>5. new.stage = how
  BY <1>1 DEF InferenceType
<1>6. new.inv = base.inv
  BY <1>1 DEF InferenceType
<1>7. new.kwargs = base.kwargs
  BY <1>1 DEF InferenceType
<1>8. new.latest = base.latest
  BY <1>1 DEF InferenceType
<1>9. new.blind = base.blind
  BY <1>1 DEF InferenceType
<1> HIDE DEF new
<1>10. /\ inference' \in [Call -> InferenceType] /\ inference'[c] = new
       /\ \A d \in Call : d # c => inference'[d] = inference[d]
  BY <1>2, <1>4
<1> QED
  BY <1>3, <1>5, <1>6, <1>7, <1>8, <1>9, <1>10

\* An inference begins with the latest model of its investigator, or with what it
\* was given, and only if that is not None.
LEMMA BeginOne ==
    ASSUME inference \in [Call -> InferenceType], model_kwargs \in [Investigator -> Model],
           NEW c \in Call, NEW rec \in InferenceType, rec.inv \in Investigator,
           NEW kwargs \in Model \cup {Own}, Begin(c, rec, kwargs)
    PROVE  /\ inference' \in [Call -> InferenceType]
           /\ \A d \in Call : d # c => inference'[d] = inference[d]
           /\ inference'[c].stage \in {"inferring", "failed"}
           /\ inference'[c].stage = "inferring" =>
                 /\ inference'[c].inv = rec.inv /\ inference'[c].kwargs = kwargs
                 /\ inference'[c].latest = model_kwargs[rec.inv] /\ inference'[c].blind = rec.blind
<1> DEFINE new == [rec EXCEPT !.kwargs = kwargs, !.latest = model_kwargs[rec.inv]]
           how == IF rec.inv \in inference_task /\ kwargs # Bare THEN "inferring" ELSE "failed"
<1>0. model_kwargs[rec.inv] \in Model
  OBVIOUS
<1>1. new \in InferenceType
  BY <1>0 DEF InferenceType
<1>2. new.inv = rec.inv
  BY DEF InferenceType
<1>3. new.kwargs = kwargs
  BY DEF InferenceType
<1>4. new.latest = model_kwargs[rec.inv]
  BY DEF InferenceType
<1>5. new.blind = rec.blind
  BY DEF InferenceType
<1>6. Goes(c, new, how)
  BY DEF Begin
<1>7. how \in {"inferring", "failed"} /\ {"inferring", "failed"} \subseteq Stages
  BY DEF Stages
<1>8. "inferring" \notin Ended
  BY DEF Ended
<1> HIDE DEF new, how
<1> QED
  BY <1>1, <1>2, <1>3, <1>4, <1>5, <1>6, <1>7, <1>8, GoesOne
-----------------------------------------------------------------------------
(***************************************************************************)
(* The invariant.                                                          *)
(***************************************************************************)
\* ModelInTime for one inference.
RunsRight(rec) ==
    rec.stage = "inferring" =>
        /\ rec.latest # Empty
        /\ rec.kwargs \in {Own, rec.latest} \/ (rec.blind /\ rec.inv \in Child /\ rec.kwargs = Empty)

\* ModelInTime says of every inference that it runs right, before and after a step.
LEMMA InTime ==
    /\ ModelInTime <=> \A c \in Call : RunsRight(inference[c])
    /\ ModelInTime' <=> \A c \in Call : RunsRight(inference'[c])
BY DEF ModelInTime, RunsRight, Running

\* A step of one inference.
LEMMA InferenceKeeps ==
    ASSUME ModelsInv, UNCHANGED <<modelVars, agentVars>>, NEW c \in Call,
           inference' \in [Call -> InferenceType],
           \A d \in Call : d # c => inference'[d] = inference[d],
           WaitsRight(inference'[c]), RunsRight(inference'[c])
    PROVE  ModelsInv'
<1>1. TypeOK' /\ PublishedInv' /\ SharedInv' /\ OneCache'
  BY DEF ModelsInv, TypeOK, PublishedInv, SharedInv, OneCache, modelVars, agentVars,
     InferenceType, Started
<1>2. WaitInv'
  BY DEF ModelsInv, WaitInv, WaitsRight
<1>3. ModelInTime'
  BY InTime DEF ModelsInv
<1> QED
  BY <1>1, <1>2, <1>3 DEF ModelsInv

\* Asking for an inference (get_inference) keeps the invariant: the new inference
\* waits or selects, and runs nothing yet.
LEMMA AskKeeps ==
    ASSUME ModelsInv, NEW c \in Call, Ask(c)
    PROVE  ModelsInv'
<1>1. inference \in [Call -> InferenceType]
  BY DEF ModelsInv, TypeOK, InferenceType
<1>2. PICK i \in Direct \cup {Agent} :
        Goes(c, [NoInference EXCEPT !.inv = i], IF i = Agent THEN "selecting" ELSE "waiting")
  BY DEF Ask
<1> DEFINE rec == [NoInference EXCEPT !.inv = i]
           how == IF i = Agent THEN "selecting" ELSE "waiting"
<1>3. i \in Component /\ (i # Agent => i \in Investigator \ Child)
  BY ModelsAssumption DEF Component, Investigator
<1>4. rec \in InferenceType /\ rec.inv = i
  BY <1>3, NoneTyped
<1>5. /\ how \in {"selecting", "waiting"} /\ (how = "waiting" => i # Agent)
      /\ {"selecting", "waiting"} \subseteq Stages \ Ended
  BY DEF Stages, Ended
<1>g. Goes(c, rec, how)
  BY <1>2
<1> HIDE DEF rec, how
<1>6. /\ inference' \in [Call -> InferenceType]
      /\ \A d \in Call : d # c => inference'[d] = inference[d]
      /\ inference'[c].stage = how /\ inference'[c].inv = rec.inv
  BY <1>1, <1>4, <1>5, <1>g, GoesOne
<1>7. WaitsRight(inference'[c]) /\ RunsRight(inference'[c])
  BY <1>3, <1>4, <1>5, <1>6 DEF WaitsRight, RunsRight
<1> QED
  BY <1>6, <1>7, InferenceKeeps DEF Ask

\* A step after which the inference neither waits nor runs.
LEMMA StageKeeps ==
    ASSUME ModelsInv, UNCHANGED <<modelVars, agentVars>>, NEW c \in Call,
           NEW how \in Stages \ {"waiting", "inferring"}, Goes(c, inference[c], how)
    PROVE  ModelsInv'
<1>1. inference \in [Call -> InferenceType]
  BY DEF ModelsInv, TypeOK, InferenceType
<1>2. /\ inference' \in [Call -> InferenceType]
      /\ \A d \in Call : d # c => inference'[d] = inference[d]
      /\ inference'[c].stage = how
  BY <1>1, GoesOne
<1>3. WaitsRight(inference'[c]) /\ RunsRight(inference'[c])
  BY <1>2 DEF WaitsRight, RunsRight
<1> QED
  BY <1>2, <1>3, InferenceKeeps

\* The selected investigator: its model is read before the wait.
LEMMA SelectedKeeps ==
    ASSUME ModelsInv, UNCHANGED <<modelVars, agentVars>>, NEW c \in Call, NEW i \in Started,
           NEW kwargs \in {Own, model_kwargs[i]}, ToSelected(c, i, kwargs)
    PROVE  ModelsInv'
<1> DEFINE rec == [inference[c] EXCEPT !.inv = i, !.kwargs = kwargs, !.blind = (published[i] = 0)]
<1>1. /\ inference \in [Call -> InferenceType] /\ model_kwargs \in [Investigator -> Model]
      /\ i \in Child /\ i \in Investigator /\ i \in Component
      /\ (i \in has_published_model <=> published[i] > 0) /\ published[i] \in Nat
      /\ (model_kwargs[i] # Empty <=> published[i] > 0)
  BY DEF ModelsInv, TypeOK, InferenceType, PublishedInv, Started, ToSet, Investigator, Component
<1>2. inference[c] \in InferenceType /\ kwargs \in Model \cup {Own} /\ (published[i] = 0) \in BOOLEAN
  BY <1>1
<1>3. rec \in InferenceType
  BY <1>1, <1>2 DEF InferenceType
<1>4. rec.inv = i
  BY <1>2 DEF InferenceType
<1>5. rec.kwargs = kwargs
  BY <1>2 DEF InferenceType
<1>6. rec.blind = (published[i] = 0)
  BY <1>2 DEF InferenceType
<1>7. IF i \in has_published_model THEN Begin(c, rec, kwargs) ELSE Goes(c, rec, "waiting")
  BY DEF ToSelected
<1> HIDE DEF rec
<1>8. CASE i \in has_published_model
  <2>1. /\ inference' \in [Call -> InferenceType]
        /\ \A d \in Call : d # c => inference'[d] = inference[d]
        /\ inference'[c].stage \in {"inferring", "failed"}
        /\ inference'[c].stage = "inferring" =>
              inference'[c].kwargs = kwargs /\ inference'[c].latest = model_kwargs[i]
    BY <1>1, <1>2, <1>3, <1>4, <1>7, <1>8, BeginOne
  <2>2. WaitsRight(inference'[c]) /\ RunsRight(inference'[c])
    BY <1>1, <1>8, <2>1 DEF WaitsRight, RunsRight
  <2> QED
    BY <2>1, <2>2, InferenceKeeps
<1>9. CASE i \notin has_published_model
  <2>1. "waiting" \in Stages /\ "waiting" \notin Ended
    BY DEF Stages, Ended
  <2>2. /\ inference' \in [Call -> InferenceType]
        /\ \A d \in Call : d # c => inference'[d] = inference[d]
        /\ inference'[c].stage = "waiting" /\ inference'[c].inv = i
        /\ inference'[c].kwargs = kwargs /\ inference'[c].blind = (published[i] = 0)
    BY <1>1, <1>3, <1>4, <1>5, <1>6, <1>7, <1>9, <2>1, GoesOne
  <2>3. published[i] = 0 /\ model_kwargs[i] = Empty
    BY <1>1, <1>9
  <2>4. inference'[c].blind = TRUE
    BY <2>2, <2>3
  <2>5. WaitsRight(inference'[c]) /\ RunsRight(inference'[c])
    BY <1>1, <2>2, <2>3, <2>4 DEF WaitsRight, RunsRight
  <2> QED
    BY <2>2, <2>5, InferenceKeeps
<1> QED
  BY <1>8, <1>9

\* The wait is over: what was read before it is the agent's, and the graph's is read now.
LEMMA ArrivesKeeps ==
    ASSUME ModelsInv, NEW c \in Call, ModelArrives(c)
    PROVE  ModelsInv'
<1> DEFINE rec == inference[c]
           kwargs == IF rec.inv \in Direct THEN model_kwargs[rec.inv] ELSE rec.kwargs
<1>1. /\ inference \in [Call -> InferenceType] /\ model_kwargs \in [Investigator -> Model]
      /\ rec \in InferenceType /\ rec.inv \in has_published_model /\ rec.stage = "waiting"
      /\ Begin(c, rec, kwargs) /\ UNCHANGED <<modelVars, agentVars>>
  BY DEF ModelsInv, TypeOK, InferenceType, ModelArrives
<1>2. rec.inv \in Investigator /\ (rec.inv \in Child => rec.kwargs = Own \/ (rec.blind /\ rec.kwargs = Empty))
  BY <1>1 DEF ModelsInv, WaitInv, WaitsRight
<1>3. model_kwargs[rec.inv] # Empty
  BY <1>1, <1>2 DEF ModelsInv, TypeOK, PublishedInv
<1>4. kwargs \in Model \cup {Own}
  BY <1>1, <1>2 DEF InferenceType
<1> HIDE DEF rec
<1>5. /\ inference' \in [Call -> InferenceType]
      /\ \A d \in Call : d # c => inference'[d] = inference[d]
      /\ inference'[c].stage \in {"inferring", "failed"}
      /\ inference'[c].stage = "inferring" =>
            /\ inference'[c].inv = rec.inv /\ inference'[c].kwargs = kwargs
            /\ inference'[c].latest = model_kwargs[rec.inv] /\ inference'[c].blind = rec.blind
  BY <1>1, <1>2, <1>4, BeginOne
<1>6. WaitsRight(inference'[c]) /\ RunsRight(inference'[c])
  BY <1>2, <1>3, <1>5 DEF WaitsRight, RunsRight, Investigator
<1> QED
  BY <1>1, <1>5, <1>6, InferenceKeeps
\* The registry of the agent only grows, and by investigators that are not in it.
LEMMA StartKeeps ==
    ASSUME ModelsInv, NEW i \in Child, StartInvestigator(i)
    PROVE  ModelsInv'
<1>1. /\ investigators \in Seq(Child) /\ IsInjective(investigators) /\ i \notin Started
      /\ investigators' = Append(investigators, i)
      /\ UNCHANGED <<infVars, modelVars, shared_tasks>>
  BY DEF ModelsInv, TypeOK, StartInvestigator
<1>2. investigators' \in Seq(Child) /\ IsInjective(investigators')
  BY <1>1 DEF IsInjective, Started, ToSet
<1>3. Started \subseteq Started'
  <2>1. \A k \in DOMAIN investigators :
           k \in DOMAIN investigators' /\ investigators'[k] = investigators[k]
    BY <1>1
  <2> QED
    BY <2>1 DEF Started, ToSet
<1>4. TypeOK'
  BY <1>1, <1>2, <1>3 DEF ModelsInv, TypeOK, infVars, modelVars
<1>5. PublishedInv' /\ WaitInv' /\ ModelInTime'
  BY <1>1 DEF ModelsInv, PublishedInv, WaitInv, WaitsRight, ModelInTime, Running, infVars, modelVars
<1>6. SharedInv' /\ OneCache'
  BY <1>1, <1>3, <1>4 DEF ModelsInv, SharedInv, OneCache
<1> QED
  BY <1>4, <1>5, <1>6 DEF ModelsInv

\* Whatever is published counts, and is no initial model.
LEMMA PublishKeeps ==
    ASSUME ModelsInv, NEW i \in Investigator, PublishNewModel(i)
    PROVE  ModelsInv'
<1>1. /\ published[i] \in Nat /\ published[i] < MaxModels /\ published' = [published EXCEPT ![i] = @ + 1]
      /\ UNCHANGED <<infVars, agentVars, inference_task>>
  BY DEF ModelsInv, PublishedInv, PublishNewModel
<1>2. PICK m \in {Bare, published[i] + 1} : Published(i, m)
  BY DEF PublishNewModel
<1>3. m \in Model /\ m # Empty
  BY <1>1, ModelsAssumption DEF Model, Bare, Empty
<1>4. /\ model_kwargs' = [model_kwargs EXCEPT ![i] = m]
      /\ has_published_model' = has_published_model \cup {i}
  BY <1>2 DEF Published
<1>5. PublishedInv'
  BY <1>1, <1>3, <1>4 DEF ModelsInv, TypeOK, PublishedInv
<1>6. TypeOK'
  <2>1. has_published_model' = {j \in Investigator : published'[j] > 0}
    BY <1>1, <1>4 DEF ModelsInv, TypeOK, PublishedInv
  <2>2. model_kwargs' \in [Investigator -> Model]
    BY <1>3, <1>4 DEF ModelsInv, TypeOK
  <2> QED
    BY <1>1, <2>1, <2>2 DEF ModelsInv, TypeOK, infVars, agentVars, Started
<1>7. WaitInv' /\ SharedInv' /\ OneCache' /\ ModelInTime'
  BY <1>1, <1>6 DEF ModelsInv, WaitInv, WaitsRight, SharedInv, OneCache, ModelInTime, Running,
     infVars, agentVars, Started
<1> QED
  BY <1>5, <1>6, <1>7 DEF ModelsInv

\* All that have the sub-task get the new struct.
LEMMA RegisterKeeps ==
    ASSUME ModelsInv, RegisterSharedSubtask
    PROVE  ModelsInv'
<1> DEFINE n == shared_tasks[Agent] + 1
<1>1. /\ shared_tasks[Agent] \in 0..MaxTasks /\ Agent \in Component /\ Investigator \subseteq Component
      /\ Started \subseteq Investigator /\ n \in 1..MaxTasks /\ Agent \notin Investigator
      /\ shared_tasks' = [c \in Component |-> IF c \in Started \cup {Agent} THEN n ELSE shared_tasks[c]]
      /\ UNCHANGED <<infVars, modelVars, investigators>>
  BY ModelsAssumption DEF ModelsInv, TypeOK, RegisterSharedSubtask, Copied, Component, Investigator,
     Started, ToSet
<1>2. /\ shared_tasks' \in [Component -> 0..MaxTasks] /\ shared_tasks'[Agent] = n
      /\ \A i \in Started : shared_tasks'[i] = n
      /\ \A i \in Investigator \ Started : shared_tasks'[i] = shared_tasks[i]
  BY <1>1 DEF ModelsInv, TypeOK
<1>3. TypeOK'
  BY <1>1, <1>2 DEF ModelsInv, TypeOK, infVars, modelVars, Started
<1>4. PublishedInv' /\ WaitInv' /\ ModelInTime'
  BY <1>1 DEF ModelsInv, PublishedInv, WaitInv, WaitsRight, ModelInTime, Running, infVars, modelVars
<1>5. SharedInv' /\ OneCache'
  BY <1>1, <1>2, <1>3 DEF ModelsInv, SharedInv, OneCache, Started
<1> QED
  BY <1>3, <1>4, <1>5 DEF ModelsInv

\* The invariant holds in the first state, ...
LEMMA ModelsInit == Init => ModelsInv
<1> SUFFICES ASSUME Init PROVE ModelsInv
  OBVIOUS
<1>0. investigators = <<>> /\ Started = {}
  BY DEF Init, Started, ToSet
<1>1. \A c \in Call : inference[c] = NoInference /\ NoInference.stage = "idle"
  BY DEF Init, NoInference
<1>2. inference \in [Call -> InferenceType]
  BY NoneTyped DEF Init
<1>3. TypeOK
  BY <1>0, <1>2, ModelsAssumption DEF Init, TypeOK, InferenceType, IsInjective, Model
<1>4. PublishedInv
  BY DEF Init, PublishedInv
<1>5. WaitInv /\ ModelInTime
  BY <1>1 DEF WaitInv, WaitsRight, ModelInTime, Running
<1>6. SharedInv /\ OneCache
  BY <1>3 DEF Init, SharedInv, OneCache, Component
<1> QED
  BY <1>3, <1>4, <1>5, <1>6 DEF ModelsInv

\* ... every step keeps it, ...
LEMMA ModelsNext == ModelsInv /\ [Next]_vars => ModelsInv'
<1> SUFFICES ASSUME ModelsInv, [Next]_vars PROVE ModelsInv'
  OBVIOUS
<1>1. ASSUME NEW i \in Child, StartInvestigator(i) PROVE ModelsInv'
  BY <1>1, StartKeeps
<1>2. ASSUME NEW i \in Investigator, PublishNewModel(i) PROVE ModelsInv'
  BY <1>2, PublishKeeps
<1>3. ASSUME UNCHANGED <<inference, model_kwargs, has_published_model, published, investigators,
                         shared_tasks>>, inference_task' \subseteq Started \cup Direct
      PROVE  ModelsInv'
  BY <1>3 DEF ModelsInv, TypeOK, PublishedInv, WaitInv, WaitsRight, SharedInv, OneCache, ModelInTime,
     Running, Started
<1>4. ASSUME NEW i \in Investigator, SetInferenceTask(i) PROVE ModelsInv'
  BY <1>3, <1>4 DEF SetInferenceTask, infVars, agentVars, ModelsInv, TypeOK
<1>5. CASE SetModelSelectionTask
  BY <1>3, <1>5 DEF SetModelSelectionTask, infVars, modelVars, ModelsInv, TypeOK
<1>6. CASE UpdateModelSelector
  BY <1>3, <1>6 DEF UpdateModelSelector, infVars, modelVars, ModelsInv, TypeOK
<1>7. CASE RegisterSharedSubtask
  BY <1>7, RegisterKeeps
<1>8. ASSUME NEW c \in Component, UnknownSharedSubtask(c) PROVE ModelsInv'
  BY <1>3, <1>8 DEF UnknownSharedSubtask, modelVars, agentVars, ModelsInv, TypeOK
<1>9. ASSUME NEW c \in Call, Ask(c) PROVE ModelsInv'
  BY <1>9, AskKeeps
<1>10. {"choosing", "nothing", "failed", "answered", "cancelled"} \subseteq Stages \ {"waiting", "inferring"}
  BY DEF Stages
<1>11. ASSUME NEW c \in Call, Inference(c) PROVE ModelsInv'
  <2>1. CASE Select(c)
    BY <1>10, <2>1, StageKeeps DEF Select
  <2>2. CASE Choose(c)
    BY <1>10, <2>2, StageKeeps, SelectedKeeps DEF Choose
  <2>3. CASE ModelArrives(c)
    BY <2>3, ArrivesKeeps
  <2>4. CASE InferenceReturns(c)
    BY <1>10, <2>4, StageKeeps DEF InferenceReturns
  <2>5. CASE Cancelled(c)
    BY <1>10, <2>5, StageKeeps DEF Cancelled
  <2> QED
    BY <1>11, <2>1, <2>2, <2>3, <2>4, <2>5 DEF Inference
<1>12. CASE UNCHANGED vars
  BY <1>3, <1>12 DEF vars, infVars, modelVars, agentVars, ModelsInv, TypeOK
<1> QED
  BY <1>1, <1>2, <1>4, <1>5, <1>6, <1>7, <1>8, <1>9, <1>11, <1>12 DEF Next

\* ... and so it always holds.
LEMMA ModelsInvariant == Spec => []ModelsInv
BY ModelsInit, ModelsNext, PTL DEF Spec

-----------------------------------------------------------------------------

\* Registries, models, inferences and sub-tasks keep their types; an investigator
\* is registered once, and its event is set exactly when it has published.
THEOREM TypeCorrect == Spec => []TypeOK
<1>1. ModelsInv => TypeOK
  BY DEF ModelsInv
<1> QED
  BY ModelsInvariant, <1>1, PTL

\* In whichever order an agent registers its sub-task, again or not, and starts
\* investigators: one that has the sub-task shares the cache of the agent
\* (register_shared_subtask, start_investigator).
THEOREM OneCacheAlways == Spec => []OneCache
<1>1. ModelsInv => OneCache
  BY DEF ModelsInv
<1> QED
  BY ModelsInvariant, <1>1, PTL

\* Whatever is published while inferences are selected and wait: each runs with
\* what the selector answered or the latest model, or, if it was selected before
\* there was a model, with the empty arguments (_run_component).
THEOREM ModelAlwaysInTime == Spec => []ModelInTime
<1>1. ModelsInv => ModelInTime
  BY DEF ModelsInv
<1> QED
  BY ModelsInvariant, <1>1, PTL
-----------------------------------------------------------------------------
(***************************************************************************)
(* Shared sub-tasks.                                                       *)
(***************************************************************************)
Entry == [key : Key, fut : Caller]

\* As long as the keys fit into the cache, a call awaits the future that is cached
\* for its key.
FitsInv ==
    Cardinality(ToSet(used)) <= MaxSize =>
        \A c \in Caller : call[c] # "idle" =>
            \E i \in DOMAIN cache : cache[i].key = arg[c] /\ cache[i].fut = waits[c]

SubtaskInv == CacheIsLRU /\ NoOrphans /\ FitsInv

\* The cache is a sequence of entries with distinct keys, and the used keys are
\* finitely many.
LEMMA CacheTyped ==
    ASSUME CacheIsLRU
    PROVE  /\ cache \in Seq(Entry) /\ Len(cache) \in Nat /\ DOMAIN cache = 1..Len(cache)
           /\ used \in Seq(Key) /\ Len(used) \in Nat /\ DOMAIN used = 1..Len(used)
           /\ Len(cache) <= MaxSize /\ MaxSize \in Nat
           /\ \A i \in DOMAIN cache : cache[i] \in Entry
           /\ \A i, j \in DOMAIN cache : cache[i].key = cache[j].key => i = j
           /\ \A k : ~Before(k, k)
<1>1. /\ cache \in Seq(Entry) /\ Len(cache) \in Nat /\ DOMAIN cache = 1..Len(cache)
      /\ used \in Seq(Key) /\ Len(used) \in Nat /\ DOMAIN used = 1..Len(used)
      /\ Len(cache) <= MaxSize /\ MaxSize \in Nat
  BY LenProperties, SharedAssumption DEF CacheIsLRU, SubtaskTypeOK, Entry
<1>2. \A i \in DOMAIN cache : cache[i] \in Entry
  BY <1>1, ElementOfSeq
<1>3. \A k : ~Before(k, k)
  BY <1>1 DEF Before
<1>4. ASSUME NEW i \in DOMAIN cache, NEW j \in DOMAIN cache, cache[i].key = cache[j].key
      PROVE  i = j
  <2>1. i \in Nat /\ j \in Nat
    BY <1>1
  <2>2. ~(i < j) /\ ~(j < i)
    BY <1>3, <1>4 DEF CacheIsLRU
  <2> QED
    BY <2>1, <2>2
<1> QED
  BY <1>1, <1>2, <1>3, <1>4

\* What a hit does to the cache: its entry goes to the end.
LEMMA HitMoves ==
    ASSUME CacheIsLRU, NEW k, Cached(k)
    PROVE  \E p \in DOMAIN cache :
              /\ cache[p].key = k /\ Item(k) = cache[p]
              /\ Touched(k) \in Seq(Entry) /\ Len(Touched(k)) = Len(cache)
              /\ DOMAIN Touched(k) = DOMAIN cache
              /\ \A i \in DOMAIN cache :
                    Touched(k)[i] = cache[IF i < p THEN i ELSE IF i < Len(cache) THEN i+1 ELSE p]
<1> DEFINE p == Place(k)
           n == Len(cache)
           a == SubSeq(cache, 1, p-1)
           b == SubSeq(cache, p+1, n)
<1>1. p \in DOMAIN cache /\ cache[p].key = k
  <2>1. \E i \in DOMAIN cache : cache[i].key = k
    BY DEF Cached
  <2> QED
    BY <2>1 DEF Place
<1>2. /\ cache \in Seq(Entry) /\ n \in Nat /\ DOMAIN cache = 1..n /\ p \in 1..n
      /\ \A i \in 1..n : cache[i] \in Entry
  BY <1>1, CacheTyped
<1> HIDE DEF p, n
<1>3. a \in Seq(Entry) /\ Len(a) = p-1 /\ \A i \in 1..p-1 : a[i] = cache[i]
  <2>1. \A i \in 1..p-1 : cache[i] \in Entry
    BY <1>2
  <2>2. /\ a \in Seq(Entry) /\ Len(a) = IF 1 <= p-1 THEN (p-1)-1+1 ELSE 0
        /\ \A i \in 1..(p-1)-1+1 : a[i] = cache[1+i-1]
    <3>1. 1 \in Int /\ p-1 \in Int
      BY <1>2
    <3> QED
      BY <2>1, <3>1, SubSeqProperties
  <2> HIDE DEF a
  <2>3. \A i \in 1..p-1 : i \in 1..(p-1)-1+1 /\ 1+i-1 = i
    BY <1>2
  <2> QED
    BY <1>2, <2>2, <2>3
<1>4. b \in Seq(Entry) /\ Len(b) = n-p /\ \A i \in 1..n-p : b[i] = cache[p+i]
  <2>1. /\ \A i \in p+1..n : cache[i] \in Entry
        /\ p+1 \in Int /\ n \in Int
    BY <1>2
  <2>2. /\ b \in Seq(Entry) /\ Len(b) = IF p+1 <= n THEN n-(p+1)+1 ELSE 0
        /\ \A i \in 1..n-(p+1)+1 : b[i] = cache[(p+1)+i-1]
    BY <2>1, SubSeqProperties
  <2> HIDE DEF b
  <2>3. \A i \in 1..n-p : i \in 1..n-(p+1)+1 /\ (p+1)+i-1 = p+i
    BY <1>2
  <2>4. (IF p+1 <= n THEN n-(p+1)+1 ELSE 0) = n-p
    BY <1>2
  <2> QED
    BY <2>2, <2>3, <2>4
<1> HIDE DEF a, b
<1>5. /\ a \o b \in Seq(Entry) /\ Len(a \o b) = n-1
      /\ \A i \in 1..n-1 : (a \o b)[i] = cache[IF i < p THEN i ELSE i+1]
  <2>1. /\ a \o b \in Seq(Entry) /\ Len(a \o b) = Len(a) + Len(b)
        /\ \A i \in 1..Len(a)+Len(b) : (a \o b)[i] = IF i <= Len(a) THEN a[i] ELSE b[i - Len(a)]
    BY <1>3, <1>4, ConcatProperties
  <2>2. Len(a) = p-1 /\ Len(b) = n-p
    BY <1>3, <1>4
  <2>3. ASSUME NEW i \in 1..n-1 PROVE (a \o b)[i] = cache[IF i < p THEN i ELSE i+1]
    <3>1. CASE i < p
      BY <1>2, <1>3, <2>1, <2>2, <3>1
    <3>2. CASE ~(i < p)
      <4>1. (a \o b)[i] = b[i - (p-1)] /\ i - (p-1) \in 1..n-p /\ p + (i - (p-1)) = i+1
        BY <1>2, <2>1, <2>2, <3>2
      <4> QED
        BY <1>4, <3>2, <4>1
    <3> QED
      BY <3>1, <3>2
  <2> QED
    BY <1>2, <2>1, <2>2, <2>3
<1>6. Touched(k) = Append(a \o b, cache[p]) /\ Item(k) = cache[p] /\ cache[p] \in Entry
  <2>1. cache[p] \in Entry
    BY <1>2
  <2> QED
    BY <2>1, Zenon DEF Touched, RemoveAt, Item, p, a, b, n
<1>7. /\ Touched(k) \in Seq(Entry) /\ Len(Touched(k)) = n
      /\ \A i \in 1..n-1 : Touched(k)[i] = (a \o b)[i]
      /\ Touched(k)[n] = cache[p]
  <2>1. /\ Append(a \o b, cache[p]) \in Seq(Entry)
        /\ Len(Append(a \o b, cache[p])) = Len(a \o b) + 1
        /\ \A i \in 1..Len(a \o b) : Append(a \o b, cache[p])[i] = (a \o b)[i]
        /\ Append(a \o b, cache[p])[Len(a \o b) + 1] = cache[p]
    BY <1>5, <1>6, AppendProperties
  <2> QED
    BY <1>2, <1>5, <1>6, <2>1
<1>8. ASSUME NEW i \in 1..n
      PROVE  Touched(k)[i] = cache[IF i < p THEN i ELSE IF i < n THEN i+1 ELSE p]
  <2>1. CASE i = n
    <3>1. ~(i < p) /\ ~(i < n)
      BY <1>2, <2>1
    <3> QED
      BY <1>7, <2>1, <3>1
  <2>2. CASE i # n
    <3>1. i \in 1..n-1 /\ i < n
      BY <1>2, <2>2
    <3>2. Touched(k)[i] = cache[IF i < p THEN i ELSE i+1]
      BY <1>5, <1>7, <3>1
    <3> QED
      BY <3>1, <3>2
  <2> QED
    BY <2>1, <2>2
<1>9. DOMAIN Touched(k) = 1..n
  BY <1>7, LenProperties
<1>10. /\ \A i \in DOMAIN cache :
            Touched(k)[i] = cache[IF i < p THEN i ELSE IF i < Len(cache) THEN i+1 ELSE p]
       /\ Len(Touched(k)) = Len(cache) /\ DOMAIN Touched(k) = DOMAIN cache
  BY <1>2, <1>7, <1>8, <1>9 DEF n
<1> QED
  BY <1>1, <1>6, <1>7, <1>10

\* What a miss does to the cache: the new entry goes to the end, and if the cache is
\* full the first entry goes (g has lost m of the entries).
InsertedBut(m, e, g) ==
    /\ m = 1 => Len(cache) = MaxSize
    /\ Len(g) = Len(cache) + 1 - m
    /\ DOMAIN g = 1..(Len(cache) + 1 - m)
    /\ \A i \in DOMAIN g : g[i] = IF i + m = Len(cache) + 1 THEN e ELSE cache[i + m]

LEMMA MissInserts ==
    ASSUME CacheIsLRU, NEW e \in Entry
    PROVE  /\ Inserted(e) \in Seq(Entry) /\ Len(Inserted(e)) <= MaxSize
           /\ \E m \in {0, 1} : InsertedBut(m, e, Inserted(e))
<1> USE DEF InsertedBut
<1> DEFINE n == Len(cache)
           g == Append(cache, e)
<1>1. cache \in Seq(Entry) /\ n \in Nat /\ n <= MaxSize /\ MaxSize \in Nat
  BY CacheTyped
<1>2. /\ g \in Seq(Entry) /\ Len(g) = n+1 /\ DOMAIN g = 1..n+1
      /\ \A i \in 1..n : g[i] = cache[i]
      /\ g[n+1] = e
  <2>1. /\ g \in Seq(Entry) /\ Len(g) = n+1 /\ g[n+1] = e
        /\ \A i \in 1..n : g[i] = cache[i]
    BY <1>1, AppendProperties
  <2> QED
    BY <2>1, LenProperties
<1>3. Inserted(e) = IF n+1 > MaxSize THEN Tail(g) ELSE g
  BY DEF Inserted
<1> HIDE DEF g
<1>4. CASE n+1 > MaxSize
  <2>1. /\ Tail(g) \in Seq(Entry) /\ Len(Tail(g)) = n
        /\ \A i \in 1..n : Tail(g)[i] = g[i+1]
    <3>1. g # <<>>
      BY <1>1, <1>2, EmptySeq
    <3>2. /\ Tail(g) \in Seq(Entry) /\ Len(Tail(g)) = Len(g) - 1
          /\ \A i \in 1..Len(Tail(g)) : Tail(g)[i] = g[i+1]
      BY <1>2, <3>1, HeadTailProperties
    <3>3. Len(g) - 1 = n
      BY <1>1, <1>2
    <3> QED
      BY <3>2, <3>3
  <2>2. DOMAIN Tail(g) = 1..n
    BY <2>1, LenProperties
  <2>3. n = MaxSize
    BY <1>1, <1>4
  <2> HIDE DEF n
  <2>4. ASSUME NEW i \in 1..n PROVE Tail(g)[i] = IF i+1 = n+1 THEN e ELSE cache[i+1]
    <3>1. i+1 = n+1 \/ i+1 \in 1..n
      BY <1>1
    <3>2. i+1 \in 1..n => i+1 # n+1
      BY <1>1
    <3> QED
      BY <1>2, <2>1, <3>1, <3>2
  <2>5. n+1-1 = n
    BY <1>1
  <2> QED
    BY <1>1, <1>3, <1>4, <2>1, <2>2, <2>3, <2>4, <2>5 DEF n
<1>5. CASE ~(n+1 > MaxSize)
  <2>1. n+1-0 = n+1 /\ n+1 <= MaxSize /\ \A i \in 1..n+1 : i+0 = i /\ (i = n+1 \/ i \in 1..n)
    BY <1>1, <1>5
  <2>2. Inserted(e) = g
    BY <1>3, <1>5
  <2> HIDE DEF n
  <2>3. ASSUME NEW i \in 1..n+1 PROVE g[i] = IF i+0 = n+1 THEN e ELSE cache[i+0]
    BY <1>1, <1>2, <2>1
  <2> QED
    BY <1>1, <1>2, <2>1, <2>2, <2>3 DEF n
<1> QED
  BY <1>4, <1>5

\* One more use of k: it is the last one, the others stay in order.
LEMMA UseNext ==
    ASSUME used \in Seq(Key), NEW k \in Key, used' = Append(used, k)
    PROVE  /\ ToSet(used)' = ToSet(used) \cup {k} /\ used' \in Seq(Key)
           /\ \A l : l # k => Before(l, k)'
           /\ \A l, m : Before(l, m) /\ l # k => Before(l, m)'
<1> DEFINE n == Len(used)
<1>1. /\ n \in Nat /\ DOMAIN used = 1..n /\ used' \in Seq(Key)
      /\ DOMAIN used' = 1..n+1 /\ used'[n+1] = k /\ \A i \in 1..n : used'[i] = used[i]
  <2>1. /\ Append(used, k) \in Seq(Key) /\ Len(Append(used, k)) = n+1
        /\ Append(used, k)[n+1] = k /\ \A i \in 1..n : Append(used, k)[i] = used[i]
    BY AppendProperties
  <2>2. n \in Nat /\ DOMAIN used = 1..n
    BY LenProperties
  <2>3. DOMAIN Append(used, k) = 1..n+1
    BY <2>1, LenProperties
  <2> QED
    BY <2>1, <2>2, <2>3
<1> HIDE DEF n
<1>2. \A i \in 1..n : i \in 1..n+1 /\ i < n+1
  BY <1>1
<1>3. n+1 \in 1..n+1 /\ \A i \in 1..n+1 : i = n+1 \/ i \in 1..n
  BY <1>1
<1>4. ToSet(used)' = ToSet(used) \cup {k}
  BY <1>1, <1>2, <1>3 DEF ToSet
<1>5. ASSUME NEW l, l # k PROVE Before(l, k)'
  BY <1>1, <1>2, <1>3, <1>5 DEF Before
<1>6. ASSUME NEW l, NEW m, Before(l, m), l # k PROVE Before(l, m)'
  <2>1. PICK j \in DOMAIN used : used[j] = m /\ \A i \in DOMAIN used : used[i] = l => i < j
    BY <1>6 DEF Before
  <2> QED
    BY <1>1, <1>2, <1>3, <1>6, <2>1 DEF Before
<1> QED
  BY <1>1, <1>4, <1>5, <1>6

\* Every step keeps the types.
LEMMA SubtaskTypes == CacheIsLRU /\ [SubtaskNext]_subtaskVars => SubtaskTypeOK'
<1> SUFFICES ASSUME CacheIsLRU, [SubtaskNext]_subtaskVars PROVE SubtaskTypeOK'
  OBVIOUS
<1>0. SubtaskTypeOK
  BY DEF CacheIsLRU
<1>1. ASSUME NEW c \in Caller, NEW k \in Key, Invoke(c, k) PROVE SubtaskTypeOK'
  <2>1. used' \in Seq(Key)
    BY <1>0, <1>1, UseNext DEF Invoke, SubtaskTypeOK
  <2>2. CASE Cached(k) /\ cache' = Touched(k) /\ waits' = [waits EXCEPT ![c] = Item(k).fut]
             /\ future' = future
    <3>1. PICK p \in DOMAIN cache : /\ Item(k) = cache[p]
                                   /\ Touched(k) \in Seq(Entry)
                                   /\ Len(Touched(k)) = Len(cache)
      BY <2>2, HitMoves
    <3>2. Item(k).fut \in Caller
      BY <3>1, CacheTyped DEF Entry
    <3> QED
      BY <1>0, <1>1, <2>1, <2>2, <3>1, <3>2 DEF Invoke, SubtaskTypeOK, Entry
  <2>3. CASE cache' = Inserted([key |-> k, fut |-> c]) /\ future' = [future EXCEPT ![c] = "pending"]
             /\ waits' = [waits EXCEPT ![c] = c]
    <3>1. cache' \in Seq(Entry) /\ Len(cache') <= MaxSize
      <4>1. [key |-> k, fut |-> c] \in Entry
        BY DEF Entry
      <4> QED
        BY <2>3, <4>1, MissInserts
    <3> QED
      BY <1>0, <1>1, <2>1, <2>3, <3>1 DEF Invoke, SubtaskTypeOK, Entry
  <2> QED
    BY <1>1, <2>2, <2>3 DEF Invoke
<1>2. ASSUME NEW f \in Caller, FutureEnds(f) PROVE SubtaskTypeOK'
  BY <1>0, <1>2 DEF FutureEnds, SubtaskTypeOK, Outcome
<1>3. ASSUME NEW c \in Caller, TimesOut(c) PROVE SubtaskTypeOK'
  BY <1>0, <1>3 DEF TimesOut, Cancel, SubtaskTypeOK
<1>4. ASSUME NEW c \in Caller, Resume(c) PROVE SubtaskTypeOK'
  BY <1>0, <1>4 DEF Resume, SubtaskTypeOK, Outcome
<1>5. CASE TwinStops \/ TwinCancels \/ UNCHANGED subtaskVars
  BY <1>0, <1>5 DEF TwinStops, TwinCancels, Cancel, SubtaskTypeOK, subtaskVars
<1> QED
  BY <1>1, <1>2, <1>3, <1>4, <1>5 DEF SubtaskNext

\* The order of the cache after a step, of the keys by name.
LEMMA OrderNext ==
    ASSUME \A i, j \in DOMAIN cache' : i < j =>
              \A a, b : a = cache'[i].key /\ b = cache'[j].key => Before(a, b)'
    PROVE  (\A i, j \in DOMAIN cache : i < j => Before(cache[i].key, cache[j].key))'
BY DEF Before

\* Every step keeps the cache in LRU order.
LEMMA SubtaskLRU == CacheIsLRU /\ [SubtaskNext]_subtaskVars => CacheIsLRU'
<1> SUFFICES ASSUME CacheIsLRU, [SubtaskNext]_subtaskVars PROVE CacheIsLRU'
  OBVIOUS
<1>0. SubtaskTypeOK'
  BY SubtaskTypes
<1>t. /\ cache \in Seq(Entry) /\ Len(cache) \in Nat /\ DOMAIN cache = 1..Len(cache)
      /\ used \in Seq(Key) /\ MaxSize \in Nat /\ Len(cache) <= MaxSize
      /\ \A i \in DOMAIN cache : cache[i] \in Entry
      /\ \A i, j \in DOMAIN cache : cache[i].key = cache[j].key => i = j
  BY CacheTyped
<1>1. ASSUME NEW c \in Caller, NEW k \in Key, Invoke(c, k) PROVE CacheIsLRU'
  <2>1. /\ ToSet(used)' = ToSet(used) \cup {k}
        /\ \A l : l # k => Before(l, k)'
        /\ \A l, m : Before(l, m) /\ l # k => Before(l, m)'
    BY <1>1, <1>t, UseNext DEF Invoke
  <2>2. CASE Cached(k) /\ cache' = Touched(k)
    <3>1. PICK p \in DOMAIN cache :
              /\ cache[p].key = k /\ Len(Touched(k)) = Len(cache)
              /\ DOMAIN Touched(k) = DOMAIN cache
              /\ \A i \in DOMAIN cache :
                    Touched(k)[i] = cache[IF i < p THEN i ELSE IF i < Len(cache) THEN i+1 ELSE p]
      BY <2>2, HitMoves
    <3> DEFINE From(i) == IF i < p THEN i ELSE IF i < Len(cache) THEN i+1 ELSE p
    <3>2. /\ DOMAIN cache' = DOMAIN cache /\ Len(cache') = Len(cache)
          /\ \A i \in DOMAIN cache : From(i) \in DOMAIN cache /\ cache'[i] = cache[From(i)]
      BY <1>t, <2>2, <3>1
    <3>3. \A q \in DOMAIN cache : \E i \in DOMAIN cache : From(i) = q
      <4> TAKE q \in DOMAIN cache
      <4>1. CASE q < p
        BY <4>1
      <4>2. CASE q = p
        <5>1. From(Len(cache)) = q /\ Len(cache) \in DOMAIN cache
          BY <1>t, <4>2
        <5> QED
          BY <5>1
      <4>3. CASE q > p
        <5>1. From(q-1) = q /\ q-1 \in DOMAIN cache
          BY <1>t, <4>3
        <5> QED
          BY <5>1
      <4> QED
        BY <1>t, <4>1, <4>2, <4>3
    <3>4. ASSUME NEW i \in DOMAIN cache, NEW j \in DOMAIN cache, i < j
          PROVE  From(i) # p /\ (From(j) = p \/ From(i) < From(j))
      BY <1>t, <3>4
    <3> HIDE DEF From
    <3>5. CachedKeys' = CachedKeys /\ k \in CachedKeys
      <4>1. \A l : (\E i \in DOMAIN cache' : cache'[i].key = l)
                       <=> \E q \in DOMAIN cache : cache[q].key = l
        <5>1. ASSUME NEW i \in DOMAIN cache'
              PROVE  \E q \in DOMAIN cache : cache[q].key = cache'[i].key
          BY <3>2
        <5>2. ASSUME NEW q \in DOMAIN cache
              PROVE  \E i \in DOMAIN cache' : cache'[i].key = cache[q].key
          <6>1. PICK i \in DOMAIN cache : From(i) = q
            BY <3>3
          <6>2. i \in DOMAIN cache' /\ cache'[i] = cache[q]
            BY <3>2, <6>1
          <6> QED
            BY <6>2
        <5> QED
          BY <5>1, <5>2
      <4> QED
        BY <3>1, <4>1 DEF CachedKeys
    <3>6. ASSUME NEW i \in DOMAIN cache', NEW j \in DOMAIN cache', i < j,
                 NEW a, NEW b, a = cache'[i].key, b = cache'[j].key
          PROVE  Before(a, b)'
      <4>1. From(i) \in DOMAIN cache /\ From(j) \in DOMAIN cache
            /\ cache'[i] = cache[From(i)] /\ cache'[j] = cache[From(j)]
        BY <3>2
      <4>2. cache[From(i)].key # k
        BY <1>t, <3>1, <3>2, <3>4, <3>6, <4>1
      <4>3. CASE From(j) = p
        BY <2>1, <3>1, <3>6, <4>1, <4>2, <4>3
      <4>4. CASE From(i) < From(j)
        <5>1. Before(a, b)
          BY <3>6, <4>1, <4>4 DEF CacheIsLRU
        <5> QED
          BY <2>1, <3>6, <4>1, <4>2, <5>1
      <4> QED
        BY <3>2, <3>4, <3>6, <4>3, <4>4
    <3>7. ASSUME NEW l \in ToSet(used)' \ CachedKeys'
          PROVE  Len(cache') = MaxSize /\ \A m \in CachedKeys' : Before(l, m)'
      <4>1. l \in ToSet(used) \ CachedKeys /\ l # k
        BY <2>1, <3>5
      <4> QED
        BY <2>1, <3>2, <3>5, <4>1 DEF CacheIsLRU
    <3>8. CachedKeys' \subseteq ToSet(used)'
      BY <2>1, <3>5 DEF CacheIsLRU
    <3> QED
      <4>1. (\A i, j \in DOMAIN cache : i < j => Before(cache[i].key, cache[j].key))'
        BY <3>6, OrderNext
      <4> QED
        BY <1>0, <3>7, <3>8, <4>1 DEF CacheIsLRU
  <2>3. CASE ~Cached(k) /\ cache' = Inserted([key |-> k, fut |-> c])
    <3> DEFINE e == [key |-> k, fut |-> c]
               n == Len(cache)
    <3>1. e \in Entry /\ e.key = k /\ cache' = Inserted(e)
      BY <2>3 DEF Entry
    <3> HIDE DEF e
    <3>2. PICK m \in {0, 1} : InsertedBut(m, e, cache')
      BY <3>1, MissInserts
    <3>d. /\ n \in Nat /\ DOMAIN cache = 1..n /\ m \in Nat /\ m <= 1
          /\ n <= MaxSize /\ MaxSize \in Nat /\ (m = 1 => n = MaxSize)
          /\ Len(cache') = n + 1 - m /\ DOMAIN cache' = 1..(n + 1 - m)
          /\ \A i \in DOMAIN cache' : cache'[i] = IF i + m = n + 1 THEN e ELSE cache[i + m]
      <4>1. m \in Nat /\ m <= 1
        OBVIOUS
      <4> QED
        BY <1>t, <3>2, <4>1 DEF InsertedBut
    <3> HIDE DEF n
    <3>3. \A i \in DOMAIN cache : cache[i].key # k
      BY <2>3 DEF Cached
    <3>4. \A i \in DOMAIN cache' : i \in Nat /\ (i + m = n + 1 \/ i + m \in DOMAIN cache)
      BY <3>d
    <3>5. ASSUME NEW i \in DOMAIN cache', NEW j \in DOMAIN cache', i < j,
                 NEW a, NEW b, a = cache'[i].key, b = cache'[j].key
          PROVE  Before(a, b)'
      <4>1. i + m \in DOMAIN cache /\ cache'[i] = cache[i + m] /\ i + m < j + m
        <5>1. i \in Nat /\ j \in Nat /\ i <= n + 1 - m /\ j <= n + 1 - m /\ i < j
          BY <3>d, <3>5
        <5>2. i + m # n + 1 /\ i + m < j + m
          BY <3>d, <5>1
        <5> QED
          BY <3>d, <3>4, <5>2
      <4>2. CASE j + m = n + 1
        BY <2>1, <3>1, <3>d, <3>3, <3>5, <4>1, <4>2
      <4>3. CASE j + m # n + 1
        <5>1. j + m \in DOMAIN cache /\ cache'[j] = cache[j + m]
          BY <3>d, <3>4, <4>3
        <5>2. Before(a, b)
          BY <3>5, <4>1, <5>1 DEF CacheIsLRU
        <5> QED
          BY <2>1, <3>3, <3>5, <4>1, <5>2
      <4> QED
        BY <4>2, <4>3
    <3>6. ASSUME NEW l \in CachedKeys' PROVE l = k \/ \E q \in DOMAIN cache : cache[q].key = l /\ q > m
      <4>1. PICK i \in DOMAIN cache' : cache'[i].key = l
        BY DEF CachedKeys
      <4>2. i + m > m
        BY <3>d, <4>1
      <4> QED
        BY <3>1, <3>d, <3>4, <4>1, <4>2
    <3>7. ASSUME NEW q \in DOMAIN cache, q > m PROVE cache[q].key \in CachedKeys'
      <4>1. q - m \in DOMAIN cache' /\ q - m + m = q /\ q # n + 1
        BY <3>d, <3>7
      <4> QED
        BY <3>d, <4>1 DEF CachedKeys
    <3>8. CachedKeys' \subseteq ToSet(used)'
      BY <2>1, <3>6 DEF CacheIsLRU, CachedKeys
    <3>9. ASSUME NEW l \in ToSet(used)' \ CachedKeys'
          PROVE  Len(cache') = MaxSize /\ \A h \in CachedKeys' : Before(l, h)'
      <4>1. CASE l = k
        \* the cache has no place at all
        <5>1. CachedKeys' = {} /\ MaxSize = 0 /\ Len(cache') = 0
          <6>1. n + 1 - m \notin DOMAIN cache'
            <7> SUFFICES ASSUME n + 1 - m \in DOMAIN cache' PROVE FALSE
              OBVIOUS
            <7>1. cache'[n + 1 - m] = e
              <8>1. n + 1 - m + m = n + 1
                BY <3>d
              <8> QED
                BY <3>d, <8>1
            <7> QED
              BY <3>1, <3>9, <4>1, <7>1 DEF CachedKeys
          <6>2. n + 1 - m = 0
            BY <3>d, <6>1
          <6>3. DOMAIN cache' = {} /\ MaxSize = 0 /\ Len(cache') = 0
            BY <3>d, <6>2
          <6> QED
            BY <6>3 DEF CachedKeys
        <5> QED
          BY <5>1
      <4>2. CASE l # k /\ l \in CachedKeys
        <5>1. PICK p \in DOMAIN cache : cache[p].key = l
          BY <4>2 DEF CachedKeys
        <5>2. p = 1 /\ m = 1
          <6>1. ~(p > m)
            BY <3>7, <3>9, <5>1
          <6> QED
            BY <3>d, <6>1
        <5>3. Len(cache') = MaxSize
          BY <3>d, <5>2
        <5>4. ASSUME NEW h \in CachedKeys' PROVE Before(l, h)'
          <6>1. CASE h = k
            BY <2>1, <4>2, <6>1
          <6>2. CASE h # k
            <7>1. PICK q \in DOMAIN cache : cache[q].key = h /\ q > m
              BY <3>6, <6>2
            <7>2. Before(l, h)
              BY <5>1, <5>2, <7>1 DEF CacheIsLRU
            <7> QED
              BY <2>1, <4>2, <7>2
          <6> QED
            BY <6>1, <6>2
        <5> QED
          BY <5>3, <5>4
      <4>3. CASE l # k /\ l \notin CachedKeys
        <5>1. l \in ToSet(used)
          BY <2>1, <4>3
        <5>2. n = MaxSize /\ \A h \in CachedKeys : Before(l, h)
          BY <4>3, <5>1 DEF CacheIsLRU, n
        <5>3. Len(cache') = MaxSize
          <6>1. Len(cache') <= MaxSize
            BY <1>0 DEF SubtaskTypeOK
          <6> QED
            BY <3>d, <5>2, <6>1
        <5>4. ASSUME NEW h \in CachedKeys' PROVE Before(l, h)'
          BY <2>1, <3>6, <4>3, <5>2, <5>4 DEF CachedKeys
        <5> QED
          BY <5>3, <5>4
      <4> QED
        BY <4>1, <4>2, <4>3
    <3> QED
      <4>1. (\A i, j \in DOMAIN cache : i < j => Before(cache[i].key, cache[j].key))'
        BY <3>5, OrderNext
      <4> QED
        BY <1>0, <3>8, <3>9, <4>1 DEF CacheIsLRU
  <2> QED
    BY <1>1, <2>2, <2>3 DEF Invoke
<1>2. CASE UNCHANGED <<cache, used>>
  BY <1>0, <1>2 DEF CacheIsLRU, CachedKeys, Before
<1> QED
  BY <1>1, <1>2 DEF SubtaskNext, FutureEnds, TimesOut, Resume, TwinStops, TwinCancels, subtaskVars

\* No step leaves a pending computation without somebody who waits for it: a call
\* waits until its future is done.
LEMMA AwaitedNext == SubtaskTypeOK /\ NoOrphans /\ [SubtaskNext]_subtaskVars => NoOrphans'
<1> SUFFICES ASSUME SubtaskTypeOK, NoOrphans, [SubtaskNext]_subtaskVars,
                    NEW f \in Caller, future'[f] = "pending"
             PROVE  \E c \in Caller : call'[c] = "waiting" /\ waits'[c] = f
  BY DEF NoOrphans
<1> USE DEF SubtaskTypeOK
<1>1. ASSUME future[f] = "pending" PROVE \E c \in Caller : call[c] = "waiting" /\ waits[c] = f
  BY <1>1 DEF NoOrphans
<1>2. ASSUME NEW d \in Caller, NEW k \in Key, Invoke(d, k)
      PROVE  \E c \in Caller : call'[c] = "waiting" /\ waits'[c] = f
  <2>1. /\ call'[d] = "waiting" /\ call[d] = "idle"
        /\ \A c \in Caller : c # d => call'[c] = call[c] /\ waits'[c] = waits[c]
    BY <1>2 DEF Invoke
  <2>2. CASE future[f] = "pending"
    BY <1>1, <2>1, <2>2
  <2>3. CASE future[f] # "pending"
    <3>1. f = d /\ waits'[d] = d
      BY <1>2, <2>3 DEF Invoke
    <3> QED
      BY <2>1, <3>1
  <2> QED
    BY <2>2, <2>3
<1>3. ASSUME NEW g \in Caller, FutureEnds(g)
      PROVE  \E c \in Caller : call'[c] = "waiting" /\ waits'[c] = f
  BY <1>1, <1>3 DEF FutureEnds, Outcome
<1>4. ASSUME NEW d \in Caller, Resume(d)
      PROVE  \E c \in Caller : call'[c] = "waiting" /\ waits'[c] = f
  BY <1>1, <1>4 DEF Resume, Outcome
<1>5. CASE UNCHANGED <<call, waits, future>>
  BY <1>1, <1>5
<1> QED
  BY <1>2, <1>3, <1>4, <1>5 DEF SubtaskNext, TimesOut, TwinStops, TwinCancels, subtaskVars

\* A cache that holds some of the keys used, each once, has no more entries than
\* there are such keys.
LEMMA KeysCount ==
    ASSUME CacheIsLRU
    PROVE  /\ IsFiniteSet(ToSet(used)) /\ IsFiniteSet(CachedKeys)
           /\ Len(cache) <= Cardinality(CachedKeys)
           /\ Cardinality(CachedKeys) \in Nat /\ Cardinality(ToSet(used)) \in Nat
<1>t. /\ cache \in Seq(Entry) /\ Len(cache) \in Nat /\ DOMAIN cache = 1..Len(cache)
      /\ used \in Seq(Key) /\ Len(used) \in Nat /\ DOMAIN used = 1..Len(used)
      /\ \A i, j \in DOMAIN cache : cache[i].key = cache[j].key => i = j
  BY CacheTyped
<1>1. IsFiniteSet(1..Len(used)) /\ IsFiniteSet(1..Len(cache)) /\ Cardinality(1..Len(cache)) = Len(cache)
  <2>1. 1 \in Int /\ Len(used) \in Int /\ Len(cache) \in Int
    BY <1>t
  <2>2. Cardinality(1..Len(cache)) = IF 1 > Len(cache) THEN 0 ELSE Len(cache)-1+1
    BY <2>1, FS_Interval
  <2>3. Cardinality(1..Len(cache)) = Len(cache)
    BY <1>t, <2>2
  <2> QED
    BY <2>1, <2>3, FS_Interval
<1>2. IsFiniteSet(ToSet(used))
  <2>1. /\ used \in [1..Len(used) -> ToSet(used)]
        /\ \A k \in ToSet(used) : \E i \in 1..Len(used) : used[i] = k
    BY <1>t DEF ToSet
  <2>2. used \in Surjection(1..Len(used), ToSet(used))
    BY <2>1, Fun_IsSurj
  <2> QED
    BY <1>1, <2>2, FS_Surjection
<1>3. IsFiniteSet(CachedKeys)
  BY <1>2, FS_Subset DEF CacheIsLRU
<1>4. Len(cache) <= Cardinality(CachedKeys)
  <2> DEFINE f == [i \in 1..Len(cache) |-> cache[i].key]
  <2>1. f \in [1..Len(cache) -> CachedKeys]
    BY <1>t DEF CachedKeys
  <2>2. \A i, j \in 1..Len(cache) : f[i] = f[j] => i = j
    BY <1>t
  <2> HIDE DEF f
  <2>3. f \in Injection(1..Len(cache), CachedKeys)
    BY <2>1, <2>2, Fun_IsInj
  <2> QED
    BY <1>1, <1>3, <2>3, FS_Injection
<1> QED
  BY <1>2, <1>3, <1>4, FS_CardinalityType

\* As long as the keys fit into the cache, no step evicts one, and all calls with a
\* key get what the cache has for it.
LEMMA FitsNext == CacheIsLRU /\ FitsInv /\ [SubtaskNext]_subtaskVars => FitsInv'
<1> SUFFICES ASSUME CacheIsLRU, FitsInv, [SubtaskNext]_subtaskVars, Cardinality(ToSet(used)') <= MaxSize,
                    NEW c \in Caller, call'[c] # "idle"
             PROVE  \E i \in DOMAIN cache' : cache'[i].key = arg'[c] /\ cache'[i].fut = waits'[c]
  BY DEF FitsInv
<1>t. /\ SubtaskTypeOK /\ CacheIsLRU'
      /\ cache \in Seq(Entry) /\ Len(cache) \in Nat /\ DOMAIN cache = 1..Len(cache)
      /\ used \in Seq(Key) /\ MaxSize \in Nat
      /\ \A i \in DOMAIN cache : cache[i] \in Entry
  BY CacheTyped, SubtaskLRU DEF CacheIsLRU
<1>1. ASSUME NEW d \in Caller, NEW k \in Key, Invoke(d, k)
      PROVE  \E i \in DOMAIN cache' : cache'[i].key = arg'[c] /\ cache'[i].fut = waits'[c]
  <2>1. /\ ToSet(used)' = ToSet(used) \cup {k}
        /\ call'[d] = "waiting" /\ arg'[d] = k
        /\ \A e \in Caller : e # d => call'[e] = call[e] /\ arg'[e] = arg[e] /\ waits'[e] = waits[e]
    BY <1>1, <1>t, UseNext DEF Invoke, SubtaskTypeOK
  <2>2. /\ IsFiniteSet(ToSet(used)) /\ IsFiniteSet(CachedKeys)
        /\ Len(cache) <= Cardinality(CachedKeys)
        /\ Cardinality(CachedKeys) \in Nat /\ Cardinality(ToSet(used)) \in Nat
    BY KeysCount
  <2>3. IsFiniteSet(ToSet(used)') /\ Cardinality(ToSet(used)') \in Nat
    BY <2>1, <2>2, FS_AddElement, FS_CardinalityType
  <2>4. ASSUME c # d
        PROVE  \E i \in DOMAIN cache : cache[i].key = arg'[c] /\ cache[i].fut = waits'[c]
    <3>1. Cardinality(ToSet(used)) <= Cardinality(ToSet(used)')
      BY <2>1, <2>3, FS_Subset
    <3>2. Cardinality(ToSet(used)) <= MaxSize
      BY <1>t, <2>2, <2>3, <3>1
    <3> QED
      BY <2>1, <2>4, <3>2 DEF FitsInv
  <2>5. CASE Cached(k) /\ cache' = Touched(k) /\ waits' = [waits EXCEPT ![d] = Item(k).fut]
    <3>1. PICK p \in DOMAIN cache :
              /\ cache[p].key = k /\ Item(k) = cache[p] /\ Len(Touched(k)) = Len(cache)
              /\ DOMAIN Touched(k) = DOMAIN cache
              /\ \A i \in DOMAIN cache :
                    Touched(k)[i] = cache[IF i < p THEN i ELSE IF i < Len(cache) THEN i+1 ELSE p]
      BY <2>5, HitMoves
    <3>2. ASSUME NEW q \in DOMAIN cache PROVE \E i \in DOMAIN cache' : cache'[i] = cache[q]
      <4>1. CASE q < p
        BY <2>5, <3>1, <4>1
      <4>2. CASE q = p
        <5>1. Len(cache) \in DOMAIN cache' /\ cache'[Len(cache)] = cache[q]
          BY <1>t, <2>5, <3>1, <4>2
        <5> QED
          BY <5>1
      <4>3. CASE q > p
        <5>1. q-1 \in DOMAIN cache' /\ cache'[q-1] = cache[q]
          <6>1. q-1 \in DOMAIN cache /\ ~(q-1 < p) /\ q-1 < Len(cache) /\ (q-1)+1 = q
            BY <1>t, <4>3
          <6> QED
            BY <2>5, <3>1, <6>1
        <5> QED
          BY <5>1
      <4> QED
        BY <1>t, <4>1, <4>2, <4>3
    <3>3. CASE c = d
      <4>1. cache[p].key = arg'[c] /\ cache[p].fut = waits'[c]
        BY <1>t, <2>1, <2>5, <3>1, <3>3 DEF SubtaskTypeOK
      <4> QED
        BY <3>2, <4>1
    <3>4. CASE c # d
      BY <2>4, <3>2, <3>4
    <3> QED
      BY <3>3, <3>4
  <2>6. CASE ~Cached(k) /\ cache' = Inserted([key |-> k, fut |-> d]) /\ waits' = [waits EXCEPT ![d] = d]
    <3> DEFINE e == [key |-> k, fut |-> d]
    <3>1. e \in Entry /\ e.key = k /\ e.fut = d /\ cache' = Inserted(e)
      BY <2>6 DEF Entry
    <3> HIDE DEF e
    <3>2. PICK m \in {0, 1} : InsertedBut(m, e, cache')
      BY <3>1, MissInserts
    <3>3. m = 0
      <4>1. k \notin CachedKeys
        BY <2>6 DEF Cached, CachedKeys
      <4>2. Cardinality(CachedKeys \cup {k}) = Cardinality(CachedKeys) + 1
        BY <2>2, <4>1, FS_AddElement
      <4>3. CachedKeys \cup {k} \subseteq ToSet(used)'
        BY <2>1 DEF CacheIsLRU
      <4>4. Cardinality(CachedKeys \cup {k}) <= Cardinality(ToSet(used)')
        BY <2>3, <4>3, FS_Subset
      <4>5. Len(cache) + 1 <= MaxSize
        BY <1>t, <2>2, <2>3, <4>2, <4>4
      <4> QED
        <5>1. Len(cache) # MaxSize
          <6>1. Len(cache) \in Nat /\ MaxSize \in Nat
            BY <1>t
          <6> QED
            BY <4>5, <6>1
        <5> QED
          BY <3>2, <5>1 DEF InsertedBut
    <3>4. /\ DOMAIN cache' = 1..(Len(cache) + 1)
          /\ \A i \in DOMAIN cache' :
                cache'[i] = IF i = Len(cache) + 1 THEN e ELSE cache[i]
      BY <1>t, <3>2, <3>3 DEF InsertedBut
    <3>5. CASE c = d
      <4>1. Len(cache) + 1 \in DOMAIN cache' /\ cache'[Len(cache) + 1] = e
        BY <1>t, <3>4
      <4>2. e.key = arg'[c] /\ e.fut = waits'[c]
        BY <1>t, <2>1, <2>6, <3>1, <3>5 DEF SubtaskTypeOK
      <4> QED
        BY <4>1, <4>2
    <3>6. CASE c # d
      <4>1. PICK i \in DOMAIN cache : cache[i].key = arg'[c] /\ cache[i].fut = waits'[c]
        BY <2>4, <3>6
      <4>2. i \in DOMAIN cache' /\ cache'[i] = cache[i]
        BY <1>t, <3>4
      <4> QED
        BY <4>1, <4>2
    <3> QED
      BY <3>5, <3>6
  <2> QED
    BY <1>1, <2>5, <2>6 DEF Invoke
<1>2. CASE UNCHANGED <<cache, used, arg, waits>> /\ \A d \in Caller : call'[d] # "idle" => call[d] # "idle"
  BY <1>2 DEF FitsInv
<1>3. ASSUME NEW d \in Caller, Resume(d)
      PROVE  call[d] = "waiting" /\ \A e \in Caller : e # d => call'[e] = call[e]
  BY <1>t, <1>3 DEF Resume, SubtaskTypeOK
<1> QED
  BY <1>1, <1>2, <1>3 DEF SubtaskNext, FutureEnds, TimesOut, Resume, TwinStops, TwinCancels, subtaskVars

\* The inductive invariant.
LEMMA SubtaskInvariant == SubtaskSpec => []SubtaskInv
<1>1. SubtaskInit => SubtaskInv
  <2> SUFFICES ASSUME SubtaskInit PROVE SubtaskInv
    OBVIOUS
  <2>1. SubtaskTypeOK
    <3>1. <<>> \in Seq(Entry) /\ <<>> \in Seq(Key) /\ Len(<<>>) <= MaxSize
      BY SharedAssumption
    <3> QED
      BY <3>1 DEF SubtaskInit, SubtaskTypeOK, Entry
  <2>2. DOMAIN cache = {} /\ DOMAIN used = {}
    BY DEF SubtaskInit
  <2>3. CachedKeys = {} /\ ToSet(used) = {}
    BY <2>2 DEF CachedKeys, ToSet
  <2>4. CacheIsLRU
    BY <2>1, <2>2, <2>3 DEF CacheIsLRU
  <2>5. FitsInv /\ NoOrphans
    BY DEF SubtaskInit, FitsInv, NoOrphans
  <2> QED
    BY <2>4, <2>5 DEF SubtaskInv
<1>2. SubtaskInv /\ [SubtaskNext]_subtaskVars => SubtaskInv'
  <2> SUFFICES ASSUME SubtaskInv, [SubtaskNext]_subtaskVars PROVE SubtaskInv'
    OBVIOUS
  <2>1. CacheIsLRU /\ SubtaskTypeOK /\ NoOrphans /\ FitsInv
    BY DEF SubtaskInv, CacheIsLRU
  <2>2. CacheIsLRU' /\ NoOrphans' /\ FitsInv'
    BY <2>1, SubtaskLRU, AwaitedNext, FitsNext
  <2> QED
    BY <2>2 DEF SubtaskInv
<1> QED
  BY <1>1, <1>2, PTL DEF SubtaskSpec

\* The cache of a shared sub-task (fetch_item, put_item) is LRU, whatever its size
\* and whoever calls: it evicts only when it is full, and then the key that was used
\* longest ago.
THEOREM CacheAlwaysLRU == SubtaskSpec => []CacheIsLRU
<1>1. SubtaskInv => CacheIsLRU
  BY DEF SubtaskInv
<1> QED
  BY <1>1, SubtaskInvariant, PTL

\* Timeouts, a teardown and evictions leave no computation running that nobody
\* awaits (fetch_wrapper): a caller that is cancelled waits until the future is done.
THEOREM NothingOrphaned == SubtaskSpec => []NoOrphans
<1>1. SubtaskInv => NoOrphans
  BY DEF SubtaskInv
<1> QED
  BY <1>1, SubtaskInvariant, PTL

\* Until there have been more keys than the cache holds, all calls with one key get
\* one future (fetch_wrapper), pending, done or failed.
THEOREM KeyComputedOnce == SubtaskSpec => []ComputedOnce
<1>1. ASSUME SubtaskInv PROVE ComputedOnce
  <2>1. \A i, j \in DOMAIN cache : cache[i].key = cache[j].key => i = j
    BY <1>1, CacheTyped DEF SubtaskInv
  <2> SUFFICES ASSUME Cardinality(ToSet(used)) <= MaxSize,
                      NEW c \in Caller, NEW d \in Caller,
                      call[c] # "idle", call[d] # "idle", arg[c] = arg[d]
               PROVE  waits[c] = waits[d]
    BY DEF ComputedOnce
  <2>2. PICK i \in DOMAIN cache : cache[i].key = arg[c] /\ cache[i].fut = waits[c]
    BY <1>1 DEF SubtaskInv, FitsInv
  <2>3. PICK j \in DOMAIN cache : cache[j].key = arg[d] /\ cache[j].fut = waits[d]
    BY <1>1 DEF SubtaskInv, FitsInv
  <2> QED
    BY <2>1, <2>2, <2>3
<1> QED
  BY <1>1, SubtaskInvariant, PTL
=============================================================================
