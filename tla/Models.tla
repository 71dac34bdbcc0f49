------------------------------- MODULE Models -------------------------------
(***************************************************************************)
(* Agents, investigators and the models they publish: RuntimeAPI of        *)
(* runtime.py and the two branches of _run_component that run an inference.*)
(*                                                                         *)
(* One agent starts investigators (Child) and selects among them for each  *)
(* inference; other investigators (Direct) are components of the graph by  *)
(* themselves.  Main loops and callbacks publish models and selectors at   *)
(* any time.  An inference is a dtype consumer's work on an item (Queued)  *)
(* or a get_inference() of another component or of the host.               *)
(*                                                                         *)
(* A step goes from one suspension to the next.  Event.wait() does not     *)
(* suspend if the event is set, so an inference that finds its model       *)
(* published runs in the step that selected it.                            *)
(*                                                                         *)
(* The callbacks of subscribe_to_topic() and model_publish_cb are tasks of *)
(* the runtime (module Runtime) and change nothing here by themselves.     *)
(***************************************************************************)
EXTENDS Integers, Sequences, SequencesExt

CONSTANTS
    Agent,      \* the SciAgent
    Child,      \* investigators it may start
    Direct,     \* investigators added with add_investigator()
    Call,       \* inferences
    Queued,     \* those that a dtype consumer runs for an item of its queue
    MaxModels,  \* bound: models an investigator publishes
    MaxTasks    \* bound: registrations of the shared sub-task

ASSUME ModelsAssumption ==
    /\ Queued \subseteq Call
    /\ Child \cap Direct = {}
    /\ Agent \notin Child \cup Direct
    /\ MaxModels \in Nat /\ MaxTasks \in Nat

Investigator == Child \cup Direct
Component    == Investigator \cup {Agent}

\* What an inference is called with: the n-th model, or
Empty == 0      \* the initial model_kwargs, {}
Bare  == -1     \* None, of a publish_new_model() without arguments
Own   == -2     \* the arguments that the selector itself answered
Model == {Empty, Bare} \cup 1..MaxModels

Stages == {"idle", "selecting", "choosing", "waiting", "inferring",
           "answered", "nothing", "failed", "cancelled"}
Ended  == {"answered", "nothing", "failed", "cancelled"}

VARIABLES
    investigators,           \* the agent's registry: ids are places in it
    model_kwargs,            \* per investigator, the model of its last publication
    has_published_model,     \* the investigators whose event is set
    published,               \* per investigator, how often it published
    inference_task,          \* the investigators that set an inference task
    model_select_task,       \* has the agent set its selection task
    has_published_selector,  \* the agent's event
    shared_tasks,            \* per component, its struct of the label, or 0
    inference,               \* the inferences
    up                       \* the twin accepts tasks: nothing failed yet

infVars   == <<inference, up>>
modelVars == <<model_kwargs, has_published_model, published, inference_task>>
agentVars == <<investigators, model_select_task, has_published_selector, shared_tasks>>
vars      == <<infVars, modelVars, agentVars>>

Started == ToSet(investigators)

\* An inference that nobody asked for yet.  latest and blind are history: the
\* model of the investigator when the inference began, and whether it was
\* selected before the investigator published any.
NoInference ==
    [stage |-> "idle", inv |-> Agent, kwargs |-> Empty, latest |-> Empty,
     blind |-> FALSE]

Init ==
    /\ investigators = <<>>
    /\ model_kwargs = [i \in Investigator |-> Empty]
    /\ has_published_model = {}
    /\ published = [i \in Investigator |-> 0]
    /\ inference_task = {}
    /\ model_select_task = FALSE
    /\ has_published_selector = FALSE
    /\ shared_tasks = [c \in Component |-> 0]
    /\ inference = [c \in Call |-> NoInference]
    /\ up = TRUE

-----------------------------------------------------------------------------
(* What components call.                                                   *)

\* start_investigator: a record of its own, without the agent's sub-tasks.
StartInvestigator(i) ==
    /\ i \notin Started
    /\ investigators' = Append(investigators, i)
    /\ UNCHANGED <<infVars, modelVars, model_select_task, has_published_selector,
                   shared_tasks>>

\* publish_new_model, with arguments or without.
Published_given(i, m) ==    \* mutant: only arguments count as a publication
    /\ model_kwargs' = [model_kwargs EXCEPT ![i] = m]
    /\ has_published_model' = IF m = Bare THEN has_published_model
                              ELSE has_published_model \cup {i}

Published(i, m) ==
    /\ model_kwargs' = [model_kwargs EXCEPT ![i] = m]
    /\ has_published_model' = has_published_model \cup {i}

PublishNewModel(i) ==
    /\ i \in Started \cup Direct
    /\ published[i] < MaxModels
    /\ \E m \in {Bare, published[i] + 1} : Published(i, m)
    /\ published' = [published EXCEPT ![i] = @ + 1]
    /\ UNCHANGED <<infVars, agentVars, inference_task>>

SetInferenceTask(i) ==
    /\ i \in Started \cup Direct
    /\ inference_task' = inference_task \cup {i}
    /\ UNCHANGED <<infVars, agentVars, model_kwargs, has_published_model, published>>

SetModelSelectionTask ==
    /\ model_select_task' = TRUE
    /\ UNCHANGED <<infVars, modelVars, investigators, has_published_selector, shared_tasks>>

UpdateModelSelector ==
    /\ has_published_selector' = TRUE
    /\ UNCHANGED <<infVars, modelVars, investigators, model_select_task, shared_tasks>>

\* register_shared_subtask: a new struct, shared with the investigators started so far.
Copied_once(n) ==    \* mutant: an investigator keeps the struct it got first
    [c \in Component |-> IF c = Agent \/ (c \in Started /\ shared_tasks[c] = 0)
                         THEN n ELSE shared_tasks[c]]

Copied(n) == [c \in Component |-> IF c \in Started \cup {Agent} THEN n ELSE shared_tasks[c]]

RegisterSharedSubtask ==
    /\ shared_tasks[Agent] < MaxTasks
    /\ shared_tasks' = Copied(shared_tasks[Agent] + 1)
    /\ UNCHANGED <<infVars, modelVars, investigators, model_select_task,
                   has_published_selector>>

\* call_ and get_shared_subtask of a label the component was not given: the
\* ValueError ends its main loop, and with it the twin.
UnknownSharedSubtask(c) ==
    /\ c \in Started \cup {Agent}
    /\ shared_tasks[c] = 0
    /\ up' = FALSE
    /\ UNCHANGED <<inference, modelVars, agentVars>>

-----------------------------------------------------------------------------
(* One inference: _run_component of an investigator or of the agent.       *)

\* The call goes on, or ends: only how is kept then.  What it raises ends the
\* twin if a dtype consumer made it.
Goes(c, rec, how) ==
    /\ inference' = [inference EXCEPT
                       ![c] = [IF how \in Ended THEN NoInference ELSE rec EXCEPT !.stage = how]]
    /\ up' = (up /\ ~(how = "failed" /\ c \in Queued))

\* _internal_agent_inference, _dtype_consumer
Ask(c) ==
    /\ inference[c].stage = "idle"
    /\ c \in Queued => up
    /\ \E i \in Direct \cup {Agent} :
          Goes(c, [NoInference EXCEPT !.inv = i],
               IF i = Agent THEN "selecting" ELSE "waiting")
    /\ UNCHANGED <<modelVars, agentVars>>

\* The selection task is called with the latest arguments of the selector.
Select(c) ==
    /\ inference[c].stage = "selecting"
    /\ has_published_selector
    /\ Goes(c, inference[c], IF model_select_task THEN "choosing" ELSE "failed")
    /\ UNCHANGED <<modelVars, agentVars>>

\* The inference task is called: there must be one, and ** takes no None.
Begin(c, rec, kwargs) ==
    Goes(c, [rec EXCEPT !.kwargs = kwargs, !.latest = model_kwargs[rec.inv]],
         IF rec.inv \in inference_task /\ kwargs # Bare THEN "inferring" ELSE "failed")

\* The selector answers an id, alone or with arguments.  A model that is not
\* among the arguments is read here, before the wait for its publication.
ToSelected_unheld(c, i, kwargs) ==    \* mutant: the wait is forgotten
    Begin(c, [inference[c] EXCEPT !.inv = i, !.blind = (published[i] = 0)], kwargs)

ToSelected(c, i, kwargs) ==
    LET rec == [inference[c] EXCEPT !.inv = i, !.kwargs = kwargs,
                                    !.blind = (published[i] = 0)]
    IN  IF i \in has_published_model THEN Begin(c, rec, kwargs) ELSE Goes(c, rec, "waiting")

Choose(c) ==
    /\ inference[c].stage = "choosing"
    /\ \/ \E i \in Started : \E kwargs \in {Own, model_kwargs[i]} : ToSelected(c, i, kwargs)
       \/ Goes(c, inference[c], "nothing")      \* an id nobody has
    /\ UNCHANGED <<modelVars, agentVars>>

\* The model is published.  An investigator of the graph reads it now.
ModelArrives(c) ==
    LET rec == inference[c] IN
    /\ rec.stage = "waiting"
    /\ rec.inv \in has_published_model
    /\ Begin(c, rec, IF rec.inv \in Direct THEN model_kwargs[rec.inv] ELSE rec.kwargs)
    /\ UNCHANGED <<modelVars, agentVars>>

\* The inference task returns a result, or None, or raises.  No result is fine
\* for an investigator of the graph and an assertion for the agent.
InferenceReturns(c) ==
    LET rec == inference[c] IN
    /\ rec.stage = "inferring"
    /\ \/ Goes(c, rec, "answered")
       \/ Goes(c, rec, IF rec.inv \in Direct THEN "nothing" ELSE "failed")
       \/ Goes(c, rec, "failed")
    /\ UNCHANGED <<modelVars, agentVars>>

\* The teardown cancels the consumers of the twin.
Cancelled(c) ==
    /\ c \in Queued /\ ~up
    /\ inference[c].stage \notin Ended \cup {"idle"}
    /\ Goes(c, inference[c], "cancelled")
    /\ UNCHANGED <<modelVars, agentVars>>

Inference(c) ==
    Select(c) \/ Choose(c) \/ ModelArrives(c) \/ InferenceReturns(c) \/ Cancelled(c)

Next ==
    \/ \E i \in Child : StartInvestigator(i)
    \/ \E i \in Investigator : PublishNewModel(i) \/ SetInferenceTask(i)
    \/ SetModelSelectionTask \/ UpdateModelSelector
    \/ RegisterSharedSubtask
    \/ \E c \in Component : UnknownSharedSubtask(c)
    \/ \E c \in Call : Ask(c) \/ Inference(c)

Spec == Init /\ [][Next]_vars

\* The event loop runs what is ready, and selection and inference tasks return;
\* nobody has to publish anything.
FairSpec == Spec /\ \A c \in Call : WF_vars(Inference(c))

-----------------------------------------------------------------------------
(* Properties.                                                             *)

\* Types of the state, and what the events are set by.
TypeOK ==
    /\ investigators \in Seq(Child) /\ IsInjective(investigators)
    /\ model_kwargs \in [Investigator -> Model]
    /\ has_published_model = {i \in Investigator : published[i] > 0}
    /\ inference_task \subseteq Started \cup Direct
    /\ inference \in [Call -> [stage : Stages, inv : Component, kwargs : Model \cup {Own},
                               latest : Model, blind : BOOLEAN]]
    /\ shared_tasks \in [Component -> 0..MaxTasks]

\* One cache per label (register_shared_subtask, start_investigator): an
\* investigator that has the shared sub-task at all has the struct the agent has,
\* whatever was registered, or started, first and again.
OneCache ==
    /\ TypeOK
    /\ \A i \in Investigator : shared_tasks[i] \in {0, shared_tasks[Agent]}

Running(c) == inference[c].stage = "inferring"

\* Whatever is published while an inference is under way (_run_component): it
\* runs with the selector's arguments or the model that is the latest when it
\* begins, except one that was selected before there was any model; that one
\* runs without arguments.  None runs before its investigator published.
ModelInTime ==
    \A c \in Call : LET rec == inference[c] IN
        Running(c) => /\ rec.latest # Empty
                      /\ \/ rec.kwargs \in {Own, rec.latest}
                         \/ rec.blind /\ rec.inv \in Child /\ rec.kwargs = Empty

\* "IF returned model_args is NONE or missing, use latest model published by
\* investigator" (components.py, SciAgent.model_select): read before the wait.
LatestModel == \A c \in Call : Running(c) => inference[c].kwargs \in {Own, inference[c].latest}

\* Every inference ends if the selector and all investigators that are started
\* have published once: nothing that arrived is waited for (_run_component).
InferenceEnds ==
    LET Trained == has_published_selector /\ \A i \in Started \cup Direct : published[i] > 0
    IN  <>[]Trained =>
            \A c \in Call : inference[c].stage # "idle" ~> inference[c].stage \in Ended
=============================================================================
