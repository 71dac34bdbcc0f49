--------------------------- MODULE RuntimeProofs ---------------------------
(***************************************************************************)
(* Proofs about Runtime, for any set of tasks, of components gathered by   *)
(* them and of calls of stop().                                            *)
(***************************************************************************)
EXTENDS Runtime, TLAPS

\* The possible outcomes of _record_error, for the steps that report an error.
LEMMA RecordErrorCases ==
    ASSUME NEW e, RecordError(e)
    PROVE  \/ UNCHANGED lifeVars
           \/ /\ state = "stopped" /\ last_error' = e
              /\ UNCHANGED <<state, stop_task, teardowns>>
           \/ /\ state \notin Terminal /\ state' = "failed" /\ last_error' = e
              /\ stop_task = "none"
              /\ stop_task' = "scheduled" /\ teardowns' = teardowns + 1
           \/ /\ state \notin Terminal /\ state' = "failed" /\ last_error' = e
              /\ stop_task # "none"
              /\ UNCHANGED <<stop_task, teardowns>>
BY DEF RecordError, Settled, MayTearDown, StartTeardown, Terminal

-----------------------------------------------------------------------------
\* A new twin has its types.
LEMMA TypeInit == Init => TypeOK
<1> SUFFICES ASSUME Init PROVE TypeOK
  OBVIOUS
<1>1. /\ task \in [Task -> {"new", "running", "gathering", "finished", "raised", "gone"}]
      /\ caller \in [Caller -> {"idle", "joining", "returned", "aborted"}]
  BY DEF Init
<1>2. /\ state \in {"ready", "running", "stopped", "failed"}
      /\ last_error \in Error \cup {NoError}
      /\ is_start \in BOOLEAN
      /\ stop_task \in {"none", "scheduled", "waiting", "closing", "done"}
  BY DEF Init
<1>3. teardowns \in 0..1
  BY DEF Init
<1>4. /\ running_tasks \subseteq Task
      /\ dying \subseteq Task
      /\ abandoned \subseteq Task
      /\ cancelled \subseteq Task \cup Comp
      /\ comp \subseteq Comp
      /\ infer \in {"idle", "waiting", "running"}
      /\ graph \subseteq Task
      /\ stream \in {"open", "broken", "closed"}
  BY DEF Init
<1> QED
  BY <1>1, <1>2, <1>3, <1>4 DEF TypeOK

\* Every step of a twin keeps the types.
LEMMA TypeNext == TypeOK /\ OneTeardown /\ [Next]_vars => TypeOK'
<1> SUFFICES ASSUME TypeOK, OneTeardown, [Next]_vars PROVE TypeOK'
  OBVIOUS
<1> USE DEF TypeOK, lifeVars, ownVars, workVars
<1>1. CASE Start
  BY <1>1 DEF Start
<1>2. ASSUME NEW t \in Task, Spawn(t)
      PROVE  /\ running_tasks' \subseteq Task
             /\ task' \in [Task -> {"new", "running", "gathering", "finished", "raised", "gone"}]
  BY <1>2 DEF Spawn
<1>3. ASSUME NEW t \in Task,
             AddComponent(t) \/ AddJoinOrSplit(t) \/ SpawnFromWork(t)
      PROVE  TypeOK'
  <2>1. graph' \subseteq Task
    BY <1>3 DEF AddComponent, AddJoinOrSplit, SpawnFromWork
  <2> QED
    BY <1>2, <1>3, <2>1 DEF AddComponent, AddJoinOrSplit, SpawnFromWork
<1>4. ASSUME NEW t \in Task, Work(t) PROVE TypeOK'
  <2>1. task' \in [Task -> {"new", "running", "gathering", "finished", "raised", "gone"}]
    BY <1>4 DEF Work, TaskEnds, TaskCancelled, Gather, CompReturns, CompRaises,
                CompCancelled
  <2>2. comp' \subseteq Comp
    BY <1>4, RuntimeAssumption
       DEF Work, TaskEnds, TaskCancelled, Gather, CompReturns, CompRaises, CompCancelled
  <2> QED
    BY <1>4, <2>1, <2>2
       DEF Work, TaskEnds, TaskCancelled, Gather, CompReturns, CompRaises, CompCancelled
<1>5. ASSUME NEW e \in Error, RecordError(e)
      PROVE  /\ state' \in {"ready", "running", "stopped", "failed"}
             /\ last_error' \in Error \cup {NoError}
             /\ stop_task' \in {"none", "scheduled", "waiting", "closing", "done"}
             /\ teardowns' \in 0..1
  BY <1>5, RecordErrorCases DEF OneTeardown
<1>6. ASSUME NEW t \in Task, TaskDone(t) PROVE TypeOK'
  <2>1. t \in Error
    BY DEF Error
  <2> QED
    BY <1>5, <1>6, <2>1 DEF TaskDone
<1>7. CASE StreamError
  BY <1>5, <1>7 DEF StreamError, Error
<1>8. CASE InferCall \/ InferRun \/ InferEnd
  BY <1>8 DEF InferCall, InferRun, InferEnd
<1>9. ASSUME NEW c \in Caller, StopCall(c) \/ StopReturn(c) \/ StopAborted(c)
      PROVE  TypeOK'
  BY <1>9 DEF StopCall, StopReturn, StopAborted, MayTearDown, StartTeardown, OneTeardown
<1>10. CASE TeardownCancels
  <2>1. cancelled' \subseteq Task \cup Comp
    BY <1>10 DEF TeardownCancels, CancelAll
  <2> QED
    BY <1>10, <2>1 DEF TeardownCancels
<1>11. CASE TeardownWaited \/ TeardownGivesUp
  BY <1>11 DEF TeardownWaited, TeardownGivesUp, Pending
<1>12. CASE TeardownCloses
  BY <1>12 DEF TeardownCloses, Error
<1>13. CASE UNCHANGED vars
  BY <1>13 DEF vars
<1> QED
  BY <1>1, <1>3, <1>4, <1>6, <1>7, <1>8, <1>9, <1>10, <1>11, <1>12, <1>13 DEF Next

-----------------------------------------------------------------------------
(***************************************************************************)
(* One teardown, and nothing escapes it.  The invariant follows the tasks  *)
(* through the teardown: until it has cancelled them the runtime holds     *)
(* every task at work, from then on it holds none and all that are at work *)
(* are the teardown's; when its wait is over only abandoned ones are left. *)
(***************************************************************************)
Early == {"none", "scheduled"}

JoinInv == \A c \in Caller : caller[c] = "returned" => Down

LifeInv ==
    /\ TypeOK
    /\ OneTeardown
    /\ NoTaskEscapes
    /\ stop_task \in Early => dying = {}
    /\ stop_task \notin Early => running_tasks = {}
    /\ stop_task \in {"closing", "done"} => \A t \in Task : Alive(t) => t \in abandoned
    /\ JoinInv

\* A step that brings no task to life and leaves the teardown where it is.
LEMMA WorkKeeps ==
    ASSUME LifeInv, TypeOK', UNCHANGED <<lifeVars, dying, abandoned, cancelled, caller>>,
           running_tasks' \subseteq running_tasks,
           \A t \in Task : Alive(t)' => Alive(t) /\ (t \in running_tasks => t \in running_tasks')
    PROVE  LifeInv'
BY DEF LifeInv, lifeVars, OneTeardown, NoTaskEscapes, JoinInv, Down, Terminal, Early

\* A step that may start one task, if the twin accepts any.
LEMMA SpawnKeeps ==
    ASSUME LifeInv, TypeOK', NEW t \in Task, Spawn(t),
           UNCHANGED <<lifeVars, dying, abandoned, cancelled, caller>>
    PROVE  LifeInv'
<1>1. CASE Accepting
  <2>1. running_tasks' = running_tasks \cup {t} /\ stop_task = "none"
    BY <1>1 DEF Spawn, Accepting
  <2>2. \A s \in Task : Alive(s)' => Alive(s) \/ s = t
    BY <1>1 DEF Spawn, Alive, LifeInv, TypeOK
  <2> QED
    BY <2>1, <2>2 DEF LifeInv, lifeVars, OneTeardown, NoTaskEscapes, JoinInv, Down,
                      Terminal, Early
<1>2. CASE ~Accepting
  <2>1. UNCHANGED <<task, running_tasks>>
    BY <1>2 DEF Spawn
  <2> QED
    BY <2>1, WorkKeeps DEF Alive
<1> QED
  BY <1>1, <1>2

\* A step that reports an error and may take a task out that is not at work.
LEMMA ErrorKeeps ==
    ASSUME LifeInv, TypeOK', NEW e, RecordError(e),
           UNCHANGED <<dying, abandoned, cancelled, caller>>,
           running_tasks' \subseteq running_tasks,
           \A t \in Task : Alive(t)' => Alive(t) /\ (t \in running_tasks => t \in running_tasks')
    PROVE  LifeInv'
<1>1. CASE UNCHANGED lifeVars
  BY <1>1, WorkKeeps
<1>2. CASE state = "stopped" /\ UNCHANGED <<state, stop_task, teardowns>>
  BY <1>2 DEF LifeInv, OneTeardown, NoTaskEscapes, JoinInv, Down, Terminal, Early
<1>3. CASE /\ state \notin Terminal /\ state' = "failed"
           /\ stop_task = "none"
           /\ stop_task' = "scheduled" /\ teardowns' = teardowns + 1
  <2>1. OneTeardown'
    BY <1>3 DEF LifeInv, OneTeardown, Terminal
  <2>2. NoTaskEscapes' /\ JoinInv'
    BY <1>3 DEF LifeInv, NoTaskEscapes, JoinInv, Down
  <2> QED
    BY <1>3, <2>1, <2>2 DEF LifeInv, Early
<1>4. CASE state \notin Terminal /\ stop_task # "none"
  BY <1>4 DEF LifeInv, OneTeardown
<1> QED
  BY <1>1, <1>2, <1>3, <1>4, RecordErrorCases

\* A new twin has neither a teardown nor tasks to escape it.
LEMMA LifeInit == Init => LifeInv
<1> SUFFICES ASSUME Init PROVE LifeInv
  OBVIOUS
<1>1. \A t \in Task : ~Alive(t)
  BY DEF Init, Alive
<1>2. \A c \in Caller : caller[c] # "returned"
  BY DEF Init
<1> QED
  BY <1>1, <1>2, TypeInit DEF Init, LifeInv, OneTeardown, NoTaskEscapes, JoinInv,
                              Terminal, Early

\* Every step of a twin, its tasks and its callers keeps the teardown the only
\* one, the tasks under it, and those who join it waiting.
LEMMA LifeNext == LifeInv /\ [Next]_vars => LifeInv'
<1> SUFFICES ASSUME LifeInv, [Next]_vars PROVE LifeInv'
  OBVIOUS
<1> USE DEF lifeVars, ownVars, workVars
<1>0. TypeOK /\ TypeOK'
  BY TypeNext DEF LifeInv
<1>1. CASE Start
  BY <1>0, <1>1 DEF Start, LifeInv, OneTeardown, NoTaskEscapes, JoinInv, Down,
                    Alive, Terminal, Early
<1>2. ASSUME NEW t \in Task, AddComponent(t) \/ SpawnFromWork(t) PROVE LifeInv'
  BY <1>0, <1>2, SpawnKeeps DEF AddComponent, SpawnFromWork
<1>3. ASSUME NEW t \in Task, AddJoinOrSplit(t) PROVE LifeInv'
  BY <1>0, <1>3, SpawnKeeps, WorkKeeps DEF AddJoinOrSplit, Alive
<1>4. ASSUME NEW t \in Task, Work(t) PROVE LifeInv'
  <2>1. \A s \in Task : Alive(s)' => Alive(s)
    BY <1>0, <1>4 DEF Work, TaskEnds, TaskCancelled, Gather, CompReturns, CompRaises,
                      CompCancelled, Alive, TypeOK
  <2>2. UNCHANGED <<lifeVars, ownVars, cancelled, caller>>
    BY <1>4 DEF Work, TaskEnds, TaskCancelled, Gather, CompReturns, CompRaises,
                CompCancelled
  <2> QED
    BY <1>0, <2>1, <2>2, WorkKeeps
<1>5. ASSUME NEW t \in Task, TaskDone(t) PROVE LifeInv'
  <2>1. \A s \in Task : Alive(s)' => Alive(s) /\ s # t
    BY <1>0, <1>5 DEF TaskDone, Alive, TypeOK
  <2>2. running_tasks' = running_tasks \ {t}
    BY <1>5 DEF TaskDone
  <2>3. CASE RecordError(t)
    BY <1>0, <1>5, <2>1, <2>2, <2>3, ErrorKeeps DEF TaskDone
  <2>4. CASE UNCHANGED lifeVars
    BY <1>0, <1>5, <2>1, <2>2, <2>4, WorkKeeps DEF TaskDone
  <2> QED
    BY <1>5, <2>3, <2>4 DEF TaskDone
<1>6. CASE StreamError
  BY <1>0, <1>6, ErrorKeeps DEF StreamError, Alive
<1>7. CASE InferCall \/ InferRun \/ InferEnd
  BY <1>0, <1>7, WorkKeeps DEF InferCall, InferRun, InferEnd, Alive
<1>8. ASSUME NEW c \in Caller, StopCall(c) PROVE LifeInv'
  <2>1. JoinInv'
    BY <1>0, <1>8 DEF StopCall, MayTearDown, StartTeardown, LifeInv, JoinInv, Down, TypeOK
  <2>2. CASE MayTearDown
    <3>1. OneTeardown'
      BY <1>8, <2>2 DEF StopCall, MayTearDown, StartTeardown, LifeInv, OneTeardown, Terminal
    <3>2. NoTaskEscapes'
      BY <1>8, <2>2 DEF StopCall, MayTearDown, StartTeardown, LifeInv, NoTaskEscapes, Alive
    <3> QED
      BY <1>0, <1>8, <2>1, <2>2, <3>1, <3>2
         DEF StopCall, MayTearDown, StartTeardown, LifeInv, Early
  <2>3. CASE ~MayTearDown
    BY <1>0, <1>8, <2>1, <2>3
       DEF StopCall, LifeInv, OneTeardown, NoTaskEscapes, Alive, Terminal, Early
  <2> QED
    BY <2>2, <2>3
<1>9. ASSUME NEW c \in Caller, StopReturn(c) \/ StopAborted(c) PROVE LifeInv'
  <2>1. JoinInv'
    BY <1>0, <1>9 DEF StopReturn, StopAborted, Joined, LifeInv, JoinInv, Down, TypeOK
  <2> QED
    BY <1>0, <1>9, <2>1 DEF StopReturn, StopAborted, LifeInv, OneTeardown,
                            NoTaskEscapes, Alive, Terminal, Early
<1>10. CASE TeardownCancels
  <2>1. \A t \in Task : Alive(t)' => Alive(t) /\ t \in dying' /\ t \in cancelled'
    BY <1>10 DEF TeardownCancels, CancelAll, LifeInv, NoTaskEscapes, Alive, Early
  <2>2. running_tasks = {} => \A t \in Task : ~Alive(t)'
    BY <1>10, <2>1 DEF TeardownCancels
  <2>3. JoinInv' /\ OneTeardown'
    BY <1>10 DEF TeardownCancels, LifeInv, JoinInv, Down, OneTeardown, Terminal
  <2> QED
    BY <1>0, <1>10, <2>1, <2>2, <2>3 DEF TeardownCancels, LifeInv, NoTaskEscapes, Early
<1>11. CASE TeardownWaited \/ TeardownGivesUp
  <2>1. \A t \in Task : Alive(t)' => Alive(t) /\ t \in abandoned'
    BY <1>11 DEF TeardownWaited, TeardownGivesUp, Pending, LifeInv, NoTaskEscapes, Alive
  <2>2. JoinInv' /\ OneTeardown'
    BY <1>11 DEF TeardownWaited, TeardownGivesUp, LifeInv, JoinInv, Down, OneTeardown,
                 Terminal
  <2>3. NoTaskEscapes'
    BY <1>11 DEF TeardownWaited, TeardownGivesUp, LifeInv, NoTaskEscapes, Alive
  <2> QED
    BY <1>0, <1>11, <2>1, <2>2, <2>3 DEF TeardownWaited, TeardownGivesUp, LifeInv, Early
<1>12. CASE TeardownCloses
  <2>1. NoTaskEscapes' /\ JoinInv' /\ OneTeardown'
    BY <1>12 DEF TeardownCloses, LifeInv, NoTaskEscapes, JoinInv, OneTeardown, Down,
                 Alive, Terminal
  <2> QED
    BY <1>0, <1>12, <2>1 DEF TeardownCloses, LifeInv, Alive, Early
<1>13. CASE UNCHANGED vars
  BY <1>0, <1>13, WorkKeeps DEF vars, Alive
<1> QED
  BY <1>1, <1>2, <1>3, <1>4, <1>5, <1>6, <1>7, <1>8, <1>9, <1>10, <1>11, <1>12, <1>13
     DEF Next

\* The state of a twin always has its types, and there is at most one teardown.
THEOREM TypeCorrect == Spec => []TypeOK
<1>1. LifeInv => TypeOK
  BY DEF LifeInv
<1> QED
  BY <1>1, LifeInit, LifeNext, PTL DEF Spec

\* There is one teardown (_start_teardown), no task escapes it, and it leaves
\* nothing at work but what it abandoned.
THEOREM TeardownSafe ==
    Spec => [](OneTeardown /\ NoTaskEscapes /\ DownMeansDown)
<1>1. LifeInv => OneTeardown /\ NoTaskEscapes /\ DownMeansDown
  BY DEF LifeInv, DownMeansDown, Down, Early
<1> QED
  BY <1>1, LifeInit, LifeNext, PTL DEF Spec

\* No call of stop() returns before the teardown is complete (stop).
THEOREM StopAlwaysJoins == Spec => []StopJoins
<1>1. LifeInv => StopJoins
  BY DEF LifeInv, StopJoins, JoinInv, Down, Early
<1> QED
  BY <1>1, LifeInit, LifeNext, PTL DEF Spec

-----------------------------------------------------------------------------
\* The teardown's cancellation reaches whatever live consumers gather: no gather
\* starts after it, for a consumer at work is cancelled by then.
LEMMA ReachNext ==
    LifeInv /\ CancelReachesComponents /\ [Next]_vars => CancelReachesComponents'
<1> SUFFICES ASSUME LifeInv, CancelReachesComponents, [Next]_vars
             PROVE  CancelReachesComponents'
  OBVIOUS
<1> USE DEF lifeVars, ownVars, workVars
<1>0. TypeOK /\ TypeOK' /\ LifeInv'
  BY LifeNext, TypeNext DEF LifeInv
<1>1. ASSUME UNCHANGED <<stop_task, cancelled>>, comp' \subseteq comp,
             \A t \in Task : task'[t] = "gathering" => task[t] = "gathering"
      PROVE  CancelReachesComponents'
  BY <1>1 DEF CancelReachesComponents
<1>2. ASSUME stop_task' \in Early
      PROVE  CancelReachesComponents'
  BY <1>2 DEF CancelReachesComponents, Early
<1>3. ASSUME NEW e, RecordError(e), UNCHANGED <<cancelled, comp>>,
             \A t \in Task : task'[t] = "gathering" => task[t] = "gathering"
      PROVE  CancelReachesComponents'
  BY <1>1, <1>2, <1>3, RecordErrorCases DEF Early
<1>4. ASSUME NEW t \in Task, Spawn(t), UNCHANGED <<stop_task, cancelled, comp>>
      PROVE  CancelReachesComponents'
  BY <1>0, <1>1, <1>4 DEF Spawn, TypeOK
<1>5. ASSUME NEW t \in Task, Gather(t) PROVE CancelReachesComponents'
  <2>1. stop_task \in Early
    BY <1>0, <1>5 DEF Gather, LifeInv, NoTaskEscapes, Alive, Early
  <2> QED
    BY <1>2, <1>5, <2>1 DEF Gather
<1>6. ASSUME NEW t \in Task, Work(t) PROVE CancelReachesComponents'
  <2>1. CASE Gather(t)
    BY <1>5, <2>1
  <2>2. CASE ~Gather(t)
    BY <1>0, <1>1, <1>6, <2>2
       DEF Work, TaskEnds, TaskCancelled, CompReturns, CompRaises, CompCancelled, TypeOK
  <2> QED
    BY <2>1, <2>2
<1>7. ASSUME NEW t \in Task, TaskDone(t) PROVE CancelReachesComponents'
  BY <1>0, <1>1, <1>3, <1>7 DEF TaskDone, TypeOK
<1>8. ASSUME NEW c \in Caller, StopCall(c) PROVE CancelReachesComponents'
  BY <1>1, <1>2, <1>8 DEF StopCall, MayTearDown, StartTeardown, Early
<1>9. CASE TeardownCancels
  <2>1. \A t \in Task : task[t] = "gathering" => t \in running_tasks
    BY <1>9 DEF TeardownCancels, LifeInv, NoTaskEscapes, Alive, Early
  <2>2. \A t \in Task : task[t] = "gathering" => Children[t] \cap comp \subseteq cancelled'
    BY <1>9, <2>1 DEF TeardownCancels, CancelAll
  <2> QED
    BY <1>9, <2>2 DEF TeardownCancels, CancelReachesComponents
<1>10. CASE TeardownWaited \/ TeardownGivesUp \/ TeardownCloses
  BY <1>10 DEF TeardownWaited, TeardownGivesUp, TeardownCloses, CancelReachesComponents
<1> QED
  BY <1>1, <1>3, <1>4, <1>6, <1>7, <1>8, <1>9, <1>10
     DEF Next, Start, AddComponent, AddJoinOrSplit, SpawnFromWork, StreamError, InferCall,
         InferRun, InferEnd, StopReturn, StopAborted, vars

\* Once the teardown has cancelled the tasks, all components that live consumers
\* gather are cancelled with them (_teardown, _dtype_consumer).
THEOREM CancellationReaches == Spec => []CancelReachesComponents
<1>1. Init => CancelReachesComponents
  BY DEF Init, CancelReachesComponents
<1> QED
  BY <1>1, LifeInit, LifeNext, ReachNext, PTL DEF Spec

-----------------------------------------------------------------------------
\* The state and the error of a failed twin do not change.
LEMMA FailureStep ==
    LifeInv /\ [Next]_vars /\ state = "failed" => UNCHANGED <<state, last_error>>
<1> SUFFICES ASSUME LifeInv, [Next]_vars, state = "failed"
             PROVE  UNCHANGED <<state, last_error>>
  OBVIOUS
<1> USE DEF lifeVars, ownVars, workVars
<1>1. ASSUME NEW e, RecordError(e) PROVE UNCHANGED <<state, last_error>>
  BY <1>1 DEF RecordError, Settled
<1>2. ASSUME NEW c \in Caller, StopCall(c) PROVE UNCHANGED <<state, last_error>>
  BY <1>2 DEF StopCall, MayTearDown, LifeInv, OneTeardown, Terminal
<1>3. ASSUME NEW t \in Task, Work(t) PROVE UNCHANGED <<state, last_error>>
  BY <1>3 DEF Work, TaskEnds, TaskCancelled, Gather, CompReturns, CompRaises,
              CompCancelled
<1> QED
  BY <1>1, <1>2, <1>3
     DEF Next, Start, AddComponent, AddJoinOrSplit, SpawnFromWork, TaskDone, StreamError,
         InferCall, InferRun, InferEnd, StopReturn, StopAborted, TeardownCancels,
         TeardownWaited, TeardownGivesUp, TeardownCloses, Terminal, vars

\* The first failure of a twin is the one it reports (_record_error): a failed
\* twin keeps its state and its error.
THEOREM FirstFailureOwns == Spec => FirstFailureWins
<1>1. LifeInv /\ [Next]_vars => [state = "failed" => UNCHANGED <<state, last_error>>]_vars
  BY FailureStep
<1> QED
  BY <1>1, LifeInit, LifeNext, PTL DEF Spec, FirstFailureWins

-----------------------------------------------------------------------------
(***************************************************************************)
(* The runtime implements TwinLifecycle, its liveness apart.               *)
(***************************************************************************)
LEMMA LifecycleInit == Init => L!Init
BY DEF Init, L!Init, Down

\* Every step of a twin is one of TwinLifecycle, or none.
LEMMA LifecycleNext == LifeInv /\ [Next]_vars => [L!Next]_(L!vars)
<1> SUFFICES ASSUME LifeInv, [Next]_vars PROVE [L!Next]_(L!vars)
  OBVIOUS
<1> USE DEF lifeVars, ownVars, workVars
<1>0. TypeOK /\ TypeOK'
  BY TypeNext DEF LifeInv
<1>1. ASSUME UNCHANGED lifeVars PROVE UNCHANGED L!vars
  BY <1>1 DEF L!vars, Down
<1>2. ASSUME NEW e \in Error, RecordError(e) PROVE L!Next \/ UNCHANGED L!vars
  <2>1. CASE UNCHANGED lifeVars
    BY <1>1, <2>1
  <2>2. CASE state = "stopped" /\ last_error' = e /\ UNCHANGED <<state, stop_task>>
    BY <2>2 DEF L!Next, L!Note, Down
  <2>3. CASE state \notin Terminal /\ state' = "failed" /\ last_error' = e
    <3>1. L!Fail(e)
      BY <1>0, <2>3 , RecordErrorCases, <1>2
         DEF L!Fail, L!Open, Down, LifeInv, OneTeardown, Terminal, TypeOK
    <3> QED
      BY <3>1 DEF L!Next
  <2> QED
    BY <1>2, <2>1, <2>2, <2>3, RecordErrorCases
<1>3. CASE Start
  BY <1>0, <1>3 DEF Start, L!Next, L!Start, L!Open, Terminal, Down, TypeOK
<1>4. ASSUME NEW t \in Task, Work(t) PROVE UNCHANGED L!vars
  BY <1>1, <1>4 DEF Work, TaskEnds, TaskCancelled, Gather, CompReturns, CompRaises,
                    CompCancelled
<1>5. ASSUME NEW t \in Task, TaskDone(t) PROVE L!Next \/ UNCHANGED L!vars
  BY <1>1, <1>2, <1>5 DEF TaskDone, Error
<1>6. CASE StreamError
  BY <1>2, <1>6 DEF StreamError, Error
<1>7. ASSUME NEW c \in Caller, StopCall(c) PROVE L!Next \/ UNCHANGED L!vars
  <2>1. CASE MayTearDown
    BY <1>0, <1>7, <2>1 DEF StopCall, MayTearDown, StartTeardown, LifeInv, OneTeardown,
                            Terminal, TypeOK, Down, L!Next, L!Stop, L!Open
  <2>2. CASE ~MayTearDown
    BY <1>1, <1>7, <2>2 DEF StopCall
  <2> QED
    BY <2>1, <2>2
<1>8. CASE TeardownCancels \/ TeardownWaited \/ TeardownGivesUp
  BY <1>8 DEF TeardownCancels, TeardownWaited, TeardownGivesUp, L!vars, Down
<1>9. CASE TeardownCloses
  <2>1. state \in Terminal
    BY <1>9 DEF TeardownCloses, LifeInv, OneTeardown
  <2>2. L!GoDown
    BY <1>9, <2>1 DEF TeardownCloses, L!GoDown, L!Terminal, Terminal, Down, Error
  <2> QED
    BY <2>2 DEF L!Next
<1> QED
  BY <1>1, <1>3, <1>4, <1>5, <1>6, <1>7, <1>8, <1>9
     DEF Next, AddComponent, AddJoinOrSplit, SpawnFromWork, InferCall, InferRun, InferEnd,
         StopReturn, StopAborted, vars

\* A twin promises what TwinLifecycle does: start, one way down, one end
\* (start, stop, _start_teardown, _record_error).
THEOREM RuntimeImplementsLifecycle == Spec => L!Spec
BY LifeInit, LifeNext, LifecycleInit, LifecycleNext, PTL DEF Spec, L!Spec
=============================================================================
