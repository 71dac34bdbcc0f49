------------------------------ MODULE Runtime ------------------------------
(***************************************************************************)
(* The life of one twin: DTRuntime of runtime.py, from its constructor to  *)
(* the end of its one teardown.                                            *)
(*                                                                         *)
(* Task is the set of asyncio tasks created by _to_asyncio_task: component *)
(* main loops, callbacks, dtype consumers, barrier loops.  A consumer runs *)
(* the components of its dtype under asyncio.gather (_dtype_consumer); the *)
(* components gathered by task t are Children[t], and these are tasks      *)
(* that running_tasks does not hold.                                       *)
(*                                                                         *)
(* One step is what the event loop runs between two suspension points: a   *)
(* call of the public API, the resumption of a task, a done-callback.      *)
(***************************************************************************)
EXTENDS Naturals, FiniteSets

CONSTANTS
    Task,       \* the tasks the runtime may create
    Comp,       \* component invocations that consumers gather
    Children,   \* Children[t]: what consumer t gathers; {} for other tasks
    Caller,     \* calls of stop()
    NoError

Stream == "stream"    \* the error of the stream client's receive loop
Close  == "close"     \* the error of closing the stream client
Error  == Task \cup {Stream, Close}

ASSUME RuntimeAssumption ==
    /\ Children \in [Task -> SUBSET Comp]
    /\ \A s, t \in Task : s # t => Children[s] \cap Children[t] = {}
    /\ NoError \notin Error

VARIABLES
    state,          \* RuntimeState
    last_error,
    is_start,       \* the event components wait for
    stop_task,      \* "none", or how far the one teardown is
    teardowns,      \* history: how many teardowns were scheduled
    running_tasks,  \* the tasks the runtime holds
    dying,          \* the tasks the teardown took over and cancelled
    abandoned,      \* those of them the teardown gave up waiting for
    task,           \* per task, its progress
    cancelled,      \* tasks and component invocations with cancel() called
    comp,           \* the component invocations in progress
    infer,          \* an inference asked for from outside the graph
    graph,          \* the registered components
    stream,         \* the stream client: "open", "broken" or "closed"
    caller          \* per call of stop(), its progress

vars == <<state, last_error, is_start, stop_task, teardowns, running_tasks,
          dying, abandoned, task, cancelled, comp, infer, graph, stream, caller>>

lifeVars  == <<state, last_error, stop_task, teardowns>>
ownVars   == <<running_tasks, dying, abandoned>>
workVars  == <<task, cancelled, comp>>

Terminal == {"stopped", "failed"}

\* Progress of a task: not created; at work; awaiting a gather; ended, with its
\* done-callback still to run (raised or finished); ended and called back.
Alive(t) == task[t] \in {"running", "gathering"}

Init ==
    /\ state = "ready"
    /\ last_error = NoError
    /\ is_start = FALSE
    /\ stop_task = "none"
    /\ teardowns = 0
    /\ running_tasks = {}
    /\ dying = {}
    /\ abandoned = {}
    /\ task = [t \in Task |-> "new"]
    /\ cancelled = {}
    /\ comp = {}
    /\ infer = "idle"
    /\ graph = {}
    /\ stream = "open"
    /\ caller = [c \in Caller |-> "idle"]

-----------------------------------------------------------------------------
\* _start_teardown(): schedule the teardown.
StartTeardown ==
    /\ stop_task' = "scheduled"
    /\ teardowns' = teardowns + 1

\* The guard of stop() and _record_error() against a second teardown.
MayTearDown == stop_task = "none"

\* A failed twin has its error and its teardown already.
Settled_never == FALSE    \* mutant: the last failure wins
Settled == state = "failed"

\* _record_error(): the first failure decides; a stopped twin stays stopped and
\* keeps the error.
RecordError(e) ==
    IF Settled THEN UNCHANGED lifeVars
    ELSE /\ last_error' = e
         /\ IF state = "stopped" THEN UNCHANGED <<state, stop_task, teardowns>>
            ELSE /\ state' = "failed"
                 /\ IF MayTearDown THEN StartTeardown
                    ELSE UNCHANGED <<stop_task, teardowns>>

\* _to_asyncio_task() refuses new tasks once the twin is being torn down.
Accepting_stopped == state # "failed"    \* mutant: a stopped twin does not
Accepting == stop_task = "none" /\ state # "failed"

\* _to_asyncio_task()
Spawn(t) ==
    /\ task[t] = "new"
    /\ IF Accepting
       THEN /\ task' = [task EXCEPT ![t] = "running"]
            /\ running_tasks' = running_tasks \cup {t}
       ELSE UNCHANGED <<task, running_tasks>>

-----------------------------------------------------------------------------
\* start(): an error in a terminal state.
Start ==
    /\ state \notin Terminal
    /\ state' = "running"
    /\ is_start' = TRUE
    /\ UNCHANGED <<last_error, stop_task, teardowns, ownVars, workVars, infer,
                   graph, stream, caller>>

\* _check_mutable(), the guard of most changes of the graph.
Mutable == state \notin Terminal

\* add_task, add_input, add_investigator, add_agent, add_barrier: register a
\* component and run its task.
AddComponent(t) ==
    /\ Mutable
    /\ t \notin graph
    /\ graph' = graph \cup {t}
    /\ Spawn(t)
    /\ UNCHANGED <<lifeVars, is_start, dying, abandoned, cancelled, comp, infer,
                   stream, caller>>

\* add_data_join and add_data_split_task do not call _check_mutable.  A join
\* has a main loop to run, a split has not.
AddJoinOrSplit(t) ==
    /\ t \notin graph
    /\ graph' = graph \cup {t}
    /\ \/ Spawn(t)
       \/ UNCHANGED <<task, running_tasks>>
    /\ UNCHANGED <<lifeVars, is_start, dying, abandoned, cancelled, comp, infer,
                   stream, caller>>

\* Code of a component that runs asks for a task: a callback, a child
\* investigator, the consumer of the dtype it emits.
SpawnFromWork(t) ==
    /\ \/ \E s \in Task : task[s] = "running" \/ Children[s] \cap comp # {}
       \/ infer = "running"
    /\ Spawn(t)
    /\ UNCHANGED <<lifeVars, is_start, dying, abandoned, cancelled, comp, infer,
                   graph, stream, caller>>

-----------------------------------------------------------------------------
\* A task returns or raises.
TaskEnds(t) ==
    /\ task[t] = "running"
    /\ \E end \in {"finished", "raised"} : task' = [task EXCEPT ![t] = end]
    /\ UNCHANGED <<lifeVars, is_start, ownVars, cancelled, comp, infer, graph,
                   stream, caller>>

\* A cancelled task ends, if it does not ignore the cancellation; cleaning up
\* may raise.
TaskCancelled(t) ==
    /\ task[t] = "running"
    /\ t \in cancelled
    /\ \E end \in {"finished", "raised"} : task' = [task EXCEPT ![t] = end]
    /\ UNCHANGED <<lifeVars, is_start, ownVars, cancelled, comp, infer, graph,
                   stream, caller>>

\* _dtype_consumer: an item arrived, gather the components of the dtype.
Gather(t) ==
    /\ task[t] = "running"
    /\ t \notin cancelled
    /\ Children[t] # {}
    /\ task' = [task EXCEPT ![t] = "gathering"]
    /\ comp' = comp \cup Children[t]
    /\ UNCHANGED <<lifeVars, is_start, ownVars, cancelled, infer, graph, stream,
                   caller>>

\* A component invocation returns.  The last one ends the gather, which raises
\* CancelledError if it was cancelled.
CompReturns(c, t) ==
    /\ c \in comp \cap Children[t]
    /\ is_start
    /\ comp' = comp \ {c}
    /\ task' = IF task[t] = "gathering" /\ comp' \cap Children[t] = {}
               THEN [task EXCEPT ![t] = IF t \in cancelled THEN "finished" ELSE "running"]
               ELSE task
    /\ UNCHANGED <<lifeVars, is_start, ownVars, cancelled, infer, graph, stream,
                   caller>>

\* A component invocation raises: the gather raises at once, and the consumer
\* with it.  The invocations beside it run on.
CompRaises(c, t) ==
    /\ c \in comp \cap Children[t]
    /\ is_start \/ c \in cancelled
    /\ comp' = comp \ {c}
    /\ task' = IF task[t] = "gathering" THEN [task EXCEPT ![t] = "raised"] ELSE task
    /\ UNCHANGED <<lifeVars, is_start, ownVars, cancelled, infer, graph, stream,
                   caller>>

\* A cancelled component invocation ends: the gather ends cancelled at once.
CompCancelled(c, t) ==
    /\ c \in comp \cap Children[t] \cap cancelled
    /\ comp' = comp \ {c}
    /\ task' = IF task[t] = "gathering" THEN [task EXCEPT ![t] = "finished"] ELSE task
    /\ UNCHANGED <<lifeVars, is_start, ownVars, cancelled, infer, graph, stream,
                   caller>>

\* _task_done(), the done-callback of every task.
TaskDone(t) ==
    /\ task[t] \in {"finished", "raised"}
    /\ task' = [task EXCEPT ![t] = "gone"]
    /\ running_tasks' = running_tasks \ {t}
    /\ IF task[t] = "raised" THEN RecordError(t) ELSE UNCHANGED lifeVars
    /\ UNCHANGED <<is_start, dying, abandoned, cancelled, comp, infer, graph,
                   stream, caller>>

\* The receive loop of the stream client ends with an error: on_error.
StreamError ==
    /\ stream = "open"
    /\ stream' = "broken"
    /\ RecordError(Stream)
    /\ UNCHANGED <<is_start, ownVars, workVars, infer, graph, caller>>

-----------------------------------------------------------------------------
\* get_inference(): runs a component in the caller's task, in any state.
InferCall ==
    /\ infer = "idle"
    /\ infer' = "waiting"
    /\ UNCHANGED <<lifeVars, is_start, ownVars, workVars, graph, stream, caller>>

InferRun ==
    /\ infer = "waiting"
    /\ is_start
    /\ infer' = "running"
    /\ UNCHANGED <<lifeVars, is_start, ownVars, workVars, graph, stream, caller>>

\* It returns, raises to its caller, or the caller gives up.
InferEnd ==
    /\ infer # "idle"
    /\ infer' = "idle"
    /\ UNCHANGED <<lifeVars, is_start, ownVars, workVars, graph, stream, caller>>

-----------------------------------------------------------------------------
\* stop(), up to its await: the first one flips the state and schedules the
\* teardown.
StopCall(c) ==
    /\ caller[c] = "idle"
    /\ caller' = [caller EXCEPT ![c] = "joining"]
    /\ IF MayTearDown
       THEN state' = "stopped" /\ StartTeardown
       ELSE UNCHANGED <<state, stop_task, teardowns>>
    /\ UNCHANGED <<last_error, is_start, ownVars, workVars, infer, graph, stream>>

\* What every call of stop() waits for: the one teardown.
Joined_scheduled == stop_task # "none"    \* mutant: later callers do not join
Joined == stop_task = "done"

\* The shielded teardown is done: stop() returns.
StopReturn(c) ==
    /\ caller[c] = "joining"
    /\ Joined
    /\ caller' = [caller EXCEPT ![c] = "returned"]
    /\ UNCHANGED <<lifeVars, is_start, ownVars, workVars, infer, graph, stream>>

\* A caller of stop() is cancelled; the shield keeps the teardown going.
StopAborted(c) ==
    /\ caller[c] = "joining"
    /\ caller' = [caller EXCEPT ![c] = "aborted"]
    /\ UNCHANGED <<lifeVars, is_start, ownVars, workVars, infer, graph, stream>>

\* Cancelling a consumer that awaits a gather cancels what it gathers.
CancelAll_tasks(T) == cancelled \cup {t \in T : Alive(t)}    \* mutant: only the tasks
CancelAll(T) ==
    cancelled \cup {t \in T : Alive(t)}
              \cup UNION {Children[t] \cap comp : t \in {s \in T : task[s] = "gathering"}}

\* _teardown(), first part: take the tasks over and cancel them.
TeardownCancels ==
    /\ stop_task = "scheduled"
    /\ dying' = running_tasks
    /\ running_tasks' = {}
    /\ cancelled' = CancelAll(running_tasks)
    /\ stop_task' = IF running_tasks = {} THEN "closing" ELSE "waiting"
    /\ UNCHANGED <<state, last_error, teardowns, is_start, abandoned, task, comp,
                   infer, graph, stream, caller>>

\* _teardown(), second part: wait for the tasks, at most timeout.  The wait is
\* over after their done-callbacks, which were added first.
TeardownWaited ==
    /\ stop_task = "waiting"
    /\ \A t \in dying : task[t] = "gone"
    /\ stop_task' = "closing"
    /\ UNCHANGED <<state, last_error, teardowns, is_start, ownVars, workVars,
                   infer, graph, stream, caller>>

Pending_forever == {}    \* mutant: no timeout
Pending == {t \in dying : Alive(t)}

TeardownGivesUp ==
    /\ stop_task = "waiting"
    /\ Pending # {}
    /\ abandoned' = Pending
    /\ stop_task' = "closing"
    /\ UNCHANGED <<state, last_error, teardowns, is_start, running_tasks, dying,
                   workVars, infer, graph, stream, caller>>

\* _teardown(), last part: close the stream client, which may raise or take
\* longer than timeout.
TeardownCloses ==
    /\ stop_task = "closing"
    /\ stop_task' = "done"
    /\ \/ stream' = "closed" /\ UNCHANGED last_error
       \/ UNCHANGED <<stream, last_error>>
       \/ /\ UNCHANGED stream
          /\ last_error' = IF state = "stopped" THEN Close ELSE last_error
    /\ UNCHANGED <<state, teardowns, is_start, ownVars, workVars, infer, graph,
                   caller>>

-----------------------------------------------------------------------------
Work(t) ==
    \/ TaskEnds(t) \/ TaskCancelled(t) \/ Gather(t)
    \/ \E c \in Comp : CompReturns(c, t) \/ CompRaises(c, t) \/ CompCancelled(c, t)

Next ==
    \/ Start
    \/ \E t \in Task : \/ AddComponent(t) \/ AddJoinOrSplit(t) \/ SpawnFromWork(t)
                       \/ Work(t)
                       \/ TaskDone(t)
    \/ StreamError
    \/ InferCall \/ InferRun \/ InferEnd
    \/ \E c \in Caller : StopCall(c) \/ StopReturn(c) \/ StopAborted(c)
    \/ TeardownCancels
    \/ TeardownWaited
    \/ TeardownGivesUp
    \/ TeardownCloses

Spec == Init /\ [][Next]_vars

\* The event loop runs what is ready: done-callbacks, the teardown and whoever
\* joined it.  Both of the teardown's waits are bounded by its timeout.  That a
\* task ends, or minds being cancelled, is not assumed.
Fairness ==
    /\ \A t \in Task : WF_vars(TaskDone(t))
    /\ WF_vars(TeardownCancels)
    /\ WF_vars(TeardownWaited)
    /\ WF_vars(TeardownGivesUp)
    /\ WF_vars(TeardownCloses)
    /\ \A c \in Caller : WF_vars(StopReturn(c))

FairSpec == Spec /\ Fairness

-----------------------------------------------------------------------------
\* Types of the state.
TypeOK ==
    /\ state \in {"ready", "running", "stopped", "failed"}
    /\ last_error \in Error \cup {NoError}
    /\ is_start \in BOOLEAN
    /\ stop_task \in {"none", "scheduled", "waiting", "closing", "done"}
    /\ teardowns \in 0..1
    /\ running_tasks \subseteq Task
    /\ dying \subseteq Task
    /\ abandoned \subseteq Task
    /\ task \in [Task -> {"new", "running", "gathering", "finished", "raised", "gone"}]
    /\ cancelled \subseteq Task \cup Comp
    /\ comp \subseteq Comp
    /\ infer \in {"idle", "waiting", "running"}
    /\ graph \subseteq Task
    /\ stream \in {"open", "broken", "closed"}
    /\ caller \in [Caller -> {"idle", "joining", "returned", "aborted"}]

\* One teardown (stop, _record_error): it is scheduled when, and only when, the
\* twin stops or fails, and never a second time.
OneTeardown ==
    /\ teardowns = (IF stop_task = "none" THEN 0 ELSE 1)
    /\ state \in Terminal <=> stop_task # "none"

\* No task escapes (_to_asyncio_task, _teardown, _task_done): a task that is at
\* work is held by the runtime or was cancelled by the teardown, even if it was
\* asked for while the twin was coming down.
NoTaskEscapes ==
    \A t \in Task : Alive(t) =>
        \/ t \in running_tasks /\ stop_task \in {"none", "scheduled"}
        \/ t \in dying \cap cancelled

\* The teardown is over.
Down == stop_task = "done"

\* Down means down (_teardown): once the teardown is over, the runtime holds no
\* task, and only tasks that ignored being cancelled for all of the timeout are
\* at work.
DownMeansDown ==
    Down => /\ running_tasks = {}
            /\ \A t \in Task : Alive(t) => t \in abandoned

\* Cancelling reaches the components (_teardown, _dtype_consumer): when the
\* teardown has cancelled the tasks, all that live consumers gather is
\* cancelled, too.
CancelReachesComponents ==
    stop_task \in {"waiting", "closing", "done"} =>
        \A t \in Task : task[t] = "gathering" => Children[t] \cap comp \subseteq cancelled

\* stop() joins (stop): there is one teardown at most (TypeOK), and a call of stop()
\* that returned, the first one or not, leaves a twin behind that holds no task,
\* and none at work that it did not give up.
StopJoins ==
    /\ TypeOK
    /\ \A c \in Caller : caller[c] = "returned" =>
         running_tasks = {} /\ \A t \in Task : Alive(t) => t \in abandoned

\* The first failure owns the report (_record_error): a failed twin stays failed
\* with the error that made it fail, whatever fails while it comes down, and
\* whoever stops it.
FirstFailureWins ==
    [][state = "failed" => UNCHANGED <<state, last_error>>]_vars

\* stop() always returns (stop, _teardown): bounded, even if tasks ignore their
\* cancellation.
StopReturns ==
    \A c \in Caller : caller[c] = "joining" ~> caller[c] # "joining"

\* The runtime implements the life of a twin that TwinLifecycle describes.
L == INSTANCE TwinLifecycle WITH down <- Down

ImplementsLifecycle == L!FairSpec

-----------------------------------------------------------------------------
\* What a docstring says of the class.

\* "Cancels every task the runtime owns (component main loops, callbacks, dtype
\* consumers, barrier loops)" (stop): once it is over, every component that
\* still runs was at least asked to end.
EverythingCancelled ==
    Down => comp \subseteq cancelled
=============================================================================
