------------------------------ MODULE Session ------------------------------
(***************************************************************************)
(* The service side of twins: the sessions of session.py, the twins they   *)
(* register, the execution engine that the twins of a session share, and   *)
(* the plugin's check that a twin id is used by one session only.          *)
(*                                                                         *)
(* A twin id names a twin only while it is registered; Twin is the set of  *)
(* TwinInstance objects, each created once.  The runtime of an instance is *)
(* abstracted to what TwinLifecycle says of it: it is up, coming down, or  *)
(* down.  Its stream client lives exactly as long as the runtime.          *)
(*                                                                         *)
(* Requests and background tasks share one event loop; a step is what runs *)
(* between two awaits.                                                     *)
(***************************************************************************)
EXTENDS Naturals, FiniteSets

CONSTANTS
    Sid,        \* the sessions, registered before the first request
    TwinId,     \* the ids clients choose
    MaxTwins    \* bound: twins created altogether

ASSUME SessionAssumption == MaxTwins \in Nat /\ Sid # {} /\ TwinId # {}

Twin == 1..MaxTwins
NoTwin == 0

VARIABLES
    active,     \* per session: does it accept calls
    twins,      \* per session and id, the twin registered there
    engine,     \* per session, its engine and the task that builds it
    sclose,     \* per session, where its close() is
    todo,       \* per session, the twins its close() has still to close
    created,    \* the number of twins so far
    home,       \* per twin, its session
    name,       \* per twin, its id
    init,       \* per twin, where its _init_task is
    doomed,     \* the twins whose _init_task was cancelled
    status,     \* per twin, the state it reports if it has no runtime
    runtime,    \* per twin, its runtime
    infer,      \* per twin, its in-flight get_inference
    closing,    \* per twin, where its close() is
    closer      \* per twin, who closes it

sessVars == <<active, twins, engine, sclose, todo>>
instVars == <<created, home, name>>
initVars == <<init, doomed, status>>
vars == <<sessVars, instVars, initVars, runtime, infer, closing, closer>>

Init ==
    /\ active = [s \in Sid |-> TRUE]
    /\ twins = [s \in Sid |-> [i \in TwinId |-> NoTwin]]
    /\ engine = [s \in Sid |-> "none"]
    /\ sclose = [s \in Sid |-> "open"]
    /\ todo = [s \in Sid |-> {}]
    /\ created = 0
    /\ home = [t \in Twin |-> CHOOSE s \in Sid : TRUE]
    /\ name = [t \in Twin |-> CHOOSE i \in TwinId : TRUE]
    /\ init = [t \in Twin |-> "none"]
    /\ doomed = {}
    /\ status = [t \in Twin |-> "none"]
    /\ runtime = [t \in Twin |-> "none"]
    /\ infer = [t \in Twin |-> "none"]
    /\ closing = [t \in Twin |-> "no"]
    /\ closer = [t \in Twin |-> "none"]

Registered(t) == t <= created /\ twins[home[t]][name[t]] = t

-----------------------------------------------------------------------------
\* The plugin's check of a new id, made in one step with its registration.
Unowned_elsewhere(s, i) == \A r \in Sid \ {s} : twins[r][i] = NoTwin   \* mutant: its own twins
Unowned(s, i) == \A r \in Sid : twins[r][i] = NoTwin

\* twin_create() of an id no other session uses: a new twin, whose
\* initialization runs in the background.  If the id is registered here, the
\* call changes nothing.
TwinCreate(s, i) ==
    LET t == created + 1 IN
    /\ active[s]
    /\ Unowned(s, i)
    /\ created < MaxTwins
    /\ created' = t
    /\ home' = [home EXCEPT ![t] = s]
    /\ name' = [name EXCEPT ![t] = i]
    /\ twins' = [twins EXCEPT ![s][i] = t]
    /\ init' = [init EXCEPT ![t] = "new"]
    /\ status' = [status EXCEPT ![t] = "initializing"]
    /\ UNCHANGED <<active, engine, sclose, todo, doomed, runtime, infer, closing,
                   closer>>

\* _init_twin() starts and asks for the engine: it takes the one there is, or
\* waits for the build, which it starts if there is none.
InitBegins(t) ==
    /\ init[t] = "new"
    /\ t \notin doomed
    /\ init' = [init EXCEPT ![t] = IF engine[home[t]] = "up" THEN "stream" ELSE "engine"]
    /\ engine' = [engine EXCEPT ![home[t]] = IF @ \in {"none", "down"} THEN "building" ELSE @]
    /\ UNCHANGED <<active, twins, sclose, todo, instVars, doomed, status, runtime,
                   infer, closing, closer>>

\* The engine is there: go on to the stream.
InitGotEngine(t) ==
    /\ init[t] = "engine"
    /\ t \notin doomed
    /\ engine[home[t]] = "up"
    /\ init' = [init EXCEPT ![t] = "stream"]
    /\ UNCHANGED <<sessVars, instVars, doomed, status, runtime, infer, closing,
                   closer>>

\* The stream client is connected: from here on there is a runtime.
InitReady(t) ==
    /\ init[t] = "stream"
    /\ t \notin doomed
    /\ init' = [init EXCEPT ![t] = "done"]
    /\ runtime' = [runtime EXCEPT ![t] = "up"]
    /\ UNCHANGED <<sessVars, instVars, doomed, status, infer, closing, closer>>

InitFailed(t) ==
    /\ init' = [init EXCEPT ![t] = "done"]
    /\ status' = [status EXCEPT ![t] = "failed"]
    /\ UNCHANGED <<sessVars, instVars, doomed, runtime, infer, closing, closer>>

\* The build raised, or the stream did.
InitRaises(t) ==
    /\ init[t] \in {"raising", "stream"}
    /\ t \notin doomed
    /\ InitFailed(t)

\* The time limit of the whole initialization.
InitTimesOut_stream(t) == init[t] = "stream" /\ InitFailed(t)    \* mutant: of its end
InitTimesOut(t) ==
    /\ init[t] \in {"engine", "raising", "stream"}
    /\ InitFailed(t)

\* The cancelled task ends.  If it had not begun, it reports nothing.
InitCancelled(t) ==
    /\ t \in doomed
    /\ \/ init[t] \in {"engine", "raising", "stream"} /\ InitFailed(t)
       \/ /\ init[t] = "new"
          /\ init' = [init EXCEPT ![t] = "done"]
          /\ UNCHANGED <<sessVars, instVars, doomed, status, runtime, infer,
                         closing, closer>>

-----------------------------------------------------------------------------
\* Those waiting for the build of s resume with its exception.
Raised(s) ==
    [t \in Twin |-> IF t <= created /\ home[t] = s /\ init[t] = "engine"
                    THEN "raising" ELSE init[t]]

EngineFails(s) ==
    /\ engine[s] = "building"
    /\ engine' = [engine EXCEPT ![s] = "none"]
    /\ init' = Raised(s)
    /\ UNCHANGED <<active, twins, sclose, todo, instVars, doomed, status, runtime,
                   infer, closing, closer>>

\* _build_engine() got its engine: it hands it over, unless the session closed.
Wanted_always(s) == TRUE    \* mutant: does not look at the session again
Wanted(s) == active[s]

EngineBuilt(s) ==
    /\ engine[s] = "building"
    /\ engine' = [engine EXCEPT ![s] = IF Wanted(s) THEN "up" ELSE "disposing"]
    /\ UNCHANGED <<active, twins, sclose, todo, instVars, initVars, runtime, infer,
                   closing, closer>>

\* An unwanted engine is shut down again, and the build raises.
EngineDisposed(s) ==
    /\ engine[s] = "disposing"
    /\ engine' = [engine EXCEPT ![s] = "none"]
    /\ init' = Raised(s)
    /\ UNCHANGED <<active, twins, sclose, todo, instVars, doomed, status, runtime,
                   infer, closing, closer>>

-----------------------------------------------------------------------------
\* A verb stop(), or a failure of the twin: the runtime comes down by itself.
RuntimeStops(t) ==
    /\ runtime[t] = "up"
    /\ runtime' = [runtime EXCEPT ![t] = "stopping"]
    /\ UNCHANGED <<sessVars, instVars, initVars, infer, closing, closer>>

\* The bounded end of its teardown.
RuntimeDown(t) ==
    /\ runtime[t] = "stopping"
    /\ runtime' = [runtime EXCEPT ![t] = "down"]
    /\ UNCHANGED <<sessVars, instVars, initVars, infer, closing, closer>>

\* A call finds the twin: _check_active(), _live_twin().
Callable_stale(t) == runtime[t] # "none"    \* mutant: found before an await
Callable(t) ==
    /\ active[home[t]]
    /\ Registered(t)
    /\ runtime[t] # "none"

\* The verb get_inference: a tracked task that runs in the twin.
InferBegins(t) ==
    /\ Callable(t)
    /\ infer[t] = "none"
    /\ infer' = [infer EXCEPT ![t] = "running"]
    /\ UNCHANGED <<sessVars, instVars, initVars, runtime, closing, closer>>

\* It is answered, fails, times out, or ends as cancelled.
InferEnds(t) ==
    /\ infer[t] # "none"
    /\ infer' = [infer EXCEPT ![t] = "none"]
    /\ UNCHANGED <<sessVars, instVars, initVars, runtime, closing, closer>>

-----------------------------------------------------------------------------
\* TwinInstance.close(), up to its first await: cancel the initialization and
\* the tracked inferences.
Cancelled_inflight(t) == doomed    \* mutant: of these, only the inferences
Cancelled(t) == IF init[t] # "done" THEN doomed \cup {t} ELSE doomed

BeginClose(t, who) ==
    /\ doomed' = Cancelled(t)
    /\ infer' = [infer EXCEPT ![t] = IF @ = "running" THEN "cancelled" ELSE @]
    /\ closing' = [closing EXCEPT ![t] = "waiting"]
    /\ closer' = [closer EXCEPT ![t] = who]

\* The wait for the cancelled tasks is over: they ended, or the timeout passed.
\* Only now does close() look at the runtime; it stops the one it finds.
Settled(t) == init[t] = "done" /\ infer[t] = "none"

CloseProceeds(t) ==
    /\ closing[t] = "waiting"
    /\ closing' = [closing EXCEPT ![t] = "stopping"]
    /\ runtime' = [runtime EXCEPT ![t] = IF @ = "up" THEN "stopping" ELSE @]
    /\ UNCHANGED <<sessVars, instVars, initVars, infer, closer>>

CloseWaited(t) == Settled(t) /\ CloseProceeds(t)

GivesUp_never(t) == FALSE    \* mutant: no timeout
GivesUp(t) == ~Settled(t)
CloseGivesUp(t) == GivesUp(t) /\ CloseProceeds(t)

\* stop() returned: drop what is left of the twin.
CloseEnds(t) ==
    /\ closing[t] = "stopping"
    /\ runtime[t] \in {"none", "down"}
    /\ closing' = [closing EXCEPT ![t] = "done"]
    /\ status' = [status EXCEPT ![t] = "closed"]
    /\ UNCHANGED <<sessVars, instVars, init, doomed, runtime, infer, closer>>

\* twin_close(): forget the twin, then close it.  A call for an id that is not
\* registered changes nothing.
TwinClose(s, i) ==
    /\ active[s]
    /\ twins[s][i] # NoTwin
    /\ twins' = [twins EXCEPT ![s][i] = NoTwin]
    /\ BeginClose(twins[s][i], "request")
    /\ UNCHANGED <<active, engine, sclose, todo, instVars, init, status, runtime>>

-----------------------------------------------------------------------------
\* DTSession.close(): no more calls; the twins registered now are to be closed.
SessionClose(s) ==
    /\ active[s]
    /\ active' = [active EXCEPT ![s] = FALSE]
    /\ todo' = [todo EXCEPT ![s] = {t \in Twin : Registered(t) /\ home[t] = s}]
    /\ sclose' = [sclose EXCEPT ![s] = "twins"]
    /\ UNCHANGED <<twins, engine, instVars, initVars, runtime, infer, closing,
                   closer>>

\* One twin after the other.
SessionClosesTwin(s, t) ==
    /\ sclose[s] = "twins"
    /\ \A u \in Twin : home[u] = s /\ closer[u] = "session" => closing[u] = "done"
    /\ t \in todo[s]
    /\ todo' = [todo EXCEPT ![s] = @ \ {t}]
    /\ BeginClose(t, "session")
    /\ UNCHANGED <<active, twins, engine, sclose, instVars, init, status, runtime>>

\* All of them closed: forget them, and give a build in progress a moment.
TwinsClosed_begun(s) == todo[s] = {}    \* mutant: close() of the twins not awaited
TwinsClosed(s) ==
    /\ todo[s] = {}
    /\ \A u \in Twin : home[u] = s /\ closer[u] = "session" => closing[u] = "done"

SessionDrains(s) ==
    /\ sclose[s] = "twins"
    /\ TwinsClosed(s)
    /\ twins' = [twins EXCEPT ![s] = [i \in TwinId |-> NoTwin]]
    /\ sclose' = [sclose EXCEPT ![s] = "draining"]
    /\ UNCHANGED <<active, engine, todo, instVars, initVars, runtime, infer, closing,
                   closer>>

\* The build is done, or the moment over: shut the engine down.
SessionShutsEngine(s) ==
    /\ sclose[s] = "draining"
    /\ sclose' = [sclose EXCEPT ![s] = "closed"]
    /\ engine' = [engine EXCEPT ![s] = IF @ = "up" THEN "down" ELSE @]
    /\ UNCHANGED <<active, twins, todo, instVars, initVars, runtime, infer, closing,
                   closer>>

-----------------------------------------------------------------------------
InitStep(t) ==
    \/ InitBegins(t) \/ InitGotEngine(t) \/ InitReady(t)
    \/ InitRaises(t) \/ InitTimesOut(t) \/ InitCancelled(t)

CloseStep(t) ==
    \/ CloseWaited(t) \/ CloseGivesUp(t) \/ CloseEnds(t)

SessionStep(s) ==
    \/ \E t \in Twin : SessionClosesTwin(s, t)
    \/ SessionDrains(s)
    \/ SessionShutsEngine(s)

Next ==
    \/ \E s \in Sid, i \in TwinId : TwinCreate(s, i) \/ TwinClose(s, i)
    \/ \E t \in Twin : \/ InitStep(t) \/ CloseStep(t)
                       \/ RuntimeStops(t) \/ RuntimeDown(t)
                       \/ InferBegins(t) \/ InferEnds(t)
    \/ \E s \in Sid : \/ EngineFails(s) \/ EngineBuilt(s) \/ EngineDisposed(s)
                      \/ SessionClose(s) \/ SessionStep(s)

Spec == Init /\ [][Next]_vars

\* The event loop runs what is ready; the waits of _init_twin, of close() and of
\* a runtime's teardown have timeouts.  Neither an engine that is being built
\* nor an inference is assumed to come to an end.
Fairness ==
    /\ \A t \in Twin : /\ WF_vars(InitBegins(t)) /\ WF_vars(InitTimesOut(t))
                       /\ WF_vars(InitCancelled(t))
                       /\ WF_vars(CloseStep(t)) /\ WF_vars(RuntimeDown(t))
    /\ \A s \in Sid : WF_vars(SessionStep(s)) /\ WF_vars(EngineDisposed(s))

FairSpec == Spec /\ Fairness

-----------------------------------------------------------------------------
\* Types of the state; an id is registered in one session at most.
TypeOK ==
    /\ active \in [Sid -> BOOLEAN]
    /\ twins \in [Sid -> [TwinId -> Twin \cup {NoTwin}]]
    /\ \A r, s \in Sid, i \in TwinId : NoTwin \notin {twins[r][i], twins[s][i]} => r = s
    /\ engine \in [Sid -> {"none", "building", "disposing", "up", "down"}]
    /\ sclose \in [Sid -> {"open", "twins", "draining", "closed"}]
    /\ todo \in [Sid -> SUBSET Twin]
    /\ created \in 0..MaxTwins
    /\ home \in [Twin -> Sid]
    /\ name \in [Twin -> TwinId]
    /\ init \in [Twin -> {"none", "new", "engine", "raising", "stream", "done"}]
    /\ doomed \subseteq Twin
    /\ status \in [Twin -> {"none", "initializing", "failed", "closed"}]
    /\ runtime \in [Twin -> {"none", "up", "stopping", "down"}]
    /\ infer \in [Twin -> {"none", "running", "cancelled"}]
    /\ closing \in [Twin -> {"no", "waiting", "stopping", "done"}]
    /\ closer \in [Twin -> {"none", "request", "session"}]

\* A twin that holds, or may still get, resources.
Alive(t) ==
    \/ runtime[t] \in {"up", "stopping"}
    \/ init[t] \in {"new", "engine", "raising", "stream"} /\ t \notin doomed

\* No twin is lost (twin_close, close, _init_twin): one that is alive can be
\* reached by a call, or is coming down; above all, no initialization that was
\* under way when its twin was closed brings up a runtime nobody knows.
NoTwinLost ==
    /\ TypeOK
    /\ \A t \in Twin : Alive(t) => Registered(t) \/ closing[t] \in {"waiting", "stopping"}

\* No engine is stranded (engine, _build_engine, DTSession.close): when a
\* session has closed, it has no engine, whenever the build lands.
NoStrandedEngine ==
    \A s \in Sid : sclose[s] = "closed" => engine[s] # "up"

\* Twins first (DTSession.close): when the session shuts its engine down, the
\* twins that were registered when it closed are down.
TwinsBeforeEngine ==
    \A t \in Twin :
        t <= created /\ engine[home[t]] = "down" /\ Alive(t) => closer[t] = "request"

\* No inference outlives its twin unasked (track, close): one that runs in a twin
\* that is being closed was cancelled, and none begins there.
InferenceCancelled ==
    \A t \in Twin : closing[t] # "no" => infer[t] # "running"

\* A twin never stays in initializing (_init_twin), whatever its engine does.
InitEnds ==
    \A t \in Twin : init[t] = "new" ~> init[t] = "done"

\* Closing is bounded (TwinInstance.close, DTSession.close): it ends whatever the
\* inferences, the initializations and the builds in progress do.
CloseReturns ==
    /\ \A t \in Twin : closing[t] = "waiting" ~> closing[t] = "done"
    /\ \A s \in Sid : ~active[s] ~> sclose[s] = "closed"

\* The sessions together keep the registry that TwinRegistry describes: an id
\* is free for a new twin only when no session has it, and a twin disappears from
\* its session only by a close() of its own (twin_create, twin_close, close).
R == INSTANCE TwinRegistry WITH
         Id <- TwinId,
         known <- 1..created,
         registered <- {t \in Twin : Registered(t)},
         closing <- {t \in Twin : closing[t] # "no"}

ImplementsRegistry == R!Spec
=============================================================================
