------------------------------ MODULE Requests ------------------------------
(***************************************************************************)
(* Clients of the digital twin service, its routes and the session verbs:  *)
(* client.py, plugin.py and session.py, with the version check of wire.py, *)
(* for one twin id that the clients of all sessions use.                   *)
(*                                                                         *)
(* A client makes one request at a time.  A request or its answer may be   *)
(* lost, and a client may give up on a request that is still under way and *)
(* repeat it, so that requests of one client overtake each other and come  *)
(* late.  A route runs in one step up to its first suspension: those of    *)
(* twin_create() and twin_list() have none, twin_close(), the verbs stop   *)
(* and get_inference and unregister_session stay with their handler.       *)
(*                                                                         *)
(* A twin is what a client can tell of it; its initialization and teardown *)
(* are steps here and are detailed in Session and Runtime.                 *)
(***************************************************************************)
EXTENDS Integers, FiniteSets

CONSTANTS
    Client,     \* applications, each with one request at a time
    Sid,        \* the ids of the sessions they use
    Calls,      \* bound: the methods that are called, <<op, sid>>
    Timeouts,   \* what clients give as the timeout of an inference
    MaxLate,    \* bound: requests of a client under way that it gave up
    MaxTwins    \* bound: twins created

\* A timeout is a positive number, infinity, or None and what else is no such number.
AnyTimeout == {"given", "inf", "none"}

ASSUME RequestsAssumption ==
    MaxLate \in Nat /\ MaxTwins \in Nat /\ Sid # {} /\ Timeouts \subseteq AnyTimeout

\* "add" stands for the verbs that add to the graph; describe changes nothing.
Verbs == {"add", "start", "stop", "get_inference"}
Ops   == Verbs \cup {"register_session", "unregister_session", "twin_create",
                     "twin_list", "twin_close"}

Twin   == 1..MaxTwins
NoTwin == 0

READY_STATES == {"ready", "running", "stopped"}
States  == READY_STATES \cup {"initializing", "failed", "broken", "closed"}
Others  == {"404", "409", "410", "504", "open", "lost"}

\* Request 0 of a client is the one it waits for, the others it gave up.
Slot   == Client \X (0..MaxLate)
NoSid  == "none"
Free   == [at |-> "free", op |-> "twin_list", sid |-> NoSid, timeout |-> "none",
           twin |-> NoTwin, answer |-> "lost"]

VARIABLES
    sessions,  \* the sids of the plugin's open sessions
    twins,     \* per sid, the twin registered under the id
    created,   \* the number of twins created
    home,      \* per twin, the sid it was created for
    state,     \* per twin: "broken" is a runtime that failed, shown as failed
    down,      \* the twins whose runtime is torn down but not dropped
    closing,   \* the twins that close() works on
    request,   \* the requests under way
    pc,        \* per client: "idle", "asking", or "pausing" in wait_ready()
    creating,  \* per client, the sid for which it is in create_twin()
    told       \* history: per client, the twin create_twin() returned as ready

regVars    == <<sessions, twins, created, home>>
instVars   == <<state, down, closing>>
clientVars == <<pc, creating, told>>
vars       == <<regVars, instVars, request, clientVars>>

Init ==
    /\ sessions = {}
    /\ twins = [s \in Sid |-> NoTwin]
    /\ created = 0
    /\ home = [t \in Twin |-> CHOOSE s \in Sid : TRUE]
    /\ state = [t \in Twin |-> "initializing"]
    /\ down = {}
    /\ closing = {}
    /\ request = [r \in Slot |-> Free]
    /\ pc = [c \in Client |-> "idle"]
    /\ creating = [c \in Client |-> NoSid]
    /\ told = [c \in Client |-> NoTwin]

Exists(t) == t \in 1..created
Shown(t)  == IF state[t] = "broken" THEN "failed" ELSE state[t]

-----------------------------------------------------------------------------
(* The client.                                                             *)

\* _post, _request: the payload was found to fit into a frame.
Send(c, op, s, timeout) ==
    /\ request' = [request EXCEPT ![<<c, 0>>] =
          [Free EXCEPT !.at = "wire", !.op = op, !.sid = s, !.timeout = timeout]]
    /\ pc' = [pc EXCEPT ![c] = "asking"]

\* A method of the client is called.
Call(c, op, s) ==
    /\ pc[c] = "idle" /\ <<op, s>> \in Calls
    /\ \E timeout \in IF op = "get_inference" THEN Timeouts ELSE {"none"} :
          Send(c, op, s, timeout)
    /\ creating' = IF op = "twin_create" THEN [creating EXCEPT ![c] = s] ELSE creating
    /\ UNCHANGED <<regVars, instVars, told>>

\* wait_ready asks again.
Poll(c) ==
    /\ pc[c] = "pausing"
    /\ Send(c, "twin_list", creating[c], "none")
    /\ UNCHANGED <<regVars, instVars, creating, told>>

Return(c) ==
    /\ pc' = [pc EXCEPT ![c] = "idle"]
    /\ creating' = [creating EXCEPT ![c] = NoSid]

\* create_twin, wait_ready: the state of the answer decides, until the deadline.
Proceed_registered(c, t, answer) ==    \* mutant: does not wait for the initialization
    /\ Return(c)
    /\ told' = IF creating[c] # NoSid /\ answer \in READY_STATES \cup {"initializing"}
               THEN [told EXCEPT ![c] = t] ELSE told

Proceed(c, t, answer) ==
    IF creating[c] # NoSid /\ answer = "initializing"
      THEN \/ pc' = [pc EXCEPT ![c] = "pausing"] /\ UNCHANGED <<creating, told>>
           \/ Return(c) /\ UNCHANGED told
      ELSE /\ Return(c)
           /\ told' = IF creating[c] # NoSid /\ answer \in READY_STATES
                      THEN [told EXCEPT ![c] = t] ELSE told

Learn(c) ==
    LET r == <<c, 0>> IN
    /\ pc[c] = "asking"
    /\ request[r].at = "answered"
    /\ Proceed(c, request[r].twin, request[r].answer)
    /\ request' = [request EXCEPT ![r] = Free]
    /\ UNCHANGED <<regVars, instVars>>

\* The transport reports an error; what it was about may still be under way.
GiveUp(c) ==
    LET r == request[<<c, 0>>] IN
    /\ pc[c] = "asking"
    /\ Return(c)
    /\ \/ /\ r.at \in {"answered", "lost"}
          /\ request' = [request EXCEPT ![<<c, 0>>] = Free]
       \/ /\ r.at \in {"wire", "handler", "cancelled"}
          /\ \E n \in 1..MaxLate :
                /\ request[<<c, n>>].at = "free"
                /\ request' = [request EXCEPT ![<<c, n>>] = r, ![<<c, 0>>] = Free]
    /\ UNCHANGED <<regVars, instVars, told>>

Awaited(r) == r[2] = 0

\* A request is lost; nobody learns that at once.
Lose(r) ==
    /\ request[r].at = "wire"
    /\ request' = [request EXCEPT ![r] = IF Awaited(r) THEN [@ EXCEPT !.at = "lost"] ELSE Free]
    /\ UNCHANGED <<regVars, instVars, clientVars>>

-----------------------------------------------------------------------------
(* The routes: what a request does when it is handled.                     *)

\* The answer goes out; nobody reads that of a request its client gave up, and
\* what it says is kept only for create_twin(), which goes by it.
Answer(r, t, what) ==
    request' = [request EXCEPT ![r] =
        IF ~Awaited(r) THEN Free
        ELSE IF creating[r[1]] # NoSid
          THEN [Free EXCEPT !.at = "answered", !.twin = t, !.answer = what]
          ELSE [Free EXCEPT !.at = "answered"]]

Hold(r, t) == request' = [request EXCEPT ![r].at = "handler", ![r].twin = t]

Arrives(r, op) == request[r].at = "wire" /\ request[r].op = op
SessOf(r) == request[r].sid

Held(r, op) == request[r].at = "handler" /\ request[r].op = op

\* register_session: reattaches any holder of the sid, also to a session that is
\* being closed, or opens a session.
RegisterSession(r) ==
    /\ Arrives(r, "register_session")
    /\ sessions' = IF \E q \in Slot : Held(q, "unregister_session") /\ SessOf(q) = SessOf(r)
                   THEN sessions ELSE sessions \cup {SessOf(r)}
    /\ Answer(r, NoTwin, "open")
    /\ UNCHANGED <<twins, created, home, instVars, clientVars>>

\* _forward and _check_active: no session answers any more.
Gone(r) ==
    /\ request[r].at = "wire"
    /\ request[r].op # "register_session"
    /\ SessOf(r) \notin sessions
    /\ Answer(r, NoTwin, "410")
    /\ UNCHANGED <<regVars, instVars, clientVars>>

Forwarded(r, op) == Arrives(r, op) /\ SessOf(r) \in sessions

\* _twin_owner
Owner_open(s) ==    \* mutant: a session that is being closed is not looked at
    \A o \in sessions \ {s} : twins[o] = NoTwin
Owner(s) == \A o \in Sid \ {s} : twins[o] = NoTwin

\* twin_create of the plugin and of the session.
TwinCreate(r) ==
    LET s == SessOf(r) IN
    /\ Forwarded(r, "twin_create")
    /\ IF ~Owner(s) THEN Answer(r, NoTwin, "409") /\ UNCHANGED <<regVars, instVars>>
       ELSE IF twins[s] # NoTwin
         THEN Answer(r, twins[s], Shown(twins[s])) /\ UNCHANGED <<regVars, instVars>>
         ELSE /\ created < MaxTwins
              /\ created' = created + 1
              /\ twins' = [twins EXCEPT ![s] = created']
              /\ home' = [home EXCEPT ![created'] = s]
              /\ Answer(r, created', "initializing")
              /\ UNCHANGED <<sessions, instVars>>
    /\ UNCHANGED clientVars

\* twin_list; for wait_ready() a twin that is not in it is an error.
TwinList(r) ==
    LET t == twins[SessOf(r)] IN
    /\ Forwarded(r, "twin_list")
    /\ Answer(r, t, IF t = NoTwin THEN "404" ELSE Shown(t))
    /\ UNCHANGED <<regVars, instVars, clientVars>>

\* The twin of the id, if any, is to be closed.
BeginClose(r) ==
    LET t == twins[SessOf(r)] IN
    /\ IF t = NoTwin THEN Answer(r, t, "closed") /\ UNCHANGED closing
       ELSE Hold(r, t) /\ closing' = closing \cup {t}
    /\ UNCHANGED <<created, home, state, down, clientVars>>

\* twin_close: the id is free before the twin is down.
TwinClose(r) ==
    /\ Forwarded(r, "twin_close")
    /\ BeginClose(r)
    /\ twins' = [twins EXCEPT ![SessOf(r)] = NoTwin]
    /\ UNCHANGED sessions

\* DTSession.close: the id is free when the twin is down.
UnregisterSession(r) ==
    /\ Forwarded(r, "unregister_session")
    /\ BeginClose(r)
    /\ sessions' = sessions \ {SessOf(r)}
    /\ UNCHANGED twins

\* twin_call: what is refused at once.
HasRuntime(t) == state[t] \in READY_STATES \cup {"broken"}

Refusal(r, t) ==
    IF t = NoTwin THEN "404"
    ELSE IF ~HasRuntime(t) THEN "409"
    ELSE IF request[r].op \in {"add", "start"} /\ state[t] \notin {"ready", "running"} THEN "409"
    ELSE "none"

TwinCall(r) ==
    LET t == twins[SessOf(r)] IN
    /\ \E v \in Verbs : Forwarded(r, v)
    /\ IF Refusal(r, t) # "none" THEN Answer(r, t, Refusal(r, t)) /\ UNCHANGED state
       ELSE IF request[r].op \in {"stop", "get_inference"}
         THEN /\ Hold(r, t)
              /\ state' = IF request[r].op = "stop" /\ state[t] # "broken"
                          THEN [state EXCEPT ![t] = "stopped"] ELSE state
         ELSE /\ state' = IF request[r].op = "start" THEN [state EXCEPT ![t] = "running"] ELSE state
              /\ Answer(r, t, IF request[r].op = "start" THEN "running" ELSE Shown(t))
    /\ UNCHANGED <<regVars, down, closing, clientVars>>

-----------------------------------------------------------------------------
(* What goes on after a handler was suspended.                             *)

\* _verb_stop: runtime.stop() returns when the twin is down.
StopReturns(r) ==
    /\ Held(r, "stop")
    /\ request[r].twin \in down \/ state[request[r].twin] = "closed"
    /\ Answer(r, request[r].twin, Shown(request[r].twin))
    /\ UNCHANGED <<regVars, instVars, clientVars>>

\* _verb_get_inference: what is no positive number is replaced by the default.
Limit_asked(timeout) == timeout    \* mutant: a client may ask for no timeout
Limit(timeout) == IF timeout = "none" THEN "given" ELSE timeout

Bounded(r) == Limit(request[r].timeout) = "given"

\* The task of the inference is cancelled by the close() of its twin, or when the
\* handler's wait times out; wait_for() goes on waiting until the task has ended.
Cancel(r) == request' = [request EXCEPT ![r].at = "cancelled"]

InferenceCancelled(r) ==
    /\ Held(r, "get_inference")
    /\ request[r].twin \in closing \/ state[request[r].twin] = "closed"
    /\ Cancel(r)
    /\ UNCHANGED <<regVars, instVars, clientVars>>

InferenceTimesOut(r) ==
    /\ Held(r, "get_inference") /\ Bounded(r)
    /\ Cancel(r)
    /\ UNCHANGED <<regVars, instVars, clientVars>>

\* The task ends, which it may never do, cancelled or not: with a result, with an
\* error, or by its cancellation.
Inferred(r) ==
    /\ Held(r, "get_inference") \/ request[r].at = "cancelled"
    /\ \E what \in {"open", "409", "504"} : Answer(r, request[r].twin, what)
    /\ UNCHANGED <<regVars, instVars, clientVars>>

\* _init_twin, as far as a client can tell.  close() cancels it.
InitEnds(t) ==
    /\ Exists(t) /\ state[t] = "initializing"
    /\ \E s \in IF t \in closing THEN {"failed"} ELSE {"ready", "failed"} :
          state' = [state EXCEPT ![t] = s]
    /\ UNCHANGED <<regVars, down, closing, request, clientVars>>

\* A component of the twin raises.
RuntimeFails(t) ==
    /\ state[t] \in {"ready", "running"}
    /\ state' = [state EXCEPT ![t] = "broken"]
    /\ UNCHANGED <<regVars, down, closing, request, clientVars>>

Teardown(t) ==
    /\ state[t] \in {"stopped", "broken"} /\ t \notin down
    /\ down' = down \cup {t}
    /\ UNCHANGED <<regVars, state, closing, request, clientVars>>

\* close() goes on: runtime.stop() ...
CloseStops(t) ==
    /\ t \in closing /\ state[t] \in {"ready", "running"}
    /\ state' = [state EXCEPT ![t] = "stopped"]
    /\ UNCHANGED <<regVars, down, closing, request, clientVars>>

\* ... and the end, with the answer to the request that closed the twin.
CloseEnds(r) ==
    LET t == request[r].twin IN
    /\ Held(r, "twin_close") \/ Held(r, "unregister_session")
    /\ state[t] = "failed" \/ t \in down
    /\ state' = [state EXCEPT ![t] = "closed"]
    /\ closing' = closing \ {t}
    /\ down' = down \ {t}
    /\ twins' = IF Held(r, "twin_close") THEN twins ELSE [twins EXCEPT ![SessOf(r)] = NoTwin]
    /\ Answer(r, t, "closed")
    /\ UNCHANGED <<sessions, created, home, clientVars>>

-----------------------------------------------------------------------------

Handle(r) ==
    \/ RegisterSession(r) \/ Gone(r) \/ TwinCreate(r) \/ TwinList(r)
    \/ TwinClose(r) \/ UnregisterSession(r) \/ TwinCall(r)
Handler(r) ==
    StopReturns(r) \/ InferenceCancelled(r) \/ InferenceTimesOut(r) \/ CloseEnds(r)
TwinStep(t) == InitEnds(t) \/ Teardown(t) \/ CloseStops(t)
ClientLoss(c) == request[<<c, 0>>].at = "lost" /\ GiveUp(c)

Next ==
    \/ \E c \in Client, op \in Ops, s \in Sid : Call(c, op, s)
    \/ \E c \in Client : Poll(c) \/ Learn(c) \/ GiveUp(c)
    \/ \E r \in Slot : Lose(r) \/ Handle(r) \/ Handler(r) \/ Inferred(r)
    \/ \E t \in Twin : TwinStep(t) \/ RuntimeFails(t)

Spec == Init /\ [][Next]_vars

\* Requests are lost or handled, handlers and twins go on, and a client learns of
\* an answer and of a lost request.  No inference has to end, cancelled or not.
FairSpec ==
    /\ Spec
    /\ \A r \in Slot : WF_vars(Handle(r) \/ Lose(r)) /\ WF_vars(Handler(r))
    /\ \A t \in Twin : WF_vars(TwinStep(t))
    /\ \A c \in Client : WF_vars(Learn(c)) /\ WF_vars(ClientLoss(c)) /\ WF_vars(Poll(c))

-----------------------------------------------------------------------------
(* Properties.                                                             *)

\* The types, and: a client waits exactly for a request that is under way.
TypeOK ==
    /\ sessions \subseteq Sid
    /\ twins \in [Sid -> 0..created] /\ created \in 0..MaxTwins
    /\ home \in [Twin -> Sid] /\ state \in [Twin -> States]
    /\ down \subseteq 1..created /\ closing \subseteq 1..created
    /\ \A r \in Slot : /\ request[r].at \in {"free", "wire", "handler", "cancelled",
                                            "answered", "lost"}
                       /\ request[r].op \in Ops /\ request[r].sid \in Sid \cup {NoSid}
                       /\ request[r].timeout \in AnyTimeout
                       /\ request[r].twin \in 0..created
                       /\ request[r].answer \in States \cup Others
    /\ \A c \in Client : pc[c] = "asking" <=> request[<<c, 0>>].at # "free"

\* However creates are repeated, delayed and overtaken by closes (twin_create,
\* twin_close, _twin_owner): one session has the id, and every other twin that
\* was ever created for it is closing or closed; none is out of reach.
OneTwinPerId ==
    /\ TypeOK
    /\ \A s, o \in Sid : twins[s] # NoTwin /\ twins[o] # NoTwin => s = o
    /\ \A t \in 1..created :
          t \in closing \/ state[t] = "closed" <=> \A s \in sessions : twins[s] # t
    /\ \A s \in Sid : twins[s] # NoTwin => home[twins[s]] = s

\* A client that create_twin() returned to may use the verbs until the twin is
\* closed (create_twin, wait_ready): the twin has its runtime.
ReadyMeansCallable ==
    \A c \in Client, s \in Sid :
        told[c] # NoTwin /\ told[c] = twins[s] => home[told[c]] = s /\ HasRuntime(told[c])

\* An inference whose timeout never comes, in a twin that nobody closes.
Endless(r) ==
    LET t == request[r].twin IN
    request[r].timeout = "inf" /\ t \notin closing /\ state[t] # "closed"

\* Every request is answered, or its inference cancelled, and every call of a client
\* ends (twin_call, _verb_get_inference, wait_ready), inferences that do not end by
\* themselves included: but for an infinite timeout, until the twin is closed; and
\* for a client, if what is cancelled comes to an end.
CallsEnd ==
    /\ \A r \in Slot :
          request[r].at = "handler" /\ ~Endless(r) ~> request[r].at # "handler"
    /\ (\A r \in Slot : []<>(request[r].at # "cancelled")) =>
          \A c \in Client :
             pc[c] # "idle" /\ request[<<c, 0>>].timeout # "inf" ~> pc[c] = "idle"

\* Whatever requests are lost, late or repeated, the registry of the one id here
\* is that of TwinRegistry: a twin is created only if the id is free, closed once,
\* and never reached again (twin_create, twin_close, unregister_session).
R == INSTANCE TwinRegistry WITH
         Id <- {"id"},
         name <- [t \in Twin |-> "id"],
         known <- 1..created,
         registered <- {t \in Twin : \E s \in Sid : twins[s] = t},
         closing <- closing \cup {t \in Twin : state[t] = "closed"}

ImplementsRegistry == R!Spec
=============================================================================
