--------------------------- MODULE RequestsProofs ---------------------------
(***************************************************************************)
(* Proofs about Requests, for any clients, sessions and twins, and any     *)
(* number of requests that come late.                                      *)
(***************************************************************************)
EXTENDS Requests, TLAPS

RequestType ==
    [at : {"free", "wire", "handler", "cancelled", "answered", "lost"}, op : Ops,
     sid : Sid \cup {NoSid}, timeout : AnyTimeout, twin : 0..created,
     answer : States \cup Others]

\* The types of TypeOK and of the other variables.  A request that is not answered
\* has a session, one whose handler is suspended a twin, and a client that asks for
\* the state of its twin again a session.
ClientTypes ==
    /\ request \in [Slot -> RequestType]
    /\ pc \in [Client -> {"idle", "asking", "pausing"}]
    /\ creating \in [Client -> Sid \cup {NoSid}]
    /\ told \in [Client -> 0..created]
    /\ \A r \in Slot : request[r].at \in {"wire", "handler"} => request[r].sid \in Sid
    /\ \A r \in Slot : request[r].at = "handler" => request[r].twin # NoTwin
    /\ \A c \in Client : pc[c] = "pausing" => creating[c] \in Sid
    /\ \A c \in Client : pc[c] = "asking" <=> request[<<c, 0>>].at # "free"

\* Twins that are not created yet are as they were.
TwinTypes ==
    /\ sessions \subseteq Sid
    /\ twins \in [Sid -> 0..created] /\ created \in 0..MaxTwins
    /\ home \in [Twin -> Sid] /\ state \in [Twin -> States]
    /\ down \subseteq 1..created /\ closing \subseteq 1..created
    /\ \A t \in Twin : t > created => state[t] = "initializing"

MoreTypes == ClientTypes /\ TwinTypes

\* The requests that close a twin, while they wait for it.
Closes(r) == Held(r, "twin_close") \/ Held(r, "unregister_session")

\* A handler that closes a twin has it for itself.
\* The id is free in the meantime if the twin is closed, and taken if its session
\* is, so that a twin no session knows of has a handler that will free its id.
HandlerInv ==
    /\ \A r \in Slot : Closes(r) => request[r].twin \in closing
    /\ \A r, q \in Slot : Closes(r) /\ Closes(q) /\ request[r].twin = request[q].twin => r = q
    /\ \A r \in Slot : Held(r, "twin_close") => \A s \in Sid : twins[s] # request[r].twin
    /\ \A r \in Slot : Held(r, "unregister_session") =>
          SessOf(r) \in Sid \ sessions /\ twins[SessOf(r)] = request[r].twin
    /\ \A s \in Sid \ sessions : twins[s] # NoTwin =>
          \E r \in Slot : Held(r, "unregister_session") /\ SessOf(r) = s

\* A twin that was ready once has its runtime as long as it is not closed; what a
\* client is told, or about to be told, is such a twin.
WasReady(st, t) == t # NoTwin => st[t] \in READY_STATES \cup {"broken", "closed"}

ReadyInv ==
    /\ \A t \in 1..created : state[t] = "closed" => \A s \in Sid : twins[s] # t
    /\ \A c \in Client : WasReady(state, told[c])
    /\ \A r \in Slot : request[r].at = "answered" /\ request[r].answer \in READY_STATES =>
          WasReady(state, request[r].twin)

RequestInv ==
    /\ MoreTypes
    /\ OneTwinPerId
    /\ HandlerInv
    /\ ReadyInv
-----------------------------------------------------------------------------
(***************************************************************************)
(* What the helpers do to the requests under way: one of them changes.     *)
(***************************************************************************)
LEMMA SlotZero ==
    /\ \A c \in Client : <<c, 0>> \in Slot /\ Awaited(<<c, 0>>)
    /\ \A r \in Slot : Awaited(r) => r[1] \in Client /\ r = <<r[1], 0>>
BY RequestsAssumption DEF Slot, Awaited

\* The numbers of the twins that exist only grow.
Grows == created \in Nat /\ created' \in Nat /\ created <= created'

\* All requests but r stay as they are.
OnlyChanges(r) ==
    /\ request' \in [Slot -> RequestType']
    /\ \A q \in Slot : q # r => request'[q] = request[q]

\* A step that sets one request leaves all others as they are.
LEMMA OneTyped ==
    ASSUME ClientTypes, Grows, NEW r \in Slot, NEW v, v \in RequestType',
           request' = [request EXCEPT ![r] = v]
    PROVE  OnlyChanges(r) /\ request'[r] = v
<1>1. RequestType \subseteq RequestType'
  BY DEF RequestType, Grows
<1> QED
  BY <1>1 DEF ClientTypes, OnlyChanges

\* A slot without a request, also after new twins came.
LEMMA FreeTyped ==
    ASSUME Grows
    PROVE  Free \in RequestType' /\ Free.at = "free" /\ Free.answer = "lost"
<1>1. /\ "twin_list" \in Ops /\ "lost" \in Others /\ NoTwin \in 0..created'
      /\ "none" \in AnyTimeout
  BY DEF Grows, Ops, Others, NoTwin, AnyTimeout
<1> QED
  BY <1>1 DEF Free, RequestType

\* An answer reaches the client that waits for it, or nobody.
LEMMA AnswerOne ==
    ASSUME ClientTypes, Grows, NEW r \in Slot, NEW t \in 0..created',
           NEW what \in States \cup Others, Answer(r, t, what)
    PROVE  /\ OnlyChanges(r)
           /\ request'[r].at = (IF Awaited(r) THEN "answered" ELSE "free")
           /\ request'[r].answer \in {"lost", what}
           /\ request'[r].answer # "lost" => request'[r].twin = t
<1> DEFINE f == Free
           g == [Free EXCEPT !.at = "answered"]
           h == [Free EXCEPT !.at = "answered", !.twin = t, !.answer = what]
<1>1. /\ f \in RequestType' /\ f.at = "free" /\ f.answer = "lost"
      /\ g \in RequestType' /\ g.at = "answered" /\ g.answer = "lost"
      /\ h \in RequestType' /\ h.at = "answered" /\ h.answer = what /\ h.twin = t
  <2>1. f \in RequestType' /\ f.at = "free" /\ f.answer = "lost"
    BY FreeTyped
  <2>2. g \in RequestType'
    BY <2>1 DEF RequestType
  <2>3. g.at = "answered"
    BY <2>1 DEF RequestType
  <2>4. g.answer = "lost"
    BY <2>1 DEF RequestType
  <2>5. h \in RequestType'
    BY <2>1 DEF RequestType
  <2>6. h.at = "answered"
    BY <2>1 DEF RequestType
  <2>7. h.answer = what
    BY <2>1 DEF RequestType
  <2>8. h.twin = t
    BY <2>1 DEF RequestType
  <2> HIDE DEF f, g, h
  <2> QED
    BY <2>1, <2>2, <2>3, <2>4, <2>5, <2>6, <2>7, <2>8
<1>2. PICK v \in {f, g, h} :
        request' = [request EXCEPT ![r] = v] /\ (Awaited(r) <=> v # f)
  <2>1. CASE ~Awaited(r)
    BY <2>1 DEF Answer
  <2>2. CASE Awaited(r)
    <3>1. request' = [request EXCEPT ![r] = g] \/ request' = [request EXCEPT ![r] = h]
      BY <2>2, Zenon DEF Answer
    <3> QED
      BY <1>1, <2>2, <3>1
  <2> QED
    BY <2>1, <2>2
<1> HIDE DEF f, g, h
<1>3. OnlyChanges(r) /\ request'[r] = v
  BY <1>1, <1>2, OneTyped
<1> QED
  BY <1>1, <1>2, <1>3

\* A handler that goes on holds on to a twin; what it was asked stays.
LEMMA HoldOne ==
    ASSUME ClientTypes, Grows, NEW r \in Slot, NEW t \in 0..created', Hold(r, t)
    PROVE  /\ OnlyChanges(r)
           /\ request'[r].at = "handler" /\ request'[r].twin = t
           /\ request'[r].op = request[r].op /\ request'[r].sid = request[r].sid
<1>1. request' = [request EXCEPT ![r] = [request[r] EXCEPT !.at = "handler", !.twin = t]]
  BY DEF Hold, ClientTypes, RequestType
<1>2. [request[r] EXCEPT !.at = "handler", !.twin = t] \in RequestType'
  <2>1. request[r] \in RequestType /\ RequestType \subseteq RequestType'
    BY DEF ClientTypes, RequestType, Grows
  <2>2. request[r] \in RequestType'
    BY <2>1
  <2> QED
    BY <2>2 DEF RequestType
<1>3. OnlyChanges(r) /\ request'[r] = [request[r] EXCEPT !.at = "handler", !.twin = t]
  BY <1>1, <1>2, OneTyped
<1>4. request[r] \in RequestType
  BY DEF ClientTypes
<1>5. request'[r].at = "handler"
  BY <1>3, <1>4 DEF RequestType
<1>6. request'[r].twin = t
  BY <1>3, <1>4 DEF RequestType
<1>7. request'[r].op = request[r].op
  BY <1>3, <1>4 DEF RequestType
<1>8. request'[r].sid = request[r].sid
  BY <1>3, <1>4 DEF RequestType
<1> QED
  BY <1>3, <1>5, <1>6, <1>7, <1>8

\* A call puts one request on the wire.
LEMMA SendOne ==
    ASSUME ClientTypes, Grows, NEW c \in Client, NEW op \in Ops, NEW s \in Sid,
           NEW timeout \in AnyTimeout, Send(c, op, s, timeout)
    PROVE  /\ OnlyChanges(<<c, 0>>)
           /\ request'[<<c, 0>>].at = "wire" /\ request'[<<c, 0>>].sid = s
<1> DEFINE v == [Free EXCEPT !.at = "wire", !.op = op, !.sid = s,
                         !.timeout = timeout]
<1>1. Free \in RequestType'
  BY FreeTyped
<1>2. v \in RequestType'
  BY <1>1 DEF RequestType
<1>3. v.at = "wire"
  BY <1>1 DEF RequestType
<1>4. v.sid = s
  BY <1>1 DEF RequestType
<1>5. request' = [request EXCEPT ![<<c, 0>>] = v]
  BY DEF Send
<1> HIDE DEF v
<1> QED
  BY <1>2, <1>3, <1>4, <1>5, SlotZero, OneTyped

\* An inference that is cancelled stays with its handler.
LEMMA CancelOne ==
    ASSUME ClientTypes, Grows, NEW r \in Slot, Cancel(r)
    PROVE  OnlyChanges(r) /\ request'[r].at = "cancelled"
<1> DEFINE v == [request[r] EXCEPT !.at = "cancelled"]
<1>1. v \in RequestType'
  BY DEF ClientTypes, RequestType, Grows
<1>2. v.at = "cancelled"
  BY DEF ClientTypes, RequestType
<1>3. request' = [request EXCEPT ![r] = v]
  BY DEF Cancel, ClientTypes
<1> HIDE DEF v
<1> QED
  BY <1>1, <1>2, <1>3, OneTyped

\* A lost request is lost to the client that waits for it.
LEMMA LoseOne ==
    ASSUME ClientTypes, Grows, NEW r \in Slot, Lose(r)
    PROVE  /\ OnlyChanges(r)
           /\ request'[r].at = (IF Awaited(r) THEN "lost" ELSE "free")
<1> DEFINE v == [request[r] EXCEPT !.at = "lost"]
<1>1. Free \in RequestType' /\ Free.at = "free"
  BY FreeTyped
<1>2. v \in RequestType'
  BY DEF ClientTypes, RequestType, Grows
<1>3. v.at = "lost"
  BY DEF ClientTypes, RequestType
<1>4. request' = [request EXCEPT ![r] = IF Awaited(r) THEN v ELSE Free]
  BY DEF Lose, ClientTypes
<1> HIDE DEF v
<1> QED
  BY <1>1, <1>2, <1>3, <1>4, OneTyped
-----------------------------------------------------------------------------
(***************************************************************************)
(* The types.  Most steps change one request that is under way: it stays   *)
(* under way if its client waits for it.                                   *)
(***************************************************************************)
Served(r) ==
    /\ OnlyChanges(r) /\ request[r].at # "free"
    /\ Awaited(r) => request'[r].at # "free"
    /\ request'[r].at \in {"wire", "handler"} => request'[r].sid \in Sid
    /\ request'[r].at = "handler" => request'[r].twin # NoTwin

\* The types survive a step that serves one request and leaves the clients alone.
LEMMA ServedTyped ==
    ASSUME ClientTypes, Grows, NEW r \in Slot, Served(r), UNCHANGED clientVars
    PROVE  ClientTypes'
<1> USE DEF ClientTypes, Served, OnlyChanges, clientVars
<1>1. told \in [Client -> 0..created']
  BY DEF Grows
<1>2. \A q \in Slot :
         /\ request'[q].at \in {"wire", "handler"} => request'[q].sid \in Sid
         /\ request'[q].at = "handler" => request'[q].twin # NoTwin
  OBVIOUS
<1>3. \A c \in Client : pc[c] = "asking" <=> request'[<<c, 0>>].at # "free"
  <2> TAKE c \in Client
  <2>1. CASE r = <<c, 0>>
    BY <2>1, SlotZero
  <2>2. CASE r # <<c, 0>>
    BY <2>2, SlotZero
  <2> QED
    BY <2>1, <2>2
<1> QED
  BY <1>1, <1>2, <1>3

\* An answer serves its request ...
LEMMA AnswerServes ==
    ASSUME ClientTypes, Grows, NEW r \in Slot, NEW t \in 0..created',
           NEW what \in States \cup Others, Answer(r, t, what), request[r].at # "free"
    PROVE  Served(r)
BY AnswerOne DEF Served

\* ... and so does a handler that takes it on.
LEMMA HoldServes ==
    ASSUME ClientTypes, Grows, NEW r \in Slot, NEW t \in 0..created', Hold(r, t),
           request[r].at = "wire", t # NoTwin
    PROVE  Served(r)
BY HoldOne DEF Served, ClientTypes

\* To cancel its inference serves a request, too.
LEMMA CancelServes ==
    ASSUME ClientTypes, Grows, NEW r \in Slot, Cancel(r), request[r].at # "free"
    PROVE  Served(r)
BY CancelOne DEF Served

\* Every step of a client keeps the types.
LEMMA ClientStepTyped ==
    ASSUME MoreTypes, UNCHANGED <<regVars, instVars>>,
           NEW c \in Client, Poll(c) \/ Learn(c) \/ GiveUp(c) \/ \E op \in Ops, s \in Sid : Call(c, op, s)
    PROVE  MoreTypes'
<1> USE DEF MoreTypes, regVars, instVars
<1>0. Grows /\ TwinTypes'
  BY DEF Grows, TwinTypes
<1> SUFFICES ClientTypes'
  BY <1>0
<1>1. ASSUME NEW op \in Ops, NEW s \in Sid, NEW w \in AnyTimeout, Send(c, op, s, w),
             creating' \in [Client -> Sid \cup {NoSid}],
             \A d \in Client : d = c \/ creating'[d] = creating[d], UNCHANGED told
      PROVE  ClientTypes'
  <2>1. /\ OnlyChanges(<<c, 0>>)
        /\ request'[<<c, 0>>].at = "wire" /\ request'[<<c, 0>>].sid = s
    BY <1>0, <1>1, SendOne
  <2>2. pc' = [pc EXCEPT ![c] = "asking"]
    BY <1>1 DEF Send
  <2>3. \A d \in Client : pc'[d] = "asking" <=> request'[<<d, 0>>].at # "free"
    BY <2>1, <2>2, SlotZero DEF OnlyChanges, ClientTypes
  <2>4. /\ request' \in [Slot -> RequestType]
        /\ \A q \in Slot : q # <<c, 0>> => request'[q] = request[q]
    BY <2>1, <1>0 DEF OnlyChanges, RequestType
  <2>5. pc' \in [Client -> {"idle", "asking", "pausing"}] /\ told' \in [Client -> 0..created']
    BY <1>0, <1>1, <2>2 DEF ClientTypes
  <2>6. \A d \in Client : pc'[d] = "pausing" => creating'[d] \in Sid
    BY <1>1, <2>2 DEF ClientTypes
  <2>7. \A q \in Slot : /\ request'[q].at \in {"wire", "handler"} => request'[q].sid \in Sid
                        /\ request'[q].at = "handler" => request'[q].twin # NoTwin
    BY <2>1, <2>4 DEF ClientTypes
  <2> QED
    BY <1>0, <1>1, <2>1, <2>3, <2>4, <2>5, <2>6, <2>7 DEF OnlyChanges, ClientTypes
<1>2. ASSUME NEW op \in Ops, NEW s \in Sid, Call(c, op, s) PROVE ClientTypes'
  <2>1. PICK w \in AnyTimeout : Send(c, op, s, w)
    BY <1>2, RequestsAssumption DEF Call, AnyTimeout
  <2>2. /\ creating' \in [Client -> Sid \cup {NoSid}] /\ UNCHANGED told
        /\ \A d \in Client : d = c \/ creating'[d] = creating[d]
    BY <1>2 DEF Call, ClientTypes
  <2> QED
    BY <1>1, <2>1, <2>2
<1>3. CASE Poll(c)
  <2>1. creating[c] \in Sid /\ "twin_list" \in Ops /\ "none" \in AnyTimeout
    BY <1>3 DEF Poll, ClientTypes, Ops, AnyTimeout
  <2>2. Send(c, "twin_list", creating[c], "none") /\ UNCHANGED <<creating, told>>
    BY <1>3 DEF Poll
  <2>3. creating' \in [Client -> Sid \cup {NoSid}]
    BY <2>2 DEF ClientTypes
  <2> QED
    BY <1>1, <2>1, <2>2, <2>3
<1>4. CASE Learn(c)
  <2>1. Free \in RequestType' /\ Free.at = "free"
    BY <1>0, FreeTyped
  <2>2. OnlyChanges(<<c, 0>>) /\ request'[<<c, 0>>].at = "free"
    BY <1>0, <1>4, <2>1, SlotZero, OneTyped DEF Learn
  <2>3. request[<<c, 0>>].twin \in 0..created
    BY SlotZero DEF ClientTypes, RequestType
  <2>4. /\ \/ pc' = [pc EXCEPT ![c] = "idle"]
           \/ /\ pc' = [pc EXCEPT ![c] = "pausing"]
              /\ creating[c] \in Sid /\ creating' = creating
        /\ creating' = creating \/ creating' = [creating EXCEPT ![c] = NoSid]
        /\ told' = told \/ told' = [told EXCEPT ![c] = request[<<c, 0>>].twin]
    <3>1. Proceed(c, request[<<c, 0>>].twin, request[<<c, 0>>].answer)
      BY <1>4 DEF Learn
    <3>2. CASE /\ pc' = [pc EXCEPT ![c] = "pausing"] /\ UNCHANGED <<creating, told>>
               /\ creating[c] # NoSid
      BY <3>2 DEF ClientTypes
    <3>3. CASE Return(c) /\ UNCHANGED told
      BY <3>3, Zenon DEF Return
    <3>4. CASE Return(c) /\ told' = [told EXCEPT ![c] = request[<<c, 0>>].twin]
      BY <3>4, Zenon DEF Return
    <3> QED
      BY <3>1, <3>2, <3>3, <3>4 DEF Proceed
  <2>5. \A d \in Client : pc'[d] = "asking" <=> request'[<<d, 0>>].at # "free"
    BY <2>2, <2>4, SlotZero DEF OnlyChanges, ClientTypes
  <2>6. \A r \in Slot :
           /\ request'[r].at \in {"wire", "handler"} => request'[r].sid \in Sid
           /\ request'[r].at = "handler" => request'[r].twin # NoTwin
    BY <2>2 DEF OnlyChanges, ClientTypes
  <2>7. \A d \in Client : pc'[d] = "pausing" => creating'[d] \in Sid
    BY <2>4 DEF ClientTypes
  <2>8. told' \in [Client -> 0..created']
    BY <2>3, <2>4 DEF ClientTypes
  <2>9. /\ pc' \in [Client -> {"idle", "asking", "pausing"}]
        /\ creating' \in [Client -> Sid \cup {NoSid}]
    BY <2>4 DEF ClientTypes
  <2> QED
    BY <2>2, <2>5, <2>6, <2>7, <2>8, <2>9 DEF OnlyChanges, ClientTypes
<1>5. CASE GiveUp(c)
  <2>1. Free \in RequestType' /\ Free.at = "free"
    BY <1>0, FreeTyped
  <2>2. RequestType' = RequestType /\ <<c, 0>> \in Slot
    BY SlotZero DEF RequestType
  <2>3. /\ pc' = [pc EXCEPT ![c] = "idle"] /\ creating' = [creating EXCEPT ![c] = NoSid]
        /\ UNCHANGED told
    BY <1>5 DEF GiveUp, Return
  <2>4. CASE request' = [request EXCEPT ![<<c, 0>>] = Free]
    <3>1. request' \in [Slot -> RequestType] /\ request'[<<c, 0>>] = Free
      BY <2>1, <2>2, <2>4 DEF ClientTypes
    <3>2. \A q \in Slot : q = <<c, 0>> \/ request'[q] = request[q]
      BY <2>4 DEF ClientTypes
    <3>3. \A d \in Client : d # c => request'[<<d, 0>>] = request[<<d, 0>>]
      BY <3>2, SlotZero
    <3> QED
      BY <2>1, <2>2, <2>3, <3>1, <3>2, <3>3 DEF ClientTypes
  <2>5. ASSUME NEW n \in 1..MaxLate,
               request' = [request EXCEPT ![<<c, n>>] = request[<<c, 0>>], ![<<c, 0>>] = Free]
        PROVE  ClientTypes'
    <3>1. <<c, n>> \in Slot /\ ~Awaited(<<c, n>>)
      BY RequestsAssumption DEF Slot, Awaited
    <3>2. /\ request' \in [Slot -> RequestType]
          /\ request'[<<c, 0>>] = Free /\ request'[<<c, n>>] = request[<<c, 0>>]
          /\ \A q \in Slot : q = <<c, 0>> \/ q = <<c, n>> \/ request'[q] = request[q]
      BY <2>1, <2>2, <2>5, <3>1 DEF ClientTypes
    <3>3. \A d \in Client : d # c => request'[<<d, 0>>] = request[<<d, 0>>]
      BY <3>2, SlotZero
    <3>4. /\ pc' \in [Client -> {"idle", "asking", "pausing"}] /\ pc'[c] = "idle"
          /\ creating' \in [Client -> Sid \cup {NoSid}] /\ told' \in [Client -> 0..created']
      BY <2>1, <2>3 DEF ClientTypes
    <3>5. \A q \in Slot : /\ request'[q].at \in {"wire", "handler"} => request'[q].sid \in Sid
                          /\ request'[q].at = "handler" => request'[q].twin # NoTwin
      BY <2>1, <2>2, <3>1, <3>2 DEF ClientTypes
    <3>6. \A d \in Client : /\ pc'[d] = "pausing" => creating'[d] \in Sid
                            /\ pc'[d] = "asking" <=> request'[<<d, 0>>].at # "free"
      BY <2>1, <2>3, <3>2, <3>3 DEF ClientTypes
    <3> QED
      BY <2>2, <3>2, <3>4, <3>5, <3>6 DEF ClientTypes
  <2> QED
    <3>1. \/ request' = [request EXCEPT ![<<c, 0>>] = Free]
          \/ \E n \in 1..MaxLate :
                request' = [request EXCEPT ![<<c, n>>] = request[<<c, 0>>], ![<<c, 0>>] = Free]
      BY <1>5, Zenon DEF GiveUp
    <3> QED
      BY <2>4, <2>5, <3>1, Zenon
<1> QED
  BY <1>0, <1>2, <1>3, <1>4, <1>5
\* A step of a route or a handler, or the loss of a request.
ServiceStep(r) == Lose(r) \/ Handle(r) \/ Handler(r) \/ Inferred(r)

\* Every step of a route or a handler keeps the types, and serves one request.
LEMMA ServiceStepTyped ==
    ASSUME MoreTypes, NEW r \in Slot, ServiceStep(r)
    PROVE  MoreTypes' /\ Served(r) /\ Grows
<1> DEFINE t == twins[SessOf(r)]
<1>0. ClientTypes /\ request[r] \in RequestType /\ request[r].twin \in 0..created
  BY DEF MoreTypes, ClientTypes, RequestType
<1>s. request[r].at \in {"wire", "handler"} => SessOf(r) \in Sid /\ t \in 0..created
  BY DEF MoreTypes, ClientTypes, TwinTypes, SessOf
<1>w. {"410", "409", "404", "504", "open", "initializing", "running", "closed"} \subseteq States \cup Others
  BY DEF States, Others, READY_STATES
<1>h. \A u \in Twin : Shown(u) \in States
  BY DEF Shown, MoreTypes, TwinTypes, States, READY_STATES
<1>k. created \in Nat /\ 1..created \subseteq Twin
  BY RequestsAssumption DEF MoreTypes, TwinTypes, Twin
<1>q. SUFFICES UNCHANGED clientVars /\ Grows /\ Served(r) /\ TwinTypes'
  BY <1>0, ServedTyped DEF MoreTypes
<1>a. ASSUME Grows, NEW u \in 0..created', NEW what \in States \cup Others, Answer(r, u, what),
             request[r].at # "free"
      PROVE  Served(r)
  BY <1>0, <1>a, AnswerServes
<1>b. ASSUME Grows, NEW u \in 0..created', Hold(r, u), request[r].at = "wire", u # NoTwin
      PROVE  Served(r)
  BY <1>0, <1>b, HoldServes
<1>c. ASSUME UNCHANGED created PROVE Grows
  BY <1>c, <1>k DEF Grows
<1> USE DEF NoTwin
<1>1. CASE Lose(r)
  <2>1. Grows /\ TwinTypes' /\ UNCHANGED clientVars
    BY <1>1, <1>c DEF Lose, MoreTypes, TwinTypes, regVars, instVars
  <2>2. Served(r)
    <3>1. request[r].at = "wire"
      BY <1>1 DEF Lose
    <3>2. OnlyChanges(r) /\ request'[r].at = (IF Awaited(r) THEN "lost" ELSE "free")
      BY <1>0, <1>1, <2>1, LoseOne
    <3> QED
      BY <3>1, <3>2 DEF Served
  <2> QED
    BY <2>1, <2>2
<1>2. CASE RegisterSession(r)
  <2>1. Grows /\ TwinTypes' /\ UNCHANGED clientVars
    BY <1>2, <1>c, <1>s DEF RegisterSession, Arrives, MoreTypes, TwinTypes, instVars
  <2> QED
    BY <1>2, <1>a, <1>w, <2>1 DEF RegisterSession, Arrives, Grows
<1>3. CASE Gone(r)
  <2>1. Grows /\ TwinTypes' /\ UNCHANGED clientVars
    BY <1>3, <1>c DEF Gone, MoreTypes, TwinTypes, regVars, instVars
  <2> QED
    BY <1>3, <1>a, <1>w, <2>1 DEF Gone, Grows
<1>4. CASE TwinCreate(r)
  <2>1. request[r].at = "wire" /\ SessOf(r) \in Sid /\ UNCHANGED <<sessions, instVars, clientVars>>
    BY <1>4, <1>s DEF TwinCreate, Forwarded, Arrives, regVars
  <2>2. CASE Answer(r, NoTwin, "409") /\ UNCHANGED <<regVars, instVars>>
    <3>1. Grows /\ TwinTypes'
      BY <2>2, <1>c DEF MoreTypes, TwinTypes, regVars, instVars
    <3> QED
      BY <1>a, <1>w, <2>1, <2>2, <3>1 DEF Grows
  <2>3. CASE t # NoTwin /\ Answer(r, t, Shown(t)) /\ UNCHANGED <<regVars, instVars>>
    <3>1. Grows /\ TwinTypes' /\ created' = created
      BY <2>3, <1>c DEF MoreTypes, TwinTypes, regVars, instVars
    <3>2. t \in Twin /\ t \in 0..created'
      BY <1>s, <1>k, <2>1, <2>3, <3>1
    <3> QED
      BY <1>a, <1>h, <2>1, <2>3, <3>1, <3>2
  <2>4. CASE /\ created < MaxTwins /\ created' = created + 1
             /\ twins' = [twins EXCEPT ![SessOf(r)] = created']
             /\ home' = [home EXCEPT ![created'] = SessOf(r)]
             /\ Answer(r, created', "initializing")
             /\ UNCHANGED <<sessions, instVars>>
    <3>1. Grows /\ created' \in 0..created' /\ created' \in 0..MaxTwins
      BY <1>k, <2>4, RequestsAssumption DEF Grows
    <3>2. TwinTypes'
      BY <1>k, <2>1, <2>4, <3>1, RequestsAssumption DEF MoreTypes, TwinTypes, instVars, Twin
    <3> QED
      BY <1>a, <1>w, <2>1, <2>4, <3>1, <3>2
  <2> QED
    BY <1>4, <2>2, <2>3, <2>4 DEF TwinCreate
<1>5. CASE TwinList(r)
  <2>1. /\ Grows /\ TwinTypes' /\ UNCHANGED clientVars /\ created' = created
        /\ request[r].at = "wire"
    BY <1>5, <1>c DEF TwinList, Forwarded, Arrives, MoreTypes, TwinTypes, regVars, instVars
  <2>2. t \in 0..created' /\ (IF t = NoTwin THEN "404" ELSE Shown(t)) \in States \cup Others
    BY <1>s, <1>k, <1>w, <1>h, <2>1
  <2> QED
    BY <1>5, <1>a, <2>1, <2>2 DEF TwinList
<1>d. ASSUME BeginClose(r), request[r].at = "wire"
      PROVE  /\ Served(r) /\ Grows /\ UNCHANGED <<created, home, state, down, clientVars>>
             /\ closing' \subseteq 1..created
  <2>1. Grows /\ UNCHANGED <<created, home, state, down, clientVars>>
    BY <1>c, <1>d DEF BeginClose
  <2>2. CASE t = NoTwin /\ Answer(r, t, "closed") /\ UNCHANGED closing
    BY <1>a, <1>w, <1>s, <1>d, <2>1, <2>2 DEF MoreTypes, TwinTypes
  <2>3. CASE t # NoTwin /\ Hold(r, t) /\ closing' = closing \cup {t}
    <3>1. t \in 1..created /\ t \in 0..created' /\ closing \subseteq 1..created
      BY <1>s, <1>k, <1>d, <2>1, <2>3 DEF MoreTypes, TwinTypes
    <3>2. Served(r)
      BY <1>b, <1>d, <2>1, <2>3, <3>1
    <3> QED
      BY <2>1, <2>3, <3>1, <3>2
  <2> QED
    BY <1>d, <2>1, <2>2, <2>3 DEF BeginClose
<1>6. CASE TwinClose(r)
  <2>1. request[r].at = "wire" /\ BeginClose(r) /\ UNCHANGED sessions
    BY <1>6 DEF TwinClose, Forwarded, Arrives
  <2>2. twins' = [twins EXCEPT ![SessOf(r)] = NoTwin]
    BY <1>6 DEF TwinClose
  <2> QED
    <3>1. /\ Served(r) /\ Grows /\ UNCHANGED <<created, home, state, down, clientVars>>
          /\ closing' \subseteq 1..created
      BY <1>d, <2>1
    <3>2. twins' \in [Sid -> 0..created]
      <4>1. twins \in [Sid -> 0..created] /\ NoTwin \in 0..created
        BY <1>k DEF MoreTypes, TwinTypes
      <4> QED
        BY <2>2, <4>1
    <3> QED
      BY <2>1, <3>1, <3>2 DEF MoreTypes, TwinTypes
<1>7. CASE UnregisterSession(r)
  <2>1. request[r].at = "wire" /\ BeginClose(r) /\ UNCHANGED twins
    BY <1>7 DEF UnregisterSession, Forwarded, Arrives
  <2>2. sessions' \subseteq sessions
    BY <1>7 DEF UnregisterSession
  <2> QED
    BY <1>d, <1>k, <2>1, <2>2 DEF MoreTypes, TwinTypes
<1>8. CASE TwinCall(r)
  <2>1. /\ request[r].at = "wire" /\ Grows /\ UNCHANGED clientVars /\ created' = created
        /\ UNCHANGED <<sessions, twins, home, down, closing>> /\ t \in 0..created'
    BY <1>8, <1>c, <1>s DEF TwinCall, Forwarded, Arrives, regVars
  <2>2. CASE Refusal(r, t) # "none" /\ Answer(r, t, Refusal(r, t)) /\ UNCHANGED state
    <3>1. Refusal(r, t) \in States \cup Others
      BY <1>w, <2>2 DEF Refusal
    <3> QED
      BY <1>a, <2>1, <2>2, <3>1 DEF MoreTypes, TwinTypes
  <2>3. CASE /\ Refusal(r, t) = "none" /\ Hold(r, t)
             /\ state' = state \/ state' = [state EXCEPT ![t] = "stopped"]
    <3>1. t \in 1..created
      BY <1>k, <2>1, <2>3 DEF Refusal
    <3>2. TwinTypes'
      <4>1. state' \in [Twin -> States]
        BY <1>w, <2>3 DEF MoreTypes, TwinTypes, States, READY_STATES
      <4>2. \A u \in Twin : u > created => state'[u] = state[u]
        BY <1>k, <2>3, <3>1 DEF MoreTypes, TwinTypes
      <4> QED
        BY <2>1, <4>1, <4>2 DEF MoreTypes, TwinTypes
    <3> QED
      BY <1>b, <2>1, <2>3, <3>1, <3>2
  <2>4. CASE /\ Refusal(r, t) = "none"
             /\ state' = state \/ state' = [state EXCEPT ![t] = "running"]
             /\ Answer(r, t, IF request[r].op = "start" THEN "running" ELSE Shown(t))
    <3>1. t \in 1..created
      BY <1>k, <2>1, <2>4 DEF Refusal
    <3>2. TwinTypes'
      <4>1. state' \in [Twin -> States]
        BY <1>w, <2>4 DEF MoreTypes, TwinTypes, States, READY_STATES
      <4>2. \A u \in Twin : u > created => state'[u] = state[u]
        BY <1>k, <2>4, <3>1 DEF MoreTypes, TwinTypes
      <4> QED
        BY <2>1, <4>1, <4>2 DEF MoreTypes, TwinTypes
    <3>3. (IF request[r].op = "start" THEN "running" ELSE Shown(t)) \in States \cup Others
      BY <1>w, <1>h, <1>k, <3>1
    <3> QED
      BY <1>a, <2>1, <2>4, <3>2, <3>3
  <2> QED
    BY <1>8, <2>2, <2>3, <2>4, Zenon DEF TwinCall
<1>e. ASSUME Grows, UNCHANGED created PROVE request[r].twin \in 0..created'
  BY <1>0, <1>e
<1>9. CASE StopReturns(r)
  <2>1. Grows /\ TwinTypes' /\ UNCHANGED <<created, clientVars>>
    BY <1>9, <1>c DEF StopReturns, MoreTypes, TwinTypes, regVars, instVars
  <2> QED
    <3>1. request[r].at = "handler" /\ Answer(r, request[r].twin, Shown(request[r].twin))
      BY <1>9 DEF StopReturns, Held
    <3>2. request[r].twin \in Twin
      BY <1>0, <1>k, <3>1 DEF ClientTypes
    <3> QED
      BY <1>a, <1>e, <1>h, <2>1, <3>1, <3>2
<1>10. CASE InferenceCancelled(r)
  <2>1. Grows /\ TwinTypes' /\ UNCHANGED <<created, clientVars>>
    BY <1>10, <1>c DEF InferenceCancelled, MoreTypes, TwinTypes, regVars, instVars
  <2> QED
    BY <1>10, <1>0, <2>1, CancelServes DEF InferenceCancelled, Held
<1>11. CASE InferenceTimesOut(r)
  <2>1. Grows /\ TwinTypes' /\ UNCHANGED <<created, clientVars>>
    BY <1>11, <1>c DEF InferenceTimesOut, MoreTypes, TwinTypes, regVars, instVars
  <2> QED
    BY <1>11, <1>0, <2>1, CancelServes DEF InferenceTimesOut, Held
<1>12. CASE Inferred(r)
  <2>1. Grows /\ TwinTypes' /\ UNCHANGED <<created, clientVars>>
    BY <1>12, <1>c DEF Inferred, MoreTypes, TwinTypes, regVars, instVars
  <2> QED
    <3>1. PICK what \in {"open", "409", "504"} : Answer(r, request[r].twin, what)
      BY <1>12 DEF Inferred
    <3>2. what \in States \cup Others /\ request[r].at # "free"
      BY <1>12, <1>w DEF Inferred, Held
    <3> QED
      BY <1>a, <1>e, <2>1, <3>1, <3>2
<1>13. CASE CloseEnds(r)
  <2>1. /\ Grows /\ created' = created /\ UNCHANGED <<sessions, home, clientVars>>
        /\ request[r].at = "handler" /\ Answer(r, request[r].twin, "closed")
    BY <1>13, <1>c DEF CloseEnds, Held
  <2>2. /\ state' = [state EXCEPT ![request[r].twin] = "closed"]
        /\ closing' \subseteq closing /\ down' \subseteq down
        /\ twins' = twins \/ twins' = [twins EXCEPT ![SessOf(r)] = NoTwin]
    BY <1>13, Zenon DEF CloseEnds
  <2>3. TwinTypes'
    <3>1. state' \in [Twin -> States]
      BY <2>2 DEF MoreTypes, TwinTypes, States
    <3>2. \A u \in Twin : u > created => state'[u] = state[u]
      BY <1>0, <1>k, <2>2 DEF MoreTypes, TwinTypes, Twin
    <3>3. twins' \in [Sid -> 0..created]
      BY <1>k, <2>2 DEF MoreTypes, TwinTypes
    <3> QED
      BY <2>1, <2>2, <3>1, <3>2, <3>3 DEF MoreTypes, TwinTypes
  <2> QED
    BY <1>a, <1>e, <1>w, <2>1, <2>3
<1> QED
  BY <1>1, <1>2, <1>3, <1>4, <1>5, <1>6, <1>7, <1>8, <1>9, <1>10, <1>11, <1>12, <1>13
     DEF ServiceStep, Handle, Handler

\* Every step of a twin keeps the types; no twin comes out of "closed" or goes
\* back behind "ready".
LEMMA TwinStepTyped ==
    ASSUME MoreTypes, NEW t \in Twin, TwinStep(t) \/ RuntimeFails(t)
    PROVE  /\ MoreTypes' /\ UNCHANGED <<regVars, closing, request, clientVars>>
           /\ \A u \in Twin : state[u] = "closed" <=> state'[u] = "closed"
           /\ \A u \in Twin : WasReady(state, u) => WasReady(state', u)
<1>1. /\ UNCHANGED <<regVars, closing, request, clientVars>> /\ down' \subseteq 1..created
      /\ \/ state' = state
         \/ /\ Exists(t) /\ state[t] = "initializing"
            /\ state' = [state EXCEPT ![t] = "ready"] \/ state' = [state EXCEPT ![t] = "failed"]
         \/ /\ state[t] \in {"ready", "running"}
            /\ state' = [state EXCEPT ![t] = "broken"] \/ state' = [state EXCEPT ![t] = "stopped"]
  <2>0. down \subseteq 1..created /\ (state[t] # "initializing" => t \in 1..created)
    BY DEF MoreTypes, TwinTypes, Twin
  <2>1. CASE InitEnds(t)
    BY <2>0, <2>1 DEF InitEnds
  <2>2. CASE Teardown(t)
    BY <2>0, <2>2 DEF Teardown
  <2>3. CASE CloseStops(t)
    BY <2>0, <2>3 DEF CloseStops
  <2>4. CASE RuntimeFails(t)
    BY <2>0, <2>4 DEF RuntimeFails
  <2> QED
    BY <2>1, <2>2, <2>3, <2>4 DEF TwinStep
<1>2. ClientTypes'
  BY <1>1 DEF MoreTypes, ClientTypes, RequestType, regVars, clientVars
<1>3. state' \in [Twin -> States]
  BY <1>1 DEF MoreTypes, TwinTypes, States, READY_STATES
<1>4. TwinTypes'
  BY <1>1, <1>3 DEF MoreTypes, TwinTypes, regVars, Exists, Twin
<1>5. /\ \A u \in Twin : state[u] = "closed" <=> state'[u] = "closed"
      /\ \A u \in Twin : WasReady(state, u) => WasReady(state', u)
  BY <1>1 DEF MoreTypes, TwinTypes, READY_STATES, WasReady
<1> QED
  BY <1>1, <1>2, <1>4, <1>5 DEF MoreTypes

\* The types the proof needs are the types of the model, and more.
LEMMA TypesEnough == (MoreTypes => TypeOK) /\ (MoreTypes' => TypeOK')
BY DEF MoreTypes, ClientTypes, TwinTypes, TypeOK, RequestType

-----------------------------------------------------------------------------
(***************************************************************************)
(* The invariant.  Most steps change no twin that is registered, closing   *)
(* or closed, and no request that closes one.                              *)
(***************************************************************************)
LEMMA FrameTwins ==
    ASSUME RequestInv, MoreTypes', UNCHANGED <<regVars, closing>>,
           \A t \in Twin : state[t] = "closed" <=> state'[t] = "closed"
    PROVE  /\ OneTwinPerId'
           /\ \A t \in 1..created' : state'[t] = "closed" => \A s \in Sid : twins'[s] # t
<1>1. TypeOK'
  BY TypesEnough
<1>2. 1..created \subseteq Twin
  BY RequestsAssumption DEF RequestInv, MoreTypes, TwinTypes, Twin
<1> QED
  BY <1>1, <1>2 DEF RequestInv, OneTwinPerId, ReadyInv, regVars

\* The handlers that close a twin are undisturbed by a step that is not theirs.
LEMMA FrameHandlers ==
    ASSUME HandlerInv, NEW r \in Slot, OnlyChanges(r), ~Closes(r), ~Closes(r)',
           UNCHANGED <<sessions, twins, closing>>
    PROVE  HandlerInv'
BY DEF HandlerInv, OnlyChanges, Closes, Held, SessOf

\* What clients were told of a twin stays true when twins only advance, and what is
\* new is true.
LEMMA FrameReady ==
    ASSUME RequestInv, MoreTypes', NEW r \in Slot, OnlyChanges(r),
           \A t \in Twin : WasReady(state, t) => WasReady(state', t),
           \A c \in Client : told'[c] = told[c] \/ WasReady(state', told'[c]),
           request'[r].at = "answered" /\ request'[r].answer \in READY_STATES =>
              WasReady(state', request'[r].twin)
    PROVE  /\ \A c \in Client : WasReady(state', told'[c])
           /\ \A q \in Slot : request'[q].at = "answered" /\ request'[q].answer \in READY_STATES =>
                 WasReady(state', request'[q].twin)
<1>1. \A t \in 0..created : t \in Twin \/ t = NoTwin
  BY RequestsAssumption DEF RequestInv, MoreTypes, TwinTypes, Twin, NoTwin
<1>2. WasReady(state', NoTwin)
  BY DEF WasReady
<1>3. \A c \in Client : told[c] \in 0..created
  BY DEF RequestInv, MoreTypes, ClientTypes
<1>4. \A q \in Slot : request[q].twin \in 0..created
  BY DEF RequestInv, MoreTypes, ClientTypes, RequestType
<1>5. \A c \in Client : WasReady(state', told'[c])
  BY <1>1, <1>2, <1>3 DEF RequestInv, ReadyInv
<1>6. ASSUME NEW q \in Slot, request'[q].at = "answered", request'[q].answer \in READY_STATES
      PROVE  WasReady(state', request'[q].twin)
  BY <1>1, <1>2, <1>4, <1>6 DEF RequestInv, ReadyInv, OnlyChanges
<1> QED
  BY <1>5, <1>6

\* The invariant survives a step that registers, closes and unregisters nothing.
LEMMA Quiet ==
    ASSUME RequestInv, MoreTypes', NEW r \in Slot, OnlyChanges(r), ~Closes(r), ~Closes(r)',
           UNCHANGED <<regVars, closing>>,
           \A t \in Twin : state[t] = "closed" <=> state'[t] = "closed",
           \A t \in Twin : WasReady(state, t) => WasReady(state', t),
           \A c \in Client : told'[c] = told[c] \/ WasReady(state', told'[c]),
           request'[r].at = "answered" /\ request'[r].answer \in READY_STATES =>
              WasReady(state', request'[r].twin)
    PROVE  RequestInv'
<1>1. UNCHANGED <<sessions, twins>>
  BY DEF regVars
<1>2. HandlerInv'
  BY <1>1, FrameHandlers DEF RequestInv
<1>3. /\ OneTwinPerId'
      /\ \A t \in 1..created' : state'[t] = "closed" => \A s \in Sid : twins'[s] # t
  BY FrameTwins
<1>4. /\ \A c \in Client : WasReady(state', told'[c])
      /\ \A q \in Slot : request'[q].at = "answered" /\ request'[q].answer \in READY_STATES =>
            WasReady(state', request'[q].twin)
  BY FrameReady
<1>5. ReadyInv'
  BY <1>3, <1>4 DEF ReadyInv
<1> QED
  BY <1>2, <1>3, <1>5 DEF RequestInv
\* What a client does: it may move the request that closes a twin to another slot.
LEMMA ClientStepKeeps ==
    ASSUME RequestInv, UNCHANGED <<regVars, instVars>>, NEW c \in Client,
           Poll(c) \/ Learn(c) \/ GiveUp(c) \/ \E op \in Ops, s \in Sid : Call(c, op, s)
    PROVE  RequestInv'
<1> DEFINE r == <<c, 0>>
<1>0. /\ MoreTypes /\ MoreTypes' /\ ClientTypes /\ r \in Slot
      /\ UNCHANGED <<closing, created, sessions, twins, home, state>>
  BY ClientStepTyped, SlotZero DEF RequestInv, MoreTypes, regVars, instVars
<1>1. Grows
  BY <1>0 DEF Grows, MoreTypes, TwinTypes
<1>2. /\ \A t \in Twin : state[t] = "closed" <=> state'[t] = "closed"
      /\ \A t \in Twin : WasReady(state, t) => WasReady(state', t)
  BY <1>0 DEF WasReady
<1>3. ASSUME NEW op \in Ops, NEW s \in Sid, NEW w \in AnyTimeout, Send(c, op, s, w),
             pc[c] # "asking", UNCHANGED told
      PROVE  RequestInv'
  <2>1. OnlyChanges(r) /\ request'[r].at = "wire"
    BY <1>0, <1>1, <1>3, SendOne
  <2>2. request[r].at = "free"
    BY <1>0, <1>3 DEF ClientTypes
  <2>3. ~Closes(r) /\ ~Closes(r)'
    BY <2>1, <2>2 DEF Closes, Held
  <2> QED
    BY <1>0, <1>2, <1>3, <2>1, <2>3, Quiet
<1>4. ASSUME NEW op \in Ops, NEW s \in Sid, Call(c, op, s) PROVE RequestInv'
  <2>1. PICK w \in AnyTimeout : Send(c, op, s, w)
    BY <1>4, RequestsAssumption DEF Call, AnyTimeout
  <2> QED
    BY <1>3, <1>4, <2>1 DEF Call
<1>5. CASE Poll(c)
  <2>1. creating[c] \in Sid /\ "twin_list" \in Ops /\ "none" \in AnyTimeout
    BY <1>0, <1>5 DEF Poll, ClientTypes, Ops, AnyTimeout
  <2>2. Send(c, "twin_list", creating[c], "none") /\ pc[c] # "asking" /\ UNCHANGED told
    BY <1>5 DEF Poll
  <2> QED
    BY <1>3, <2>1, <2>2
<1>6. CASE Learn(c)
  <2>1. /\ request[r].at = "answered" /\ request' = [request EXCEPT ![r] = Free]
        /\ Proceed(c, request[r].twin, request[r].answer)
    BY <1>6 DEF Learn
  <2>2. OnlyChanges(r) /\ request'[r].at = "free"
    BY <1>0, <1>1, <2>1, FreeTyped, OneTyped
  <2>3. ~Closes(r) /\ ~Closes(r)'
    BY <2>1, <2>2 DEF Closes, Held
  <2>4. \/ told' = told
        \/ /\ told' = [told EXCEPT ![c] = request[r].twin]
           /\ request[r].answer \in READY_STATES
    BY <2>1, Zenon DEF Proceed
  <2>5. request[r].answer \in READY_STATES => WasReady(state, request[r].twin)
    BY <1>0, <2>1 DEF RequestInv, ReadyInv
  <2>6. \A d \in Client : told'[d] = told[d] \/ WasReady(state', told'[d])
    BY <1>0, <2>4, <2>5 DEF ClientTypes
  <2> QED
    BY <1>0, <1>2, <2>2, <2>3, <2>6, Quiet
<1>7. CASE GiveUp(c)
  <2>0. UNCHANGED told
    BY <1>7 DEF GiveUp
  <2>1. CASE request[r].at \in {"answered", "lost"} /\ request' = [request EXCEPT ![r] = Free]
    <3>1. OnlyChanges(r) /\ request'[r].at = "free"
      BY <1>0, <1>1, <2>1, FreeTyped, OneTyped
    <3>2. ~Closes(r) /\ ~Closes(r)'
      BY <2>1, <3>1 DEF Closes, Held
    <3> QED
      BY <1>0, <1>2, <2>0, <3>1, <3>2, Quiet
  <2>2. ASSUME NEW n \in 1..MaxLate, request[<<c, n>>].at = "free",
               request' = [request EXCEPT ![<<c, n>>] = request[r], ![r] = Free]
        PROVE  RequestInv'
    <3> DEFINE l == <<c, n>>
    <3>1. l \in Slot /\ l # r
      BY RequestsAssumption DEF Slot
    <3>2. /\ request'[r].at = "free" /\ request'[l] = request[r]
          /\ \A q \in Slot : q = r \/ q = l \/ request'[q] = request[q]
      BY <1>0, <1>1, <2>2, <3>1, FreeTyped DEF ClientTypes
    <3> HIDE DEF l, r
    <3>3. /\ OneTwinPerId'
          /\ \A t \in 1..created' : state'[t] = "closed" => \A s \in Sid : twins'[s] # t
      BY <1>0, <1>2, FrameTwins
    <3>4. ReadyInv'
      BY <1>0, <2>0, <3>1, <3>2, <3>3 DEF RequestInv, ReadyInv, WasReady
    <3>5. HandlerInv'
      <4>0. HandlerInv /\ UNCHANGED <<sessions, twins, closing>>
        BY <1>0 DEF RequestInv
      <4>1. /\ ~Closes(l) /\ ~Closes(r)'
            /\ \A q \in Slot \ {r} : Closes(q)' <=> IF q = l THEN Closes(r) ELSE Closes(q)
        BY <2>2, <3>1, <3>2 DEF Closes, Held, l
      <4>2. \A q \in Slot : Closes(q)' => request'[q].twin \in closing'
        BY <1>0, <3>1, <3>2, <4>0, <4>1 DEF HandlerInv
      <4>3. \A q, p \in Slot :
               Closes(q)' /\ Closes(p)' /\ request'[q].twin = request'[p].twin => q = p
        BY <1>0, <3>1, <3>2, <4>0, <4>1 DEF HandlerInv
      <4>4. \A q \in Slot : Held(q, "twin_close")' => \A s \in Sid : twins'[s] # request'[q].twin
        BY <1>0, <3>1, <3>2, <4>0 DEF HandlerInv, Held
      <4>5. \A q \in Slot : Held(q, "unregister_session")' =>
               request'[q].sid \in Sid \ sessions' /\ twins'[request'[q].sid] = request'[q].twin
        BY <1>0, <3>1, <3>2, <4>0 DEF HandlerInv, Held, SessOf
      <4>6. ASSUME NEW s \in Sid \ sessions', twins'[s] # NoTwin
            PROVE  \E q \in Slot : Held(q, "unregister_session")' /\ request'[q].sid = s
        <5>1. PICK q \in Slot : Held(q, "unregister_session") /\ SessOf(q) = s
          BY <4>0, <4>6 DEF HandlerInv
        <5>2. CASE q = r
          BY <3>1, <3>2, <5>1, <5>2 DEF Held, SessOf
        <5>3. CASE q # r
          BY <2>2, <3>1, <3>2, <5>1, <5>3 DEF Held, SessOf, l
        <5> QED
          BY <5>2, <5>3
      <4> QED
        BY <4>2, <4>3, <4>4, <4>5, <4>6 DEF HandlerInv, SessOf
    <3> QED
      BY <1>0, <3>3, <3>4, <3>5 DEF RequestInv
  <2> QED
    <3>1. \/ request[r].at \in {"answered", "lost"} /\ request' = [request EXCEPT ![r] = Free]
          \/ \E n \in 1..MaxLate :
                /\ request[<<c, n>>].at = "free"
                /\ request' = [request EXCEPT ![<<c, n>>] = request[r], ![r] = Free]
      BY <1>7, Zenon DEF GiveUp
    <3> QED
      BY <2>1, <2>2, <3>1, Zenon
<1> QED
  BY <1>4, <1>5, <1>6, <1>7
\* An answer closes nothing, and what it says of the twin is what the route says.
LEMMA AnswerTells ==
    ASSUME ClientTypes, Grows, NEW r \in Slot, NEW t \in 0..created',
           NEW what \in States \cup Others, Answer(r, t, what)
    PROVE  /\ OnlyChanges(r) /\ request'[r].at \in {"answered", "free"} /\ ~Closes(r)'
           /\ request'[r].answer \in READY_STATES =>
                 request'[r].twin = t /\ what \in READY_STATES
<1>1. /\ OnlyChanges(r)
      /\ request'[r].at = (IF Awaited(r) THEN "answered" ELSE "free")
      /\ request'[r].answer \in {"lost", what}
      /\ request'[r].answer # "lost" => request'[r].twin = t
  BY AnswerOne
<1> QED
  BY <1>1 DEF Closes, Held, READY_STATES

\* The steps of routes and handlers that open, close and create nothing.
LEMMA QuietServiceKeeps ==
    ASSUME RequestInv, MoreTypes', Grows, NEW r \in Slot, UNCHANGED told,
           \/ Lose(r) \/ Gone(r) \/ TwinList(r) \/ TwinCall(r) \/ StopReturns(r)
           \/ InferenceCancelled(r) \/ InferenceTimesOut(r) \/ Inferred(r)
    PROVE  RequestInv'
<1> DEFINE t == twins[SessOf(r)]
<1>0. /\ ClientTypes /\ TwinTypes /\ request[r] \in RequestType /\ request[r].twin \in 0..created
      /\ request[r].at = "wire" => SessOf(r) \in Sid /\ t \in 0..created
  BY DEF RequestInv, MoreTypes, ClientTypes, TwinTypes, RequestType, SessOf
<1>w. {"410", "409", "404", "504", "open", "running"} \subseteq States \cup Others
  BY DEF States, Others, READY_STATES
<1>h. /\ \A u \in Twin : Shown(u) \in States \cup Others
      /\ \A u \in Twin : Shown(u) \in READY_STATES => WasReady(state, u)
  BY <1>0 DEF Shown, TwinTypes, States, READY_STATES, WasReady
<1>k. created \in Nat /\ \A u \in 0..created : u \in Twin \/ u = NoTwin
  BY <1>0, RequestsAssumption DEF TwinTypes, Twin, NoTwin
<1>1. ASSUME UNCHANGED <<regVars, closing>>, OnlyChanges(r), ~Closes(r), ~Closes(r)',
             \A u \in Twin : state[u] = "closed" <=> state'[u] = "closed",
             \A u \in Twin : WasReady(state, u) => WasReady(state', u),
             request'[r].at = "answered" /\ request'[r].answer \in READY_STATES =>
                WasReady(state', request'[r].twin)
      PROVE  RequestInv'
  BY <1>1, Quiet
<1>2. ASSUME UNCHANGED <<regVars, instVars>>, ~Closes(r), NEW u \in 0..created,
             NEW what \in States \cup Others, Answer(r, u, what),
             what \in READY_STATES => WasReady(state, u)
      PROVE  RequestInv'
  <2>1. UNCHANGED <<created, state, closing>> /\ u \in 0..created'
    BY <1>2 DEF regVars, instVars
  <2>2. /\ OnlyChanges(r) /\ ~Closes(r)'
        /\ request'[r].answer \in READY_STATES =>
              request'[r].twin = u /\ what \in READY_STATES
    BY <1>0, <1>2, <2>1, AnswerTells
  <2>3. request'[r].answer \in READY_STATES => WasReady(state', request'[r].twin)
    BY <1>2, <2>1, <2>2
  <2> QED
    BY <1>1, <1>2, <2>1, <2>2, <2>3
<1>3. request[r].at = "wire" => ~Closes(r)
  BY DEF Closes, Held
<1>4. CASE Lose(r)
  <2>1. request[r].at = "wire" /\ UNCHANGED <<regVars, instVars, state, closing>>
    BY <1>4 DEF Lose, instVars
  <2>2. OnlyChanges(r) /\ request'[r].at \in {"lost", "free"}
    BY <1>0, <1>4, LoseOne
  <2>3. ~Closes(r)'
    BY <2>2 DEF Closes, Held
  <2> QED
    BY <1>1, <1>3, <2>1, <2>2, <2>3
<1>5. CASE Gone(r)
  <2>1. /\ request[r].at = "wire" /\ UNCHANGED <<regVars, instVars>>
        /\ Answer(r, NoTwin, "410") /\ NoTwin \in 0..created
    BY <1>5, <1>k DEF Gone, NoTwin
  <2> QED
    BY <1>2, <1>3, <1>w, <2>1 DEF WasReady
<1>6. CASE TwinList(r)
  <2>1. /\ request[r].at = "wire" /\ UNCHANGED <<regVars, instVars>>
        /\ Answer(r, t, IF t = NoTwin THEN "404" ELSE Shown(t)) /\ t \in 0..created
    BY <1>0, <1>6 DEF TwinList, Forwarded, Arrives
  <2>2. /\ (IF t = NoTwin THEN "404" ELSE Shown(t)) \in States \cup Others
        /\ (IF t = NoTwin THEN "404" ELSE Shown(t)) \in READY_STATES => WasReady(state, t)
    BY <1>k, <1>w, <1>h, <2>1 DEF READY_STATES
  <2> QED
    BY <1>2, <1>3, <2>1, <2>2
<1>7. CASE TwinCall(r)
  <2>0. /\ request[r].at = "wire" /\ t \in 0..created
        /\ UNCHANGED <<regVars, down, closing, created>>
    BY <1>0, <1>7 DEF TwinCall, Forwarded, Arrives, regVars
  <2>1. CASE Refusal(r, t) # "none" /\ Answer(r, t, Refusal(r, t)) /\ UNCHANGED state
    <3>1. Refusal(r, t) \in {"404", "409"}
      BY <2>1 DEF Refusal
    <3>2. Refusal(r, t) \in States \cup Others /\ Refusal(r, t) \notin READY_STATES
      BY <1>w, <3>1 DEF READY_STATES
    <3> QED
      BY <1>2, <1>3, <2>0, <2>1, <3>2 DEF instVars
  <2>2. Refusal(r, t) = "none" => t \in Twin /\ HasRuntime(t)
    BY <1>k, <2>0 DEF Refusal
  <2>3. ASSUME Refusal(r, t) = "none",
               \/ state' = state \/ state' = [state EXCEPT ![t] = "running"]
               \/ state' = [state EXCEPT ![t] = "stopped"]
        PROVE  /\ \A u \in Twin : state[u] = "closed" <=> state'[u] = "closed"
               /\ \A u \in Twin : WasReady(state, u) => WasReady(state', u)
               /\ WasReady(state', t)
    BY <1>0, <2>2, <2>3 DEF TwinTypes, HasRuntime, READY_STATES, WasReady
  <2>4. CASE /\ Refusal(r, t) = "none" /\ Hold(r, t)
             /\ request[r].op \in {"stop", "get_inference"}
             /\ state' = state \/ state' = [state EXCEPT ![t] = "stopped"]
    <3>1. /\ OnlyChanges(r) /\ request'[r].at = "handler" /\ request'[r].op = request[r].op
      BY <1>0, <2>0, <2>4, HoldOne
    <3>2. ~Closes(r)'
      BY <2>4, <3>1 DEF Closes, Held
    <3> QED
      BY <1>1, <1>3, <2>0, <2>3, <2>4, <3>1, <3>2
  <2>5. CASE /\ Refusal(r, t) = "none"
             /\ state' = state \/ state' = [state EXCEPT ![t] = "running"]
             /\ Answer(r, t, IF request[r].op = "start" THEN "running" ELSE Shown(t))
    <3>1. (IF request[r].op = "start" THEN "running" ELSE Shown(t)) \in States \cup Others
      BY <1>w, <1>h, <2>2, <2>5
    <3>2. /\ OnlyChanges(r) /\ ~Closes(r)'
          /\ request'[r].answer \in READY_STATES => request'[r].twin = t
      BY <1>0, <2>0, <2>5, <3>1, AnswerTells
    <3> QED
      BY <1>1, <1>3, <2>0, <2>3, <2>5, <3>2
  <2> QED
    BY <1>7, <2>1, <2>4, <2>5, Zenon DEF TwinCall
<1>8. CASE StopReturns(r)
  <2>1. /\ request[r].at = "handler" /\ ~Closes(r) /\ UNCHANGED <<regVars, instVars>>
        /\ Answer(r, request[r].twin, Shown(request[r].twin))
    BY <1>8 DEF StopReturns, Held, Closes
  <2>2. request[r].twin \in Twin
    BY <1>0, <1>k, <2>1 DEF ClientTypes
  <2> QED
    BY <1>0, <1>2, <1>h, <2>1, <2>2
<1>9. ASSUME Held(r, "get_inference"), UNCHANGED <<regVars, instVars>>, Cancel(r)
      PROVE  RequestInv'
  <2>1. OnlyChanges(r) /\ request'[r].at = "cancelled"
    BY <1>0, <1>9, CancelOne
  <2>2. ~Closes(r) /\ ~Closes(r)'
    BY <1>9, <2>1 DEF Held, Closes
  <2> QED
    BY <1>1, <1>9, <2>1, <2>2 DEF instVars
<1>10. CASE InferenceCancelled(r)
  BY <1>9, <1>10 DEF InferenceCancelled
<1>11. CASE InferenceTimesOut(r)
  BY <1>9, <1>11 DEF InferenceTimesOut
<1>12. CASE Inferred(r)
  <2>1. PICK what \in {"open", "409", "504"} : Answer(r, request[r].twin, what)
    BY <1>12 DEF Inferred
  <2>2. ~Closes(r) /\ UNCHANGED <<regVars, instVars>>
    BY <1>12 DEF Inferred, Held, Closes
  <2>3. what \in States \cup Others /\ what \notin READY_STATES
    BY <1>w DEF READY_STATES
  <2> QED
    BY <1>0, <1>2, <2>1, <2>2, <2>3
<1> QED
  BY <1>4, <1>5, <1>6, <1>7, <1>8, <1>10, <1>11, <1>12
\* A session that is opened had no twin that is being closed.
LEMMA RegisterKeeps ==
    ASSUME RequestInv, MoreTypes', Grows, NEW r \in Slot, RegisterSession(r)
    PROVE  RequestInv'
<1>0. /\ ClientTypes /\ NoTwin \in 0..created' /\ TypeOK' /\ SessOf(r) \in Sid
      /\ request[r].at = "wire" /\ Answer(r, NoTwin, "open")
      /\ UNCHANGED <<twins, created, home, state, closing, told>>
  BY TypesEnough DEF RegisterSession, Arrives, RequestInv, MoreTypes, ClientTypes, SessOf,
       Grows, NoTwin, instVars, clientVars
<1>1. "open" \in States \cup Others /\ "open" \notin READY_STATES
  BY DEF Others, READY_STATES
<1>2. /\ OnlyChanges(r) /\ request'[r].at \in {"answered", "free"} /\ ~Closes(r)'
      /\ request'[r].answer \notin READY_STATES
  BY <1>0, <1>1, AnswerTells
<1>3. /\ sessions' \subseteq sessions \cup {SessOf(r)} /\ sessions \subseteq sessions'
      /\ SessOf(r) \in sessions' \ sessions =>
            \A q \in Slot : Held(q, "unregister_session") => SessOf(q) # SessOf(r)
  BY DEF RegisterSession
<1>4. SessOf(r) \in sessions' \ sessions => twins[SessOf(r)] = NoTwin
  BY <1>0, <1>3 DEF RequestInv, HandlerInv
<1>5. ReadyInv'
  <2>1. /\ \A c \in Client : WasReady(state', told'[c])
        /\ \A q \in Slot : request'[q].at = "answered" /\ request'[q].answer \in READY_STATES =>
              WasReady(state', request'[q].twin)
    BY <1>0, <1>2, FrameReady
  <2> QED
    BY <1>0, <2>1 DEF ReadyInv, RequestInv
<1>6. OneTwinPerId'
  <2>1. \A t \in 1..created : (\A s \in sessions' : twins[s] # t) <=> (\A s \in sessions : twins[s] # t)
    BY <1>3, <1>4 DEF NoTwin
  <2> QED
    BY <1>0, <2>1 DEF RequestInv, OneTwinPerId
<1>7. HandlerInv'
  <2>0. HandlerInv /\ ~Closes(r)
    BY <1>0 DEF RequestInv, Closes, Held
  <2>1. \A q \in Slot : /\ Closes(q)' <=> Closes(q)
                        /\ Held(q, "twin_close")' <=> Held(q, "twin_close")
                        /\ Held(q, "unregister_session")' <=> Held(q, "unregister_session")
    BY <1>0, <1>2, <2>0 DEF OnlyChanges, Closes, Held
  <2>2. \A q \in Slot : Closes(q) => request'[q] = request[q]
    BY <1>2, <2>0 DEF OnlyChanges
  <2>3. \A q \in Slot : Held(q, "unregister_session") => request[q].sid \in Sid \ sessions'
    BY <1>3, <2>0 DEF HandlerInv, SessOf
  <2>4. \A s \in Sid \ sessions' : twins'[s] # NoTwin =>
          \E q \in Slot : Held(q, "unregister_session")' /\ request'[q].sid = s
    BY <1>0, <1>3, <2>0, <2>1, <2>2 DEF HandlerInv, SessOf, Closes
  <2> QED
    BY <1>0, <2>0, <2>1, <2>2, <2>3, <2>4 DEF HandlerInv, SessOf, Closes
<1> QED
  BY <1>5, <1>6, <1>7 DEF RequestInv
\* A twin that is created is the only one, and its session is open.
LEMMA CreateKeeps ==
    ASSUME RequestInv, MoreTypes', Grows, NEW r \in Slot, TwinCreate(r)
    PROVE  RequestInv'
<1> DEFINE s == SessOf(r)
           n == created + 1
<1>0. /\ ClientTypes /\ TwinTypes /\ NoTwin \in 0..created' /\ TypeOK' /\ s \in Sid /\ s \in sessions
      /\ request[r].at = "wire" /\ ~Closes(r) /\ twins[s] \in 0..created
      /\ UNCHANGED <<sessions, told, state, closing>>
  BY TypesEnough DEF TwinCreate, Forwarded, Arrives, RequestInv, MoreTypes, ClientTypes, SessOf,
       TwinTypes, Grows, NoTwin, instVars, clientVars, regVars, Closes, Held
<1>k. created \in Nat /\ \A u \in 0..created : u \in Twin \/ u = NoTwin
  BY <1>0, RequestsAssumption DEF TwinTypes, Twin, NoTwin
<1>w. {"409", "initializing"} \subseteq (States \cup Others) \ READY_STATES
  BY DEF States, Others, READY_STATES
<1>1. CASE Answer(r, NoTwin, "409") /\ UNCHANGED <<regVars, instVars>>
  <2>1. /\ OnlyChanges(r) /\ ~Closes(r)' /\ request'[r].answer \notin READY_STATES
    BY <1>0, <1>1, <1>w, AnswerTells
  <2> QED
    BY <1>0, <1>1, <2>1, Quiet
<1>2. CASE twins[s] # NoTwin /\ Answer(r, twins[s], Shown(twins[s])) /\ UNCHANGED <<regVars, instVars>>
  <2>1. twins[s] \in Twin /\ twins[s] \in 0..created'
    BY <1>0, <1>2, <1>k DEF regVars
  <2>2. /\ Shown(twins[s]) \in States \cup Others
        /\ Shown(twins[s]) \in READY_STATES => WasReady(state, twins[s])
    BY <1>0, <2>1 DEF Shown, TwinTypes, States, READY_STATES, WasReady
  <2>3. /\ OnlyChanges(r) /\ ~Closes(r)'
        /\ request'[r].answer \in READY_STATES =>
              request'[r].twin = twins[s] /\ Shown(twins[s]) \in READY_STATES
    BY <1>0, <1>2, <2>1, <2>2, AnswerTells
  <2> QED
    BY <1>0, <1>2, <2>2, <2>3, Quiet
<1>3. CASE /\ Owner(s) /\ twins[s] = NoTwin
           /\ created < MaxTwins /\ created' = created + 1
           /\ twins' = [twins EXCEPT ![s] = created']
           /\ home' = [home EXCEPT ![created'] = s]
           /\ Answer(r, created', "initializing")
  <2>1. /\ OnlyChanges(r) /\ ~Closes(r)' /\ request'[r].answer \notin READY_STATES
    BY <1>0, <1>3, <1>k, <1>w, AnswerTells
  <2>2. /\ n \in Twin /\ state[n] = "initializing" /\ n \notin closing
        /\ \A u \in 1..created' : u \in 1..created \/ u = n
        /\ \A u \in 0..created : u # n
    BY <1>0, <1>3, <1>k, RequestsAssumption DEF TwinTypes, Twin
  <2>3. /\ twins'[s] = n /\ \A o \in Sid \ {s} : twins'[o] = NoTwin /\ twins[o] = NoTwin
        /\ \A o \in Sid : twins[o] = NoTwin
        /\ home'[n] = s
    BY <1>0, <1>3, <2>2 DEF TwinTypes, Owner
  <2>4. OneTwinPerId'
    <3>1. \A t \in 1..created' :
             t \in closing' \/ state'[t] = "closed" <=> \A o \in sessions' : twins'[o] # t
      <4> TAKE t \in 1..created'
      <4>1. CASE t = n
        BY <1>0, <2>2, <2>3, <4>1
      <4>2. CASE t \in 1..created
        <5>1. t \in closing \/ state[t] = "closed"
          BY <1>0, <2>3, <4>2, <1>k DEF RequestInv, OneTwinPerId, NoTwin, TwinTypes
        <5>2. \A o \in sessions : twins'[o] # t
          BY <1>0, <2>2, <2>3, <4>2, <1>k DEF NoTwin, TwinTypes
        <5> QED
          BY <1>0, <5>1, <5>2
      <4> QED
        BY <2>2, <4>1, <4>2
    <3> QED
      BY <1>0, <2>3, <3>1 DEF OneTwinPerId
  <2>5. HandlerInv'
    <3>0. HandlerInv
      BY DEF RequestInv
    <3>1. \A q \in Slot : /\ Closes(q)' <=> Closes(q)
                          /\ Held(q, "twin_close")' <=> Held(q, "twin_close")
                          /\ Held(q, "unregister_session")' <=> Held(q, "unregister_session")
      BY <1>0, <2>1 DEF OnlyChanges, Closes, Held
    <3>2. \A q \in Slot : Closes(q) => request'[q] = request[q] /\ request[q].twin \in 1..created
      BY <1>0, <2>1, <3>0 DEF OnlyChanges, HandlerInv, TwinTypes
    <3>3. \A q \in Slot : Held(q, "twin_close") => \A o \in Sid : twins'[o] # request[q].twin
      BY <2>2, <2>3, <3>2, <1>k DEF Closes, NoTwin
    <3>4. \A q \in Slot : ~Held(q, "unregister_session")
      BY <2>3, <3>0, <3>2, <1>k DEF HandlerInv, Closes, NoTwin
    <3>5. \A o \in Sid \ sessions' : twins'[o] = NoTwin
      BY <1>0, <2>3
    <3> QED
      BY <1>0, <3>0, <3>1, <3>2, <3>3, <3>4, <3>5 DEF HandlerInv, SessOf, Closes
  <2>6. ReadyInv'
    <3>1. /\ \A c \in Client : WasReady(state', told'[c])
          /\ \A q \in Slot : request'[q].at = "answered" /\ request'[q].answer \in READY_STATES =>
                WasReady(state', request'[q].twin)
      BY <1>0, <2>1, FrameReady
    <3>2. \A t \in 1..created' : state'[t] = "closed" => \A o \in Sid : twins'[o] # t
      BY <1>0, <1>k, <2>2, <2>3 DEF NoTwin
    <3> QED
      BY <3>1, <3>2 DEF ReadyInv
  <2> QED
    BY <2>4, <2>5, <2>6 DEF RequestInv
<1> QED
  BY <1>1, <1>2, <1>3, Zenon DEF TwinCreate
\* A close takes a twin from a session that is open, so that nobody closes it yet.
LEMMA BeginCloseKeeps ==
    ASSUME RequestInv, MoreTypes', Grows, NEW r \in Slot, TwinClose(r) \/ UnregisterSession(r)
    PROVE  RequestInv'
<1> DEFINE s == SessOf(r)
           t == twins[s]
<1>0. /\ ClientTypes /\ TwinTypes /\ TypeOK' /\ s \in Sid /\ s \in sessions
      /\ request[r].at = "wire" /\ ~Closes(r) /\ t \in 0..created /\ t \in 0..created'
      /\ UNCHANGED <<created, home, state, told>> /\ BeginClose(r)
  BY TypesEnough DEF TwinClose, UnregisterSession, BeginClose, Forwarded, Arrives, RequestInv,
       MoreTypes, ClientTypes, SessOf, TwinTypes, Grows, clientVars, Closes, Held
<1>1. \/ request[r].op = "twin_close" /\ UNCHANGED sessions /\ twins' = [twins EXCEPT ![s] = NoTwin]
      \/ /\ request[r].op = "unregister_session" /\ UNCHANGED twins
         /\ sessions' = sessions \ {s}
  BY DEF TwinClose, UnregisterSession, Forwarded, Arrives
<1>k. created \in Nat /\ NoTwin \notin 1..created
  BY <1>0 DEF TwinTypes, NoTwin
<1>p. HandlerInv /\ OneTwinPerId /\ ReadyInv
  BY DEF RequestInv
<1>2. CASE t = NoTwin
  <2>1. Answer(r, t, "closed") /\ UNCHANGED closing
    BY <1>0, <1>2 DEF BeginClose
  <2>2. "closed" \in States \cup Others /\ "closed" \notin READY_STATES
    BY DEF States, READY_STATES
  <2>3. OnlyChanges(r) /\ ~Closes(r)' /\ request'[r].answer \notin READY_STATES
    BY <1>0, <2>1, <2>2, AnswerTells
  <2>4. UNCHANGED twins
    BY <1>0, <1>1, <1>2 DEF TwinTypes
  <2>5. CASE UNCHANGED sessions
    BY <1>0, <2>1, <2>3, <2>4, <2>5, Quiet DEF regVars
  <2>6. CASE sessions' = sessions \ {s}
    <3>1. OneTwinPerId'
      BY <1>0, <1>2, <1>k, <1>p, <2>1, <2>4, <2>6 DEF OneTwinPerId
    <3>2. HandlerInv'
      BY <1>0, <1>2, <1>p, <2>1, <2>3, <2>4, <2>6 DEF HandlerInv, OnlyChanges, Closes, Held, SessOf
    <3>3. ReadyInv'
      <4>1. /\ \A c \in Client : WasReady(state', told'[c])
            /\ \A q \in Slot : request'[q].at = "answered" /\ request'[q].answer \in READY_STATES =>
                  WasReady(state', request'[q].twin)
        BY <1>0, <2>3, FrameReady
      <4> QED
        BY <1>0, <1>p, <2>4, <4>1 DEF ReadyInv
    <3> QED
      BY <3>1, <3>2, <3>3 DEF RequestInv
  <2> QED
    BY <1>1, <2>5, <2>6
<1>3. CASE t # NoTwin
  <2>1. Hold(r, t) /\ closing' = closing \cup {t}
    BY <1>0, <1>3 DEF BeginClose
  <2>2. /\ OnlyChanges(r) /\ request'[r].at = "handler" /\ request'[r].twin = t
        /\ request'[r].op = request[r].op /\ request'[r].sid = s
    BY <1>0, <2>1, HoldOne DEF SessOf
  <2>3. /\ t \in 1..created /\ t \notin closing /\ state[t] # "closed"
        /\ \A o \in Sid \ {s} : twins[o] # t
    BY <1>0, <1>3, <1>k, <1>p DEF OneTwinPerId, NoTwin
  <2>4. \A q \in Slot : Closes(q) => q # r /\ request[q].twin # t
    BY <1>0, <1>p, <2>3 DEF HandlerInv
  <2>5. /\ \A o \in Sid \ {s} : twins'[o] = twins[o]
        /\ \A o \in sessions' : twins'[o] # t
        /\ twins'[s] \in {t, NoTwin}
    BY <1>0, <1>1, <1>3, <2>3 DEF TwinTypes
  <2>6. OneTwinPerId'
    <3>1. \A u \in 1..created' :
             u \in closing' \/ state'[u] = "closed" <=> \A o \in sessions' : twins'[o] # u
      <4> TAKE u \in 1..created'
      <4>1. CASE u = t
        BY <2>1, <2>5, <4>1
      <4>2. CASE u # t
        <5>1. u \in closing' \/ state'[u] = "closed" <=> \A o \in sessions : twins[o] # u
          BY <1>0, <1>p, <2>1, <4>2 DEF OneTwinPerId
        <5>2. (\A o \in sessions : twins[o] # u) <=> (\A o \in sessions' : twins'[o] # u)
          BY <1>0, <1>1, <1>k, <2>5, <4>2 DEF TwinTypes
        <5> QED
          BY <5>1, <5>2
      <4> QED
        BY <4>1, <4>2
    <3>2. \A o \in Sid : twins'[o] # NoTwin => twins'[o] = twins[o]
      BY <1>0, <1>3, <2>5
    <3> QED
      BY <1>0, <1>p, <3>1, <3>2 DEF OneTwinPerId
  <2>7. ReadyInv'
    <3>1. /\ \A c \in Client : WasReady(state', told'[c])
          /\ \A q \in Slot : request'[q].at = "answered" /\ request'[q].answer \in READY_STATES =>
                WasReady(state', request'[q].twin)
      BY <1>0, <2>2, FrameReady
    <3>2. \A u \in 1..created' : state'[u] = "closed" => \A o \in Sid : twins'[o] # u
      BY <1>0, <1>k, <1>p, <2>5 DEF ReadyInv
    <3> QED
      BY <3>1, <3>2 DEF ReadyInv
  <2>8. HandlerInv'
    <3>1. \A q \in Slot \ {r} : /\ Closes(q)' <=> Closes(q)
                                /\ Held(q, "twin_close")' <=> Held(q, "twin_close")
                                /\ Held(q, "unregister_session")' <=> Held(q, "unregister_session")
                                /\ request'[q] = request[q]
      BY <2>2 DEF OnlyChanges, Closes, Held
    <3>2. \A q \in Slot : Closes(q)' => request'[q].twin \in closing'
      BY <1>p, <2>1, <2>2, <3>1 DEF HandlerInv
    <3>3. \A q, p \in Slot :
             Closes(q)' /\ Closes(p)' /\ request'[q].twin = request'[p].twin => q = p
      BY <1>p, <2>2, <2>4, <3>1 DEF HandlerInv
    <3>4. \A q \in Slot : Held(q, "twin_close")' => \A o \in Sid : twins'[o] # request'[q].twin
      <4>1. ASSUME NEW q \in Slot \ {r}, Held(q, "twin_close")
            PROVE  \A o \in Sid : twins'[o] # request[q].twin
        <5>1. /\ request[q].twin \in closing /\ \A o \in Sid : twins[o] # request[q].twin
          BY <1>p, <4>1 DEF HandlerInv, Closes
        <5> QED
          BY <1>0, <1>k, <2>3, <2>5, <5>1 DEF TwinTypes
      <4>2. ASSUME Held(r, "twin_close")' PROVE \A o \in Sid : twins'[o] # t
        <5>1. twins' = [twins EXCEPT ![s] = NoTwin]
          BY <1>1, <2>2, <4>2 DEF Held
        <5> QED
          BY <1>0, <1>3, <2>3, <5>1 DEF TwinTypes
      <4> QED
        BY <2>2, <3>1, <4>1, <4>2
    <3>5. \A q \in Slot : Held(q, "unregister_session")' =>
             request'[q].sid \in Sid \ sessions' /\ twins'[request'[q].sid] = request'[q].twin
      <4>1. ASSUME NEW q \in Slot \ {r}, Held(q, "unregister_session")
            PROVE  request[q].sid \in Sid \ sessions' /\ twins'[request[q].sid] = request[q].twin
        <5>1. request[q].sid \in Sid \ sessions /\ twins[request[q].sid] = request[q].twin
          BY <1>p, <4>1 DEF HandlerInv, SessOf
        <5> QED
          BY <1>0, <1>1, <2>5, <5>1
      <4>2. ASSUME Held(r, "unregister_session")' PROVE s \in Sid \ sessions' /\ twins'[s] = t
        BY <1>0, <1>1, <2>2, <4>2 DEF Held
      <4> QED
        BY <2>2, <3>1, <4>1, <4>2
    <3>6. ASSUME NEW o \in Sid \ sessions', twins'[o] # NoTwin
          PROVE  \E q \in Slot : Held(q, "unregister_session")' /\ request'[q].sid = o
      <4>1. CASE o = s
        BY <1>0, <1>1, <2>2, <3>6, <4>1 DEF Held
      <4>2. CASE o # s
        <5>1. o \in Sid \ sessions /\ twins[o] # NoTwin
          BY <1>1, <2>5, <3>6, <4>2
        <5>2. PICK q \in Slot : Held(q, "unregister_session") /\ SessOf(q) = o
          BY <1>p, <5>1 DEF HandlerInv
        <5>3. q # r
          BY <1>0, <5>2 DEF Held
        <5> QED
          BY <3>1, <5>2, <5>3 DEF SessOf
      <4> QED
        BY <4>1, <4>2
    <3> QED
      BY <3>2, <3>3, <3>4, <3>5, <3>6 DEF HandlerInv, SessOf
  <2> QED
    BY <2>6, <2>7, <2>8 DEF RequestInv
<1> QED
  BY <1>2, <1>3
\* The end of a close: no session knows of the twin any more.
LEMMA CloseEndsKeeps ==
    ASSUME RequestInv, MoreTypes', Grows, NEW r \in Slot, CloseEnds(r)
    PROVE  RequestInv'
<1> DEFINE s == SessOf(r)
           t == request[r].twin
<1>0. /\ ClientTypes /\ TwinTypes /\ TypeOK' /\ t \in 0..created /\ t \in 0..created'
      /\ UNCHANGED <<created, sessions, home, told>> /\ Closes(r)
      /\ Answer(r, t, "closed") /\ state' = [state EXCEPT ![t] = "closed"]
      /\ closing' = closing \ {t}
      /\ twins' = IF Held(r, "twin_close") THEN twins ELSE [twins EXCEPT ![s] = NoTwin]
  BY TypesEnough DEF CloseEnds, RequestInv, MoreTypes, ClientTypes, RequestType, clientVars, Closes
<1>k. created \in Nat /\ NoTwin \notin 1..created /\ 1..created \subseteq Twin
  BY <1>0, RequestsAssumption DEF TwinTypes, NoTwin, Twin
<1>p. HandlerInv /\ OneTwinPerId /\ ReadyInv
  BY DEF RequestInv
<1>1. OnlyChanges(r) /\ ~Closes(r)' /\ request'[r].answer \notin READY_STATES
  <2>1. "closed" \in States \cup Others /\ "closed" \notin READY_STATES
    BY DEF States, READY_STATES
  <2> QED
    BY <1>0, <2>1, AnswerTells
<1>2. t \in closing /\ t \in 1..created /\ state'[t] = "closed"
  BY <1>0, <1>k, <1>p DEF HandlerInv, TwinTypes
<1>3. \A q \in Slot \ {r} : Closes(q) => request[q].twin # t
  BY <1>0, <1>p DEF HandlerInv
<1>4. /\ \A o \in Sid : twins'[o] # t
      /\ \A o \in Sid : twins'[o] = twins[o] \/ (twins[o] = t /\ twins'[o] = NoTwin)
  <2>1. CASE Held(r, "twin_close")
    BY <1>0, <1>p, <2>1 DEF HandlerInv
  <2>2. CASE ~Held(r, "twin_close")
    <3>1. Held(r, "unregister_session")
      BY <1>0, <2>2 DEF Closes
    <3>2. s \in Sid /\ twins[s] = t
      BY <1>p, <3>1 DEF HandlerInv
    <3>3. \A o \in Sid \ {s} : twins[o] # t
      BY <1>2, <1>k, <1>p, <3>2 DEF OneTwinPerId
    <3> QED
      BY <1>0, <1>2, <1>k, <2>2, <3>2, <3>3 DEF TwinTypes
  <2> QED
    BY <2>1, <2>2
<1>5. OneTwinPerId'
  <2>1. \A u \in 1..created' :
           u \in closing' \/ state'[u] = "closed" <=> \A o \in sessions' : twins'[o] # u
    <3> TAKE u \in 1..created'
    <3>1. CASE u = t
      BY <1>0, <1>2, <1>4, <3>1 DEF TwinTypes
    <3>2. CASE u # t
      <4>1. u \in closing' \/ state'[u] = "closed" <=> \A o \in sessions : twins[o] # u
        BY <1>0, <1>k, <1>p, <3>2 DEF OneTwinPerId, TwinTypes
      <4>2. \A o \in Sid : twins[o] # u <=> twins'[o] # u
        BY <1>0, <1>4, <1>k, <3>2
      <4> QED
        BY <1>0, <4>1, <4>2 DEF TwinTypes
    <3> QED
      BY <3>1, <3>2
  <2>2. \A o \in Sid : twins'[o] # NoTwin => twins'[o] = twins[o]
    BY <1>4
  <2> QED
    BY <1>0, <1>p, <2>1, <2>2 DEF OneTwinPerId
<1>6. ReadyInv'
  <2>1. \A u \in Twin : WasReady(state, u) => WasReady(state', u)
    BY <1>0 DEF TwinTypes, WasReady
  <2>2. /\ \A c \in Client : WasReady(state', told'[c])
        /\ \A q \in Slot : request'[q].at = "answered" /\ request'[q].answer \in READY_STATES =>
              WasReady(state', request'[q].twin)
    BY <1>0, <1>1, <2>1, FrameReady
  <2>3. \A u \in 1..created' : state'[u] = "closed" => \A o \in Sid : twins'[o] # u
    BY <1>0, <1>4, <1>k, <1>p DEF ReadyInv, TwinTypes
  <2> QED
    BY <2>2, <2>3 DEF ReadyInv
<1>7. HandlerInv'
  <2>1. \A q \in Slot \ {r} : /\ Closes(q)' <=> Closes(q)
                              /\ Held(q, "twin_close")' <=> Held(q, "twin_close")
                              /\ Held(q, "unregister_session")' <=> Held(q, "unregister_session")
                              /\ request'[q] = request[q]
    BY <1>1 DEF OnlyChanges, Closes, Held
  <2>2. ~Held(r, "twin_close")' /\ ~Held(r, "unregister_session")'
    BY <1>1 DEF Closes
  <2>3. \A q \in Slot : Closes(q)' => request'[q].twin \in closing'
    BY <1>0, <1>1, <1>3, <1>p, <2>1 DEF HandlerInv
  <2>4. \A q, p \in Slot :
           Closes(q)' /\ Closes(p)' /\ request'[q].twin = request'[p].twin => q = p
    BY <1>1, <1>p, <2>1 DEF HandlerInv
  <2>5. \A q \in Slot : Held(q, "twin_close")' => \A o \in Sid : twins'[o] # request'[q].twin
    <3>1. ASSUME NEW q \in Slot \ {r}, Held(q, "twin_close")
          PROVE  \A o \in Sid : twins'[o] # request[q].twin
      <4>1. request[q].twin \in closing /\ \A o \in Sid : twins[o] # request[q].twin
        BY <1>p, <3>1 DEF HandlerInv, Closes
      <4> QED
        BY <1>0, <1>4, <1>k, <4>1 DEF TwinTypes
    <3> QED
      BY <2>1, <2>2, <3>1
  <2>6. \A q \in Slot : Held(q, "unregister_session")' =>
           request'[q].sid \in Sid \ sessions' /\ twins'[request'[q].sid] = request'[q].twin
    <3>1. ASSUME NEW q \in Slot \ {r}, Held(q, "unregister_session")
          PROVE  request[q].sid \in Sid \ sessions' /\ twins'[request[q].sid] = request[q].twin
      <4>1. /\ request[q].sid \in Sid \ sessions /\ twins[request[q].sid] = request[q].twin
            /\ request[q].twin # t
        BY <1>3, <1>p, <3>1 DEF HandlerInv, SessOf, Closes
      <4> QED
        BY <1>0, <1>4, <4>1
    <3> QED
      BY <2>1, <2>2, <3>1
  <2>7. ASSUME NEW o \in Sid \ sessions', twins'[o] # NoTwin
        PROVE  \E q \in Slot : Held(q, "unregister_session")' /\ request'[q].sid = o
    <3>1. o \in Sid \ sessions /\ twins[o] # NoTwin /\ twins[o] # t
      BY <1>0, <1>4, <2>7
    <3>2. PICK q \in Slot : Held(q, "unregister_session") /\ SessOf(q) = o
      BY <1>p, <3>1 DEF HandlerInv
    <3>3. q # r
      BY <1>p, <3>1, <3>2 DEF HandlerInv
    <3> QED
      BY <2>1, <3>2, <3>3 DEF SessOf
  <2> QED
    BY <2>3, <2>4, <2>5, <2>6, <2>7 DEF HandlerInv, SessOf
<1> QED
  BY <1>5, <1>6, <1>7 DEF RequestInv

\* The invariant holds in the first state.
LEMMA RequestsInit == Init => RequestInv
<1> SUFFICES ASSUME Init PROVE RequestInv
  OBVIOUS
<1>1. MaxTwins \in Nat /\ (CHOOSE s \in Sid : TRUE) \in Sid
  BY RequestsAssumption
<1>2. created = 0 /\ 1..created = {} /\ 0..created = {0}
  BY DEF Init
<1>3. Free \in RequestType /\ Free.at = "free"
  BY <1>2 DEF Free, RequestType, Ops, Others, NoTwin, AnyTimeout
<1>4. request = [r \in Slot |-> Free] /\ \A r \in Slot : request[r] = Free
  BY DEF Init
<1>5. ClientTypes
  BY <1>2, <1>3, <1>4, SlotZero DEF Init, ClientTypes, NoTwin
<1>6. TwinTypes
  BY <1>1, <1>2 DEF Init, TwinTypes, NoTwin, States, READY_STATES
<1>7. OneTwinPerId
  BY <1>2, <1>5, <1>6, TypesEnough DEF Init, OneTwinPerId, MoreTypes
<1>8. HandlerInv
  BY <1>3, <1>4 DEF Init, HandlerInv, Closes, Held
<1>9. ReadyInv
  BY <1>2, <1>3, <1>4 DEF Init, ReadyInv, WasReady
<1> QED
  BY <1>5, <1>6, <1>7, <1>8, <1>9 DEF RequestInv, MoreTypes

\* Every step keeps the invariant.
LEMMA RequestsNext == RequestInv /\ [Next]_vars => RequestInv'
<1> SUFFICES ASSUME RequestInv, [Next]_vars PROVE RequestInv'
  OBVIOUS
<1>1. ASSUME NEW c \in Client,
             Poll(c) \/ Learn(c) \/ GiveUp(c) \/ \E op \in Ops, s \in Sid : Call(c, op, s)
      PROVE  RequestInv'
  <2>1. UNCHANGED <<regVars, instVars>>
    BY <1>1 DEF Poll, Learn, GiveUp, Call
  <2> QED
    BY <1>1, <2>1, ClientStepKeeps
<1>2. ASSUME NEW r \in Slot, ServiceStep(r) PROVE RequestInv'
  <2>1. MoreTypes' /\ Grows
    BY <1>2, ServiceStepTyped DEF RequestInv
  <2>2. CASE \/ Lose(r) \/ Gone(r) \/ TwinList(r) \/ TwinCall(r) \/ StopReturns(r)
             \/ InferenceCancelled(r) \/ InferenceTimesOut(r) \/ Inferred(r)
    <3>1. UNCHANGED told
      BY <2>2 DEF Lose, Gone, TwinList, TwinCall, StopReturns, InferenceCancelled,
           InferenceTimesOut, Inferred, clientVars
    <3> QED
      BY <2>1, <2>2, <3>1, QuietServiceKeeps
  <2>3. CASE RegisterSession(r)
    BY <2>1, <2>3, RegisterKeeps
  <2>4. CASE TwinCreate(r)
    BY <2>1, <2>4, CreateKeeps
  <2>5. CASE TwinClose(r) \/ UnregisterSession(r)
    BY <2>1, <2>5, BeginCloseKeeps
  <2>6. CASE CloseEnds(r)
    BY <2>1, <2>6, CloseEndsKeeps
  <2> QED
    BY <1>2, <2>2, <2>3, <2>4, <2>5, <2>6 DEF ServiceStep, Handle, Handler
<1>3. ASSUME NEW t \in Twin, TwinStep(t) \/ RuntimeFails(t) PROVE RequestInv'
  <2>1. /\ MoreTypes' /\ UNCHANGED <<regVars, closing, request, clientVars>>
        /\ \A u \in Twin : state[u] = "closed" <=> state'[u] = "closed"
        /\ \A u \in Twin : WasReady(state, u) => WasReady(state', u)
    BY <1>3, TwinStepTyped DEF RequestInv
  <2>2. /\ OneTwinPerId'
        /\ \A u \in 1..created' : state'[u] = "closed" => \A s \in Sid : twins'[s] # u
    BY <2>1, FrameTwins
  <2>3. HandlerInv'
    BY <2>1 DEF RequestInv, HandlerInv, Closes, Held, SessOf, regVars
  <2>4. ReadyInv'
    <3>1. \A u \in 0..created : u \in Twin \/ u = NoTwin
      BY RequestsAssumption DEF RequestInv, MoreTypes, TwinTypes, Twin, NoTwin
    <3>2. \A u \in 0..created : WasReady(state, u) => WasReady(state', u)
      BY <2>1, <3>1 DEF WasReady
    <3>3. UNCHANGED <<told, request>> /\ ReadyInv /\ ClientTypes
      BY <2>1 DEF clientVars, RequestInv, MoreTypes
    <3> QED
      BY <2>2, <3>2, <3>3 DEF ReadyInv, ClientTypes, RequestType
  <2> QED
    BY <2>1, <2>2, <2>3, <2>4 DEF RequestInv
<1>4. CASE UNCHANGED vars
  <2>1. /\ UNCHANGED <<regVars, instVars, clientVars>>
        /\ UNCHANGED <<sessions, twins, created, home, state, down, closing>>
        /\ UNCHANGED <<request, pc, creating, told>>
    BY <1>4 DEF vars, regVars, instVars, clientVars
  <2>2. MoreTypes'
    BY <2>1 DEF RequestInv, MoreTypes, ClientTypes, TwinTypes, RequestType
  <2>3. OneTwinPerId' /\ HandlerInv' /\ ReadyInv'
    BY <2>1, <2>2, TypesEnough DEF RequestInv, OneTwinPerId, HandlerInv, ReadyInv, Closes, Held, SessOf
  <2> QED
    BY <2>2, <2>3 DEF RequestInv
<1> QED
  BY <1>1, <1>2, <1>3, <1>4 DEF Next, ServiceStep

-----------------------------------------------------------------------------
(***************************************************************************)
(* The requests implement TwinRegistry, with one id.                       *)
(***************************************************************************)
LEMMA RegistryInit == Init => R!Init
<1> SUFFICES ASSUME Init PROVE R!Init
  OBVIOUS
<1>1. 1..created = {} /\ closing = {} /\ \A t \in Twin : state[t] # "closed"
  BY DEF Init
<1>2. \A t \in Twin, s \in Sid : twins[s] # t
  BY DEF Init, Twin, NoTwin
<1>3. [t \in Twin |-> "id"] \in [Twin -> {"id"}]
  OBVIOUS
<1> QED
  BY <1>1, <1>2, <1>3 DEF R!Init

\* What neither creates, closes nor forgets a twin is no step of the registry.
LEMMA RegistryStutters ==
    ASSUME UNCHANGED <<twins, created, closing>>,
           \A t \in Twin : state[t] = "closed" <=> state'[t] = "closed"
    PROVE  UNCHANGED R!vars
BY DEF R!vars

\* A verb closes nothing.
LEMMA CallStutters ==
    ASSUME RequestInv, NEW r \in Slot, TwinCall(r)
    PROVE  UNCHANGED R!vars
<1>t. PICK t : t = twins[SessOf(r)]
  OBVIOUS
<1>1. UNCHANGED <<twins, created, closing>> /\ state \in [Twin -> States]
  BY DEF TwinCall, RequestInv, MoreTypes, TwinTypes, regVars
<1>2. \/ UNCHANGED state
      \/ HasRuntime(t) /\ (state' = [state EXCEPT ![t] = "stopped"] \/ state' = [state EXCEPT ![t] = "running"])
  BY <1>t DEF TwinCall, Refusal
<1>3. \A u \in Twin : state[u] = "closed" <=> state'[u] = "closed"
  BY <1>1, <1>2 DEF HasRuntime, READY_STATES
<1> QED
  BY <1>1, <1>3, RegistryStutters

\* A twin is created only if no session has the id.
LEMMA RegistryCreates ==
    ASSUME RequestInv, MoreTypes', NEW r \in Slot, TwinCreate(r)
    PROVE  R!Next \/ UNCHANGED R!vars
<1>t. PICK s, t : s = SessOf(r) /\ t = created + 1
  OBVIOUS
<1>0. TwinTypes /\ s \in Sid /\ NoTwin \notin Twin /\ created \in Nat
  BY <1>t DEF RequestInv, MoreTypes, ClientTypes, TwinTypes, TwinCreate, Forwarded, Arrives,
              SessOf, Twin, NoTwin
<1>1. CASE UNCHANGED <<regVars, instVars>>
  BY <1>1, RegistryStutters DEF regVars, instVars
<1>2. CASE ~UNCHANGED <<regVars, instVars>>
  <2>1. /\ Owner(s) /\ twins[s] = NoTwin /\ created < MaxTwins /\ created' = t
        /\ twins' = [twins EXCEPT ![s] = t] /\ UNCHANGED <<state, closing>>
    BY <1>2, <1>t DEF TwinCreate, instVars
  <2>2. t \in Twin /\ t \notin 1..created /\ 1..created' = (1..created) \cup {t}
    BY <1>0, <1>t, <2>1, RequestsAssumption DEF Twin
  <2>3. \A o \in Sid : twins[o] = NoTwin
    BY <2>1 DEF Owner
  <2>4. \A o \in Sid : twins'[o] = IF o = s THEN t ELSE NoTwin
    BY <1>0, <2>1, <2>3 DEF TwinTypes
  <2>5. {u \in Twin : \E o \in Sid : twins[o] = u} = {}
    BY <1>0, <2>3
  <2>6. {u \in Twin : \E o \in Sid : twins[o] = u}' = {t}
    BY <1>0, <2>2, <2>4
  <2>7. [u \in Twin |-> "id"] = [[u \in Twin |-> "id"] EXCEPT ![t] = "id"]
    OBVIOUS
  <2>8. R!Create(t, "id")
    BY <2>1, <2>2, <2>5, <2>6, <2>7 DEF R!Create
  <2> QED
    BY <2>2, <2>8 DEF R!Next
<1> QED
  BY <1>1, <1>2

\* A request closes a twin that its session knows and nobody closes yet.
LEMMA RegistryCloses ==
    ASSUME RequestInv, MoreTypes', NEW r \in Slot, TwinClose(r) \/ UnregisterSession(r)
    PROVE  R!Next \/ UNCHANGED R!vars
<1>t. PICK s, t : s = SessOf(r) /\ t = twins[s]
  OBVIOUS
<1>0. /\ TwinTypes /\ OneTwinPerId /\ s \in Sid /\ s \in sessions /\ created \in Nat
      /\ NoTwin \notin Twin /\ 1..created \subseteq Twin
  BY <1>t, RequestsAssumption
     DEF RequestInv, MoreTypes, ClientTypes, TwinTypes, TwinClose, UnregisterSession,
         Forwarded, Arrives, SessOf, Twin, NoTwin
<1>1. /\ UNCHANGED <<created, state>>
      /\ closing' = IF t = NoTwin THEN closing ELSE closing \cup {t}
      /\ UNCHANGED twins \/ twins' = [twins EXCEPT ![s] = NoTwin]
  BY <1>t DEF TwinClose, UnregisterSession, BeginClose
<1>2. CASE t = NoTwin
  <2>1. UNCHANGED twins
    BY <1>0, <1>1, <1>2, <1>t DEF TwinTypes
  <2> QED
    BY <1>1, <1>2, <2>1, RegistryStutters
<1>3. CASE t # NoTwin
  <2>1. t \in 1..created /\ t \in Twin
    BY <1>0, <1>3, <1>t DEF TwinTypes, NoTwin
  <2>2. t \notin closing /\ state[t] # "closed"
    BY <1>0, <1>t, <2>1 DEF OneTwinPerId
  <2>3. \A o \in Sid \ {s} : twins[o] = NoTwin
    BY <1>0, <1>3, <1>t DEF OneTwinPerId
  <2>4. closing' \cup {u \in Twin : state'[u] = "closed"}
           = (closing \cup {u \in Twin : state[u] = "closed"}) \cup {t}
    BY <1>1, <1>3
  <2>5. {u \in Twin : \E o \in Sid : twins[o] = u} = {t}
    BY <1>0, <1>t, <2>1, <2>3
  <2>6. {u \in Twin : \E o \in Sid : twins[o] = u}' \in {{t}, {}}
    <3>1. CASE UNCHANGED twins
      BY <2>5, <3>1
    <3>2. CASE twins' = [twins EXCEPT ![s] = NoTwin]
      <4>1. \A o \in Sid : twins'[o] = NoTwin
        BY <1>0, <2>3, <3>2 DEF TwinTypes
      <4> QED
        BY <1>0, <4>1
    <3> QED
      BY <1>1, <3>1, <3>2
  <2>7. R!Close(t)
    <3>1. t \in {t} \ (closing \cup {u \in Twin : state[u] = "closed"}) /\ {} = {t} \ {t}
      BY <2>2
    <3> QED
      BY <1>1, <2>4, <2>5, <2>6, <3>1 DEF R!Close
  <2> QED
    BY <2>1, <2>7 DEF R!Next
<1> QED
  BY <1>2, <1>3

\* A closed session forgets its twin when that is closed.
LEMMA RegistryForgets ==
    ASSUME RequestInv, NEW r \in Slot, CloseEnds(r)
    PROVE  R!Next \/ UNCHANGED R!vars
<1>t. PICK s, t : s = SessOf(r) /\ t = request[r].twin
  OBVIOUS
<1>0. /\ TwinTypes /\ OneTwinPerId /\ created \in Nat /\ Closes(r)
      /\ NoTwin \notin Twin /\ 1..created \subseteq Twin
  BY RequestsAssumption
     DEF RequestInv, MoreTypes, TwinTypes, CloseEnds, Closes, Twin, NoTwin
<1>1. t \in closing /\ t \in Twin
  BY <1>0, <1>t DEF RequestInv, HandlerInv, TwinTypes
<1>2. /\ UNCHANGED created /\ closing' = closing \ {t}
      /\ state' = [state EXCEPT ![t] = "closed"]
  BY <1>t DEF CloseEnds
<1>3. closing' \cup {u \in Twin : state'[u] = "closed"}
         = closing \cup {u \in Twin : state[u] = "closed"}
  BY <1>0, <1>1, <1>2 DEF TwinTypes
<1>4. CASE UNCHANGED twins
  BY <1>2, <1>3, <1>4 DEF R!vars
<1>5. CASE ~UNCHANGED twins
  <2>1. Held(r, "unregister_session") /\ twins' = [twins EXCEPT ![s] = NoTwin]
    BY <1>0, <1>5, <1>t DEF CloseEnds, Closes
  <2>2. s \in Sid /\ twins[s] = t
    BY <1>t, <2>1 DEF RequestInv, HandlerInv
  <2>3. \A o \in Sid \ {s} : twins[o] = NoTwin
    BY <1>0, <1>1, <2>2 DEF OneTwinPerId
  <2>4. {u \in Twin : \E o \in Sid : twins[o] = u} = {t}
    BY <1>0, <1>1, <2>2, <2>3
  <2>5. {u \in Twin : \E o \in Sid : twins[o] = u}' = {}
    <3>1. \A o \in Sid : twins'[o] = NoTwin
      BY <1>0, <2>1, <2>3 DEF TwinTypes
    <3> QED
      BY <1>0, <3>1
  <2>6. R!Forget({t})
    <3>1. {t} \subseteq {t} \cap (closing \cup {u \in Twin : state[u] = "closed"}) /\ {} = {t} \ {t}
      BY <1>1
    <3> QED
      BY <1>2, <1>3, <2>4, <2>5, <3>1 DEF R!Forget
  <2>7. {t} \in SUBSET {u \in Twin : \E o \in Sid : twins[o] = u}
    BY <2>4
  <2> QED
    BY <2>6, <2>7 DEF R!Next
<1> QED
  BY <1>4, <1>5

\* Every step of clients and service is one of the registry, or none.
LEMMA RegistryNext == RequestInv /\ [Next]_vars => [R!Next]_(R!vars)
<1> SUFFICES ASSUME RequestInv, [Next]_vars PROVE R!Next \/ UNCHANGED R!vars
  OBVIOUS
<1> USE DEF regVars, instVars
<1>1. ASSUME UNCHANGED <<twins, created, closing, state>> PROVE UNCHANGED R!vars
  BY <1>1, RegistryStutters
<1>2. ASSUME NEW c \in Client,
             Poll(c) \/ Learn(c) \/ GiveUp(c) \/ \E op \in Ops, s \in Sid : Call(c, op, s)
      PROVE  UNCHANGED R!vars
  BY <1>1, <1>2 DEF Poll, Learn, GiveUp, Call
<1>3. ASSUME NEW r \in Slot, ServiceStep(r) PROVE R!Next \/ UNCHANGED R!vars
  <2>1. MoreTypes'
    BY <1>3, ServiceStepTyped DEF RequestInv
  <2>2. CASE \/ Lose(r) \/ RegisterSession(r) \/ Gone(r) \/ TwinList(r) \/ StopReturns(r)
             \/ InferenceCancelled(r) \/ InferenceTimesOut(r) \/ Inferred(r)
    BY <1>1, <2>2 DEF Lose, RegisterSession, Gone, TwinList, StopReturns,
                      InferenceCancelled, InferenceTimesOut, Inferred
  <2>3. CASE TwinCall(r)
    BY <2>3, CallStutters
  <2>4. CASE TwinCreate(r)
    BY <2>1, <2>4, RegistryCreates
  <2>5. CASE TwinClose(r) \/ UnregisterSession(r)
    BY <2>1, <2>5, RegistryCloses
  <2>6. CASE CloseEnds(r)
    BY <2>6, RegistryForgets
  <2> QED
    BY <1>3, <2>2, <2>3, <2>4, <2>5, <2>6 DEF ServiceStep, Handle, Handler
<1>4. ASSUME NEW t \in Twin, TwinStep(t) \/ RuntimeFails(t) PROVE UNCHANGED R!vars
  <2>1. /\ UNCHANGED <<twins, created, closing>>
        /\ \A u \in Twin : state[u] = "closed" <=> state'[u] = "closed"
    BY <1>4, TwinStepTyped DEF RequestInv
  <2> QED
    BY <2>1, RegistryStutters
<1>5. CASE UNCHANGED vars
  BY <1>1, <1>5 DEF vars
<1> QED
  BY <1>2, <1>3, <1>4, <1>5 DEF Next, ServiceStep

-----------------------------------------------------------------------------
\* The invariant always holds.
LEMMA RequestsInvariant == Spec => []RequestInv
BY RequestsInit, RequestsNext, PTL DEF Spec

\* The variables of the clients, routes and twins keep their types, and a client
\* waits exactly for a request that is under way.
THEOREM TypeCorrect == Spec => []TypeOK
<1>1. RequestInv => TypeOK
  BY DEF RequestInv, OneTwinPerId
<1> QED
  BY RequestsInvariant, <1>1, PTL

\* However creates are repeated, delayed and overtaken by closes of any client: at
\* most one session has the id, and every other twin that was ever created is
\* being closed or closed (twin_create, twin_close, _twin_owner).
THEOREM OneTwinAlways == Spec => []OneTwinPerId
<1>1. RequestInv => OneTwinPerId
  BY DEF RequestInv
<1> QED
  BY RequestsInvariant, <1>1, PTL

\* Seen from the registry, lost, late and repeated requests of any clients are
\* creates of a free id, one close per twin, and nothing else (twin_create,
\* twin_close, unregister_session).
THEOREM RequestsImplementRegistry == Spec => ImplementsRegistry
BY RequestsInvariant, RegistryInit, RegistryNext, PTL DEF Spec, R!Spec, ImplementsRegistry

\* What create_twin() returned as ready has its runtime for as long as its session
\* knows it, whatever late answers and closes there were (wait_ready).
THEOREM ReadyIsCallable == Spec => []ReadyMeansCallable
<1>1. RequestInv => ReadyMeansCallable
  <2> SUFFICES ASSUME RequestInv, NEW c \in Client, NEW s \in Sid,
                      told[c] # NoTwin, told[c] = twins[s]
               PROVE  home[told[c]] = s /\ HasRuntime(told[c])
    BY DEF ReadyMeansCallable
  <2>1. told[c] \in 1..created
    BY DEF RequestInv, MoreTypes, ClientTypes, TwinTypes, NoTwin
  <2>2. state[told[c]] # "closed" /\ WasReady(state, told[c])
    BY <2>1 DEF RequestInv, ReadyInv
  <2>3. home[told[c]] = s
    BY DEF RequestInv, OneTwinPerId
  <2> QED
    BY <2>2, <2>3 DEF WasReady, HasRuntime
<1> QED
  BY RequestsInvariant, <1>1, PTL
=============================================================================
