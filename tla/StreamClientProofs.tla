------------------------- MODULE StreamClientProofs -------------------------
(***************************************************************************)
(* Proofs about StreamClient, for any feeds and topics, and any items.     *)
(***************************************************************************)
EXTENDS StreamClient, SequenceTheorems, TLAPS

\* The calls of a client that is not connected wait, and only then; nothing is
\* subscribed before, and the loop runs only while the client is connected.
WaitInv ==
    /\ sent \in [Topic -> Nat]
    /\ Parks => loop = "none" /\ \A f \in Feed : callbacks[f] = 0
    /\ Parks => \A c \in Call : woken[c] = 0
    /\ conn = "up" => \A c \in Call : parked[c] = 0
    /\ loop = "receiving" => conn = "up"

\* What is on its way was published, and is in order.
WireInv ==
    /\ \A i \in DOMAIN wire : wire[i].n \in 1..sent[wire[i].topic]
    /\ WireInOrder

\* Before the connection nobody got anything; after it, a steady feed that got items
\* keeps its callback.
GotInv ==
    /\ Parks => \A f \in Feed : got[f] = <<>>
    /\ conn = "up" => \A f \in Steady : got[f] # <<>> => callbacks[f] > 0

ClientInv ==
    /\ TypeOK
    /\ WaitInv
    /\ WireInv
    /\ SubscribedOnce
    /\ ItemsInOrder
    /\ GotInv
    /\ SiblingsAgree
    /\ ClosedIsClosed

-----------------------------------------------------------------------------
\* What an item brings to a feed: its number, once for each callback.
LEMMA CopiesTyped ==
    ASSUME NEW k \in Nat, NEW n \in Nat
    PROVE  [i \in 1..k |-> n] \in Seq(Nat)
<1> DEFINE s == [i \in 1..k |-> n]
<1>1. s \in [1..k -> Nat]
  OBVIOUS
<1> HIDE DEF s
<1>2. s \in UNION {[1..m -> Nat] : m \in Nat}
  BY <1>1, Zenon
<1> QED
  BY <1>2, SeqDef, Zenon DEF s

\* A publication on a topic.
LEMMA SendOne ==
    ASSUME TypeOK, WaitInv, NEW t \in Topic, Send(t)
    PROVE  /\ sent' \in [Topic -> Nat] /\ \A u \in Topic : sent'[u] \in 0..MaxItems[u]
           /\ sent'[t] = sent[t] + 1 /\ \A u \in Topic \ {t} : sent'[u] = sent[u]
           /\ wire' \in Seq([topic : Topic, n : Nat])
           /\ wire' \in {wire, Append(wire, [topic |-> t, n |-> sent'[t]])}
<1>1. MaxItems \in [Topic -> Nat]
  BY StreamClientAssumption
<1>2. /\ sent' \in [Topic -> Nat] /\ \A u \in Topic : sent'[u] \in 0..MaxItems[u]
      /\ sent'[t] = sent[t] + 1 /\ \A u \in Topic \ {t} : sent'[u] = sent[u]
  <2>1. sent' = [sent EXCEPT ![t] = @ + 1] /\ sent[t] < MaxItems[t]
    BY DEF Send
  <2>2. sent \in [Topic -> Nat] /\ \A u \in Topic : sent[u] \in 0..MaxItems[u] /\ MaxItems[u] \in Nat
    BY <1>1 DEF TypeOK, WaitInv
  <2> QED
    BY <2>1, <2>2
<1>3. wire' \in {wire, Append(wire, [topic |-> t, n |-> sent'[t]])}
  BY DEF Send
<1>4. wire \in Seq([topic : Topic, n : Nat]) /\ [topic |-> t, n |-> sent'[t]] \in [topic : Topic, n : Nat]
  BY <1>2 DEF TypeOK
<1>5. wire' \in Seq([topic : Topic, n : Nat])
  <2>1. Append(wire, [topic |-> t, n |-> sent'[t]]) \in Seq([topic : Topic, n : Nat])
    BY <1>4, AppendProperties
  <2> QED
    BY <1>3, <1>4, <2>1
<1> QED
  BY <1>2, <1>3, <1>5

\* The types, and who waits when.
LEMMA TypeNext == TypeOK /\ WaitInv /\ [Next]_vars => (TypeOK /\ WaitInv)'
<1> SUFFICES ASSUME TypeOK, WaitInv, [Next]_vars PROVE TypeOK' /\ WaitInv'
  OBVIOUS
<1> USE DEF TypeOK, WaitInv, Parks
<1>0. TopicOf \in [Feed -> Topic] /\ MaxItems \in [Topic -> Nat] /\ Feed \cap Topic = {}
  BY StreamClientAssumption
<1>1. CASE Connect
  BY <1>0, <1>1 DEF Connect, subVars, callVars, netVars
<1>2. CASE Connected
  BY <1>0, <1>2 DEF Connected, subVars, callVars, netVars
<1>3. CASE ConnectFails
  BY <1>0, <1>3 DEF ConnectFails, subVars, callVars, netVars
<1>4. ASSUME NEW f \in Feed, Subscribe(f) PROVE TypeOK' /\ WaitInv'
  <2>1. UNCHANGED <<conn, loop, told, woken, netVars, got>> /\ feeds' \subseteq Feed
    BY <1>4 DEF Subscribe
  <2>2. CASE Parks /\ parked' = [parked EXCEPT ![f] = @ + 1] /\ UNCHANGED callbacks
    BY <2>1, <2>2 DEF netVars, Call
  <2>3. CASE conn = "up" /\ AddCallback(f) /\ UNCHANGED parked
    BY <2>1, <2>3 DEF netVars, AddCallback
  <2>4. CASE UNCHANGED <<callbacks, parked>>
    BY <2>1, <2>4 DEF netVars
  <2> QED
    BY <1>4, <2>2, <2>3, <2>4 DEF Subscribe
<1>5. ASSUME NEW f \in Feed, CancelCall(f) PROVE TypeOK' /\ WaitInv'
  <2>1. UNCHANGED <<conn, loop, told, feeds, callbacks, woken, known, wire, sent, got>>
    BY <1>5 DEF CancelCall, subVars, netVars
  <2>2. parked' \in [Call -> Nat] /\ \A c \in Call : parked[c] = 0 => parked'[c] = 0
    BY <1>5 DEF CancelCall, Call
  <2> QED
    BY <2>1, <2>2
<1>6. ASSUME NEW f \in Feed, Unsubscribe(f) PROVE TypeOK' /\ WaitInv'
  BY <1>0, <1>6 DEF Unsubscribe, subVars, callVars, netVars, WithoutTopics
<1>7. ASSUME NEW t \in Topic, Produce(t) PROVE TypeOK' /\ WaitInv'
  <2>1. UNCHANGED <<conn, loop, told, subVars, callVars, known, got>> /\ Send(t)
    BY <1>7 DEF Produce
  <2>2. /\ sent' \in [Topic -> Nat] /\ \A u \in Topic : sent'[u] \in 0..MaxItems[u]
        /\ wire' \in Seq([topic : Topic, n : Nat])
    BY <2>1, SendOne
  <2> QED
    BY <2>1, <2>2 DEF subVars, callVars
<1>8. ASSUME NEW t \in Topic, EarlyPublish(t) PROVE TypeOK' /\ WaitInv'
  <2>1. UNCHANGED <<conn, loop, told, feeds, callbacks, woken, known, wire, sent, got>> /\ Parks
    BY <1>8 DEF EarlyPublish, subVars, netVars
  <2>2. parked' \in [Call -> Nat]
    BY <1>8 DEF EarlyPublish, Call
  <2> QED
    BY <2>1, <2>2
<1>9. ASSUME NEW c \in Call, Resume(c) PROVE TypeOK' /\ WaitInv'
  <2>1. /\ woken[c] > 0 /\ woken' = [woken EXCEPT ![c] = @ - 1] /\ conn \notin {"new", "connecting"}
        /\ UNCHANGED <<conn, loop, told, feeds, parked, known, got>>
    BY <1>9 DEF Resume
  <2>2. woken' \in [Call -> Nat]
    BY <2>1
  <2>3. CASE c \in Feed /\ AddCallback(c) /\ UNCHANGED <<sent, wire>>
    BY <2>1, <2>2, <2>3 DEF AddCallback
  <2>4. CASE c \in Topic /\ Send(c) /\ UNCHANGED callbacks
    <3>1. /\ sent' \in [Topic -> Nat] /\ \A u \in Topic : sent'[u] \in 0..MaxItems[u]
          /\ wire' \in Seq([topic : Topic, n : Nat])
      BY <2>4, SendOne
    <3> QED
      BY <2>1, <2>2, <2>4, <3>1
  <2>5. CASE UNCHANGED <<callbacks, sent, wire>>
    BY <2>1, <2>2, <2>5
  <2> QED
    BY <1>9, <2>3, <2>4, <2>5 DEF Resume
<1>10. CASE Propagate
  BY <1>0, <1>10 DEF Propagate, subVars, callVars, netVars, Wanted
<1>11. CASE LoopFails
  BY <1>0, <1>11 DEF LoopFails, subVars, callVars, netVars
<1>12. CASE Close
  <2>1. callbacks' \in [Feed -> Nat] /\ feeds' \subseteq Feed /\ UNCHANGED <<told, callVars, got, sent>>
    <3>1. feeds' = {} /\ UNCHANGED <<told, callVars, got, sent>>
      BY <1>12 DEF Close, Released, netVars
    <3> DEFINE S == {TopicOf[g] : g \in feeds}
    <3>2. \/ callbacks' = [f \in Feed |-> 0]
          \/ callbacks' = [f \in Feed |-> IF TopicOf[f] \in S THEN 0 ELSE callbacks[f]]
      BY <1>12, Zenon DEF Close, WithoutTopics
    <3> HIDE DEF S
    <3>3. callbacks' \in [Feed -> Nat]
      BY <3>2
    <3> QED
      BY <3>1, <3>3
  <2>2. CASE loop' = "cancelled" /\ conn' = "closing" /\ UNCHANGED netVars
    BY <2>1, <2>2 DEF callVars, netVars
  <2>3. CASE loop # "receiving" /\ UNCHANGED loop /\ Released
    BY <2>1, <2>3 DEF callVars, Released
  <2> QED
    BY <1>12, <2>2, <2>3 DEF Close
<1>13. CASE Receive
  <2>1. /\ wire # <<>> /\ wire' = Tail(wire)
        /\ UNCHANGED <<conn, loop, told, subVars, callVars, known, sent>>
    BY <1>13 DEF Receive
  <2>2. Head(wire).n \in Nat /\ wire' \in Seq([topic : Topic, n : Nat])
    <3>1. Head(wire) \in [topic : Topic, n : Nat] /\ Tail(wire) \in Seq([topic : Topic, n : Nat])
      BY <2>1, HeadTailProperties
    <3> QED
      BY <2>1, <3>1
  <2>3. \A f \in Feed : Deliveries(f, Head(wire)) \in Nat
    BY DEF Deliveries
  <2>4. ASSUME NEW f \in Feed PROVE got'[f] \in Seq(Nat)
    <3>1. [i \in 1..Deliveries(f, Head(wire)) |-> Head(wire).n] \in Seq(Nat)
      <4> DEFINE k == Deliveries(f, Head(wire))
                 n == Head(wire).n
      <4>1. k \in Nat /\ n \in Nat
        BY <2>2, <2>3
      <4> HIDE DEF k, n
      <4>2. [i \in 1..k |-> n] \in Seq(Nat)
        BY <4>1, CopiesTyped
      <4> QED
        BY <4>2 DEF k, n
    <3> QED
      BY <1>13, <3>1 DEF Receive
  <2>5. got' \in [Feed -> Seq(Nat)]
    BY <1>13, <2>4 DEF Receive
  <2> QED
    BY <2>1, <2>2, <2>5 DEF subVars, callVars
<1>14. CASE RunDone
  BY <1>0, <1>14 DEF RunDone, subVars, callVars, netVars, Reports, IsOpen
<1>15. CASE LoopCancelled
  BY <1>0, <1>15 DEF LoopCancelled, subVars, callVars, netVars
<1>16. CASE CloseEnds
  BY <1>0, <1>16 DEF CloseEnds, subVars, callVars, netVars, Released, Left
<1>17. CASE UNCHANGED vars
  BY <1>0, <1>17 DEF vars, subVars, callVars, netVars
<1>18. CASE BrokerDies
  BY <1>0, <1>18 DEF BrokerDies, subVars, callVars
<1> QED
  BY <1>1, <1>2, <1>3, <1>4, <1>5, <1>6, <1>7, <1>8, <1>9, <1>10, <1>11, <1>12, <1>13,
     <1>14, <1>15, <1>16, <1>17, <1>18
     DEF Next, ClientStep
\* A steady feed has one callback or one call.
LEMMA SubscribedNext == TypeOK /\ WaitInv /\ SubscribedOnce /\ [Next]_vars => SubscribedOnce'
<1> SUFFICES ASSUME TypeOK, WaitInv, SubscribedOnce, [Next]_vars PROVE SubscribedOnce'
  OBVIOUS
<1>0. /\ TypeOK' /\ TopicOf \in [Feed -> Topic] /\ Feed \cap Topic = {} /\ Fickle \subseteq Feed
      /\ callbacks \in [Feed -> Nat] /\ parked \in [Call -> Nat] /\ woken \in [Call -> Nat] /\ Feed \subseteq Call
  BY TypeNext, StreamClientAssumption DEF TypeOK, Call
<1>s. Steady \subseteq Feed \ Fickle
  BY DEF Steady
<1> USE DEF SubscribedOnce, IsOpen
<1>1. CASE Connect
  BY <1>0, <1>s, <1>1 DEF Connect, subVars, callVars, netVars
<1>2. CASE Connected
  BY <1>0, <1>s, <1>2 DEF Connected, subVars, callVars, netVars, WaitInv, Parks
<1>3. CASE ConnectFails
  BY <1>0, <1>s, <1>3 DEF ConnectFails, subVars, callVars, netVars
<1>4. ASSUME NEW f \in Feed, Subscribe(f) PROVE SubscribedOnce'
  BY <1>0, <1>s, <1>4 DEF Subscribe, subVars, callVars, netVars, AddCallback, Call, Parks, Repeated
<1>5. ASSUME NEW f \in Feed, CancelCall(f) PROVE SubscribedOnce'
  BY <1>0, <1>s, <1>5 DEF CancelCall, subVars, callVars, netVars, Call
<1>6. ASSUME NEW f \in Feed, Unsubscribe(f) PROVE SubscribedOnce'
  <2>1. /\ f \in Fickle /\ feeds' = feeds \ {f} /\ UNCHANGED <<conn, parked, woken>>
        /\ \/ callbacks' = callbacks
           \/ callbacks' = [g \in Feed |-> IF TopicOf[g] = TopicOf[f] THEN 0 ELSE callbacks[g]]
    BY <1>6 DEF Unsubscribe, callVars, WithoutTopics
  <2>2. \A g \in Steady : g # f /\ TopicOf[g] # TopicOf[f]
    BY <2>1 DEF Steady
  <2>3. \A g \in Steady : callbacks'[g] = callbacks[g]
    BY <1>s, <2>1, <2>2
  <2> QED
    BY <1>0, <1>s, <2>1, <2>2, <2>3
<1>7. ASSUME NEW t \in Topic, Produce(t) PROVE SubscribedOnce'
  BY <1>0, <1>s, <1>7 DEF Produce, subVars, callVars, netVars
<1>8. ASSUME NEW t \in Topic, EarlyPublish(t) PROVE SubscribedOnce'
  BY <1>0, <1>s, <1>8 DEF EarlyPublish, subVars, callVars, netVars, Call
<1>9. ASSUME NEW c \in Call, Resume(c) PROVE SubscribedOnce'
  BY <1>0, <1>s, <1>9 DEF Resume, subVars, callVars, netVars, AddCallback, HasSockets, Call
<1>10. CASE Propagate
  BY <1>0, <1>s, <1>10 DEF Propagate, subVars, callVars, netVars
<1>11. CASE LoopFails
  BY <1>0, <1>s, <1>11 DEF LoopFails, subVars, callVars, netVars
<1>12. CASE Close
  BY <1>0, <1>s, <1>12 DEF Close, subVars, callVars, netVars, Released
<1>13. CASE Receive
  BY <1>0, <1>s, <1>13 DEF Receive, subVars, callVars, netVars
<1>14. CASE RunDone
  BY <1>0, <1>s, <1>14 DEF RunDone, subVars, callVars, netVars
<1>15. CASE LoopCancelled
  BY <1>0, <1>s, <1>15 DEF LoopCancelled, subVars, callVars, netVars
<1>16. CASE CloseEnds
  BY <1>0, <1>s, <1>16 DEF CloseEnds, subVars, callVars, netVars, Released
<1>17. CASE UNCHANGED vars
  BY <1>0, <1>s, <1>17 DEF vars, subVars, callVars
<1>18. CASE BrokerDies
  BY <1>0, <1>s, <1>18 DEF BrokerDies, subVars, callVars
<1> QED
  BY <1>1, <1>2, <1>3, <1>4, <1>5, <1>6, <1>7, <1>8, <1>9, <1>10, <1>11, <1>12, <1>13,
     <1>14, <1>15, <1>16, <1>17, <1>18
     DEF Next, ClientStep

\* A closed client has nothing left.
LEMMA ClosedNext == TypeOK /\ WaitInv /\ ClosedIsClosed /\ [Next]_vars => ClosedIsClosed'
<1> SUFFICES ASSUME TypeOK, WaitInv, ClosedIsClosed, [Next]_vars PROVE ClosedIsClosed'
  OBVIOUS
<1>0. callbacks \in [Feed -> Nat] /\ parked \in [Call -> Nat] /\ woken \in [Call -> Nat] /\ Feed \subseteq Call
  BY DEF TypeOK, Call
<1> USE DEF ClosedIsClosed, WaitInv, Parks
<1>1. CASE Connect
  BY <1>0, <1>1 DEF Connect, subVars, callVars, netVars
<1>2. CASE Connected
  BY <1>0, <1>2 DEF Connected, subVars, callVars, netVars
<1>3. CASE ConnectFails
  BY <1>0, <1>3 DEF ConnectFails, subVars, callVars, netVars
<1>4. ASSUME NEW f \in Feed, Subscribe(f) PROVE ClosedIsClosed'
  BY <1>0, <1>4 DEF Subscribe, subVars, callVars, netVars, AddCallback, Parks, Repeated
<1>5. ASSUME NEW f \in Feed, CancelCall(f) PROVE ClosedIsClosed'
  BY <1>0, <1>5 DEF CancelCall, subVars, callVars, netVars
<1>6. ASSUME NEW f \in Feed, Unsubscribe(f) PROVE ClosedIsClosed'
  BY <1>0, <1>6 DEF Unsubscribe, subVars, callVars, netVars, WithoutTopics
<1>7. ASSUME NEW t \in Topic, Produce(t) PROVE ClosedIsClosed'
  BY <1>0, <1>7 DEF Produce, subVars, callVars, netVars
<1>8. ASSUME NEW t \in Topic, EarlyPublish(t) PROVE ClosedIsClosed'
  BY <1>0, <1>8 DEF EarlyPublish, subVars, callVars, netVars
<1>9. ASSUME NEW c \in Call, Resume(c) PROVE ClosedIsClosed'
  BY <1>0, <1>9 DEF Resume, subVars, callVars, netVars, AddCallback, HasSockets
<1>10. CASE Propagate
  BY <1>0, <1>10 DEF Propagate, subVars, callVars, netVars
<1>11. CASE LoopFails
  BY <1>0, <1>11 DEF LoopFails, subVars, callVars, netVars
<1>12. CASE Close
  BY <1>0, <1>12 DEF WithoutTopics, Close, subVars, callVars, netVars, Released
<1>13. CASE Receive
  BY <1>0, <1>13 DEF Receive, subVars, callVars, netVars
<1>14. CASE RunDone
  BY <1>0, <1>14 DEF RunDone, subVars, callVars, netVars
<1>15. CASE LoopCancelled
  BY <1>0, <1>15 DEF LoopCancelled, subVars, callVars, netVars
<1>16. CASE CloseEnds
  BY <1>0, <1>16 DEF Left, CloseEnds, subVars, callVars, netVars, Released
<1>17. CASE UNCHANGED vars
  BY <1>0, <1>17 DEF vars, subVars, callVars
<1>18. CASE BrokerDies
  BY <1>0, <1>18 DEF BrokerDies, subVars, callVars
<1> QED
  BY <1>1, <1>2, <1>3, <1>4, <1>5, <1>6, <1>7, <1>8, <1>9, <1>10, <1>11, <1>12, <1>13,
     <1>14, <1>15, <1>16, <1>17, <1>18
     DEF Next, ClientStep
-----------------------------------------------------------------------------
(***************************************************************************)
(* The order of the items.                                                 *)
(***************************************************************************)
OrderInv == WireInv /\ ItemsInOrder

\* What is published is newer than all that was.
LEMMA SendKeepsOrder ==
    ASSUME TypeOK, WaitInv, OrderInv, NEW t \in Topic, Send(t), UNCHANGED got
    PROVE  OrderInv'
<1> DEFINE item == [topic |-> t, n |-> sent'[t]]
<1>0. /\ sent' \in [Topic -> Nat] /\ sent'[t] = sent[t] + 1
      /\ \A u \in Topic : sent[u] \in Nat /\ sent[u] <= sent'[u]
      /\ wire' \in {wire, Append(wire, item)}
      /\ TopicOf \in [Feed -> Topic] /\ Steady \subseteq Feed
      /\ wire \in Seq([topic : Topic, n : Nat]) /\ got \in [Feed -> Seq(Nat)]
  <2>1. /\ sent' \in [Topic -> Nat] /\ sent'[t] = sent[t] + 1
        /\ \A u \in Topic \ {t} : sent'[u] = sent[u]
        /\ wire' \in {wire, Append(wire, item)}
    BY SendOne
  <2>2. /\ TopicOf \in [Feed -> Topic] /\ Steady \subseteq Feed /\ sent \in [Topic -> Nat]
        /\ wire \in Seq([topic : Topic, n : Nat]) /\ got \in [Feed -> Seq(Nat)]
    BY StreamClientAssumption DEF WaitInv, TypeOK, Steady
  <2> HIDE DEF item
  <2>3. ASSUME NEW u \in Topic PROVE sent[u] \in Nat /\ sent[u] <= sent'[u]
    <3>1. CASE u = t
      BY <2>1, <2>2, <3>1
    <3>2. CASE u # t
      BY <2>1, <2>2, <3>2
    <3> QED
      BY <3>1, <3>2
  <2> QED
    BY <2>1, <2>2, <2>3
<1>1. ItemsInOrder'
  <2>1. ASSUME NEW f \in Steady, NEW i \in DOMAIN got[f]
        PROVE  got[f][i] \in (1..sent'[TopicOf[f]]) \ Bad[f]
    <3>1. got[f][i] \in 1..sent[TopicOf[f]] /\ got[f][i] \notin Bad[f]
      BY DEF OrderInv, ItemsInOrder
    <3>2. sent'[TopicOf[f]] \in Nat /\ sent[TopicOf[f]] \in Nat /\ sent[TopicOf[f]] <= sent'[TopicOf[f]]
      BY <1>0
    <3> QED
      BY <3>1, <3>2
  <2>2. \A f \in Steady : \A i, j \in DOMAIN got[f] : i < j => got[f][i] < got[f][j]
    BY DEF OrderInv, ItemsInOrder
  <2> QED
    BY <2>1, <2>2 DEF ItemsInOrder, Steady
<1>w. ASSUME NEW i \in DOMAIN wire
      PROVE  wire[i].n \in 1..sent[wire[i].topic] /\ wire[i].topic \in Topic /\ wire[i].n \in 1..sent'[wire[i].topic]
  <2>1. wire[i].n \in 1..sent[wire[i].topic]
    BY DEF OrderInv, WireInv, WireInOrder
  <2>2. wire[i] \in [topic : Topic, n : Nat]
    BY <1>0, ElementOfSeq, LenProperties
  <2>3. /\ wire[i].topic \in Topic /\ sent[wire[i].topic] \in Nat /\ sent'[wire[i].topic] \in Nat
        /\ sent[wire[i].topic] <= sent'[wire[i].topic]
    BY <1>0, <2>2
  <2> QED
    BY <2>1, <2>3
<1>2. item.topic = t /\ item.n = sent[t] + 1 /\ item \in [topic : Topic, n : Nat]
  BY <1>0
<1>3. CASE wire' = wire
  BY <1>1, <1>w, <1>3 DEF OrderInv, WireInv, WireInOrder, Steady
<1>4. CASE wire' = Append(wire, item)
  <2> HIDE DEF item
  <2>1. /\ Len(wire) \in Nat /\ DOMAIN wire = 1..Len(wire) /\ DOMAIN wire' = 1..(Len(wire) + 1)
        /\ \A i \in 1..Len(wire) : wire'[i] = wire[i] /\ wire[i] \in [topic : Topic, n : Nat]
        /\ wire'[Len(wire) + 1] = item
    <3>1. Len(wire) \in Nat /\ DOMAIN wire = 1..Len(wire)
      BY <1>0
    <3>2. /\ wire' \in Seq([topic : Topic, n : Nat]) /\ Len(wire') = Len(wire) + 1
          /\ \A i \in 1..Len(wire) : wire'[i] = wire[i]
          /\ wire'[Len(wire) + 1] = item
      BY <1>0, <1>2, <1>4, AppendProperties
    <3>3. DOMAIN wire' = 1..(Len(wire) + 1)
      BY <3>2
    <3>4. \A i \in 1..Len(wire) : wire[i] \in [topic : Topic, n : Nat]
      BY <1>0, ElementOfSeq
    <3> QED
      BY <3>1, <3>2, <3>3, <3>4
  <2>3. \A i \in DOMAIN wire' : wire'[i].n \in 1..sent'[wire'[i].topic]
    <3> TAKE i \in DOMAIN wire'
    <3>1. CASE i \in 1..Len(wire)
      BY <1>w, <2>1, <3>1
    <3>2. CASE i = Len(wire) + 1
      BY <1>0, <1>2, <2>1, <3>2
    <3> QED
      BY <2>1, <3>1, <3>2
  <2>4. \A i, j \in DOMAIN wire' :
           i < j /\ wire'[i].topic = wire'[j].topic => wire'[i].n < wire'[j].n
    <3> SUFFICES ASSUME NEW i \in DOMAIN wire', NEW j \in DOMAIN wire', i < j,
                        wire'[i].topic = wire'[j].topic
                 PROVE  wire'[i].n < wire'[j].n
      OBVIOUS
    <3>1. i \in 1..Len(wire) /\ wire'[i] = wire[i]
      BY <2>1
    <3>2. CASE j \in 1..Len(wire)
      BY <2>1, <3>1, <3>2 DEF OrderInv, WireInv, WireInOrder
    <3>3. CASE j = Len(wire) + 1
      <4>1. wire[i].n \in 1..sent[t] /\ sent[t] \in Nat
        BY <1>0, <1>2, <1>w, <2>1, <3>1, <3>3
      <4> QED
        BY <1>2, <2>1, <3>1, <3>3, <4>1
    <3> QED
      BY <2>1, <3>2, <3>3
  <2>5. \A f \in Steady, i \in DOMAIN wire' : wire'[i].topic = TopicOf[f] =>
           \A j \in DOMAIN got[f] : got[f][j] < wire'[i].n
    <3> SUFFICES ASSUME NEW f \in Steady, NEW i \in DOMAIN wire', wire'[i].topic = TopicOf[f],
                        NEW j \in DOMAIN got[f]
                 PROVE  got[f][j] < wire'[i].n
      OBVIOUS
    <3>1. got[f][j] \in 1..sent[TopicOf[f]] /\ TopicOf[f] \in Topic
      BY <1>0 DEF OrderInv, ItemsInOrder
    <3>2. CASE i \in 1..Len(wire)
      BY <2>1, <3>2 DEF OrderInv, WireInv, WireInOrder
    <3>3. CASE i = Len(wire) + 1
      BY <1>0, <1>2, <2>1, <3>1, <3>3
    <3> QED
      BY <2>1, <3>2, <3>3
  <2> QED
    BY <1>1, <2>3, <2>4, <2>5 DEF OrderInv, WireInv, WireInOrder, Steady
<1> QED
  BY <1>0, <1>3, <1>4

\* A steady feed gets the oldest item on its way once, if it is one for it.
LEMMA GotOne ==
    ASSUME TypeOK, WaitInv, SubscribedOnce, Receive, NEW f \in Steady
    PROVE  \/ /\ got'[f] = Append(got[f], Head(wire).n)
              /\ Head(wire).topic = TopicOf[f] /\ Head(wire).n \notin Bad[f]
              /\ callbacks[f] > 0
           \/ /\ got'[f] = got[f]
              /\ \/ Head(wire).topic # TopicOf[f] \/ Head(wire).n \in Bad[f]
                 \/ callbacks[f] = 0
<1>0. /\ wire \in Seq([topic : Topic, n : Nat]) /\ wire # <<>>
      /\ got \in [Feed -> Seq(Nat)] /\ Steady \subseteq Feed
  BY DEF TypeOK, Steady, Receive
<1>1. Head(wire) \in [topic : Topic, n : Nat]
  BY <1>0, HeadTailProperties
<1>2. conn = "up" /\ IsOpen
  BY DEF Receive, WaitInv, IsOpen
<1>3. callbacks[f] \in {0, 1}
  <2>1. callbacks[f] \in Nat /\ parked[f] \in Nat /\ woken[f] \in Nat
    BY <1>0 DEF TypeOK, Call
  <2>2. callbacks[f] + parked[f] + woken[f] \in {0, 1}
    BY <1>2 DEF SubscribedOnce
  <2> QED
    BY <2>1, <2>2
<1> DEFINE h == Head(wire)
           k == Deliveries(f, h)
           n == h.n
<1>4. /\ k \in {0, 1}
      /\ k = 1 => h.topic = TopicOf[f] /\ h.n \notin Bad[f] /\ callbacks[f] > 0
      /\ k = 0 => h.topic # TopicOf[f] \/ h.n \in Bad[f] \/ callbacks[f] = 0
  BY <1>3 DEF Deliveries
<1>5. got'[f] = got[f] \o [i \in 1..k |-> n] /\ got[f] \in Seq(Nat) /\ n \in Nat
  BY <1>0, <1>1 DEF Receive
<1> HIDE DEF k, n, h
<1>6. CASE k = 0
  <2>1. got'[f] = got[f]
    BY <1>5, <1>6
  <2> QED
    BY <1>4, <1>6, <2>1 DEF h
<1>7. CASE k = 1
  <2>1. [i \in 1..k |-> n] = <<n>>
    BY <1>7
  <2>2. got[f] \o <<n>> = Append(got[f], n)
    BY <1>5, AppendIsConcat
  <2> QED
    BY <1>4, <1>5, <1>7, <2>1, <2>2 DEF n, h
<1> QED
  BY <1>4, <1>6, <1>7

\* What is received is the oldest item on its way; a steady feed gets it once.
LEMMA ReceiveKeepsOrder ==
    ASSUME TypeOK, WaitInv, OrderInv, SubscribedOnce, Receive
    PROVE  OrderInv'
<1> DEFINE h == Head(wire)
<1>0. /\ wire \in Seq([topic : Topic, n : Nat]) /\ wire # <<>> /\ wire' = Tail(wire) /\ UNCHANGED sent
      /\ got \in [Feed -> Seq(Nat)] /\ sent \in [Topic -> Nat]
      /\ TopicOf \in [Feed -> Topic] /\ Steady \subseteq Feed
  BY StreamClientAssumption DEF WaitInv, TypeOK, Steady, Receive
<1>1. /\ Len(wire) \in Nat \ {0} /\ DOMAIN wire = 1..Len(wire) /\ DOMAIN wire' = 1..(Len(wire) - 1)
      /\ \A i \in DOMAIN wire' : i + 1 \in DOMAIN wire /\ wire'[i] = wire[i + 1]
      /\ h = wire[1] /\ 1 \in DOMAIN wire /\ h \in [topic : Topic, n : Nat]
  <2>1. /\ Len(wire) \in Nat \ {0} /\ DOMAIN wire = 1..Len(wire) /\ h = wire[1]
        /\ h \in [topic : Topic, n : Nat]
    <3>1. Len(wire) \in Nat \ {0}
      BY <1>0, EmptySeq
    <3>2. DOMAIN wire = 1..Len(wire) /\ h = wire[1]
      BY <1>0
    <3>3. h \in [topic : Topic, n : Nat]
      BY <1>0, HeadTailProperties
    <3> QED
      BY <3>1, <3>2, <3>3
  <2>2. /\ Len(wire') = Len(wire) - 1 /\ DOMAIN wire' = 1..Len(wire')
        /\ \A i \in 1..Len(wire') : wire'[i] = wire[i + 1]
    BY <1>0, <2>1, HeadTailProperties
  <2> QED
    BY <2>1, <2>2
<1>2. \A i \in DOMAIN wire : wire[i].n \in 1..sent[wire[i].topic] /\ wire[i].topic \in Topic
  <2> TAKE i \in DOMAIN wire
  <2>1. wire[i] \in [topic : Topic, n : Nat]
    BY <1>0, ElementOfSeq, LenProperties
  <2>2. wire[i].topic \in Topic
    BY <2>1
  <2> QED
    BY <2>2 DEF OrderInv, WireInv, WireInOrder
<1>3. ASSUME NEW f \in Steady
      PROVE  \/ got'[f] = got[f]
             \/ got'[f] = Append(got[f], h.n) /\ h.topic = TopicOf[f] /\ h.n \notin Bad[f]
  BY GotOne
<1>4. \A i \in DOMAIN wire' : wire'[i].topic = h.topic => h.n < wire'[i].n
  BY <1>1 DEF OrderInv, WireInv, WireInOrder
<1> HIDE DEF h
<1>5. ASSUME NEW f \in Steady
      PROVE  /\ \A i, j \in DOMAIN got'[f] : i < j => got'[f][i] < got'[f][j]
             /\ \A i \in DOMAIN got'[f] : got'[f][i] \in (1..sent'[TopicOf[f]]) \ Bad[f]
             /\ \A i \in DOMAIN wire' : wire'[i].topic = TopicOf[f] =>
                   \A j \in DOMAIN got'[f] : got'[f][j] < wire'[i].n
  <2>1. /\ \A i, j \in DOMAIN got[f] : i < j => got[f][i] < got[f][j]
        /\ \A i \in DOMAIN got[f] : got[f][i] \in (1..sent[TopicOf[f]]) \ Bad[f]
        /\ \A i \in DOMAIN wire : wire[i].topic = TopicOf[f] =>
              \A j \in DOMAIN got[f] : got[f][j] < wire[i].n
    BY DEF OrderInv, WireInv, WireInOrder, ItemsInOrder
  <2>2. CASE got'[f] = got[f]
    BY <1>0, <1>1, <2>1, <2>2
  <2>3. CASE got'[f] = Append(got[f], h.n) /\ h.topic = TopicOf[f] /\ h.n \notin Bad[f]
    <3>1. /\ Len(got[f]) \in Nat /\ DOMAIN got[f] = 1..Len(got[f]) /\ got[f] \in Seq(Nat)
          /\ h.n \in Nat
      BY <1>0, <1>1
    <3>2. /\ DOMAIN got'[f] = 1..(Len(got[f]) + 1) /\ got'[f][Len(got[f]) + 1] = h.n
          /\ \A i \in DOMAIN got[f] : got'[f][i] = got[f][i]
      BY <2>3, <3>1
    <3>3. /\ \A i \in DOMAIN got[f] : got[f][i] < h.n /\ got[f][i] \in Nat
          /\ h.n \in (1..sent[TopicOf[f]]) \ Bad[f]
      BY <1>1, <1>2, <2>1, <2>3, <3>1
    <3>4. \A i, j \in DOMAIN got'[f] : i < j => got'[f][i] < got'[f][j]
      <4> TAKE i, j \in DOMAIN got'[f]
      <4>1. CASE j = Len(got[f]) + 1
        BY <3>1, <3>2, <3>3, <4>1
      <4>2. CASE j # Len(got[f]) + 1
        <5> SUFFICES ASSUME i < j PROVE got'[f][i] < got'[f][j]
          OBVIOUS
        <5>1. i \in DOMAIN got[f] /\ j \in DOMAIN got[f]
          BY <3>1, <3>2, <4>2
        <5>2. got'[f][i] = got[f][i] /\ got'[f][j] = got[f][j] /\ got[f][i] < got[f][j]
          BY <2>1, <3>2, <5>1
        <5> QED
          BY <5>2
      <4> QED
        BY <4>1, <4>2
    <3>5. \A i \in DOMAIN got'[f] : got'[f][i] \in (1..sent'[TopicOf[f]]) \ Bad[f]
      <4> TAKE i \in DOMAIN got'[f]
      <4>1. CASE i = Len(got[f]) + 1
        BY <1>0, <3>2, <3>3, <4>1
      <4>2. CASE i # Len(got[f]) + 1
        <5>1. i \in DOMAIN got[f]
          BY <3>1, <3>2, <4>2
        <5> QED
          BY <1>0, <2>1, <3>2, <5>1
      <4> QED
        BY <4>1, <4>2
    <3>6. ASSUME NEW i \in DOMAIN wire', wire'[i].topic = TopicOf[f], NEW j \in DOMAIN got'[f]
          PROVE  got'[f][j] < wire'[i].n
      <4>1. h.n < wire'[i].n
        BY <1>4, <2>3, <3>6
      <4>2. CASE j = Len(got[f]) + 1
        BY <3>2, <4>1, <4>2
      <4>3. CASE j # Len(got[f]) + 1
        <5>1. j \in DOMAIN got[f] /\ got'[f][j] = got[f][j]
          BY <3>1, <3>2, <3>6, <4>3
        <5>2. i + 1 \in DOMAIN wire /\ wire'[i] = wire[i + 1]
          BY <1>1, <3>6
        <5> QED
          BY <2>1, <3>6, <5>1, <5>2
      <4> QED
        BY <4>2, <4>3
    <3> QED
      BY <3>4, <3>5, <3>6
  <2> QED
    BY <1>3, <2>2, <2>3
<1>6. WireInv'
  <2>1. \A i \in DOMAIN wire' : wire'[i].n \in 1..sent'[wire'[i].topic]
    BY <1>0, <1>1, <1>2
  <2>2. \A i, j \in DOMAIN wire' :
           i < j /\ wire'[i].topic = wire'[j].topic => wire'[i].n < wire'[j].n
    BY <1>1 DEF OrderInv, WireInv, WireInOrder
  <2> QED
    BY <1>5, <2>1, <2>2 DEF WireInv, WireInOrder
<1> QED
  BY <1>5, <1>6 DEF OrderInv, ItemsInOrder

\* Every step keeps the order; most do not touch the items.
LEMMA OrderNext ==
    TypeOK /\ WaitInv /\ SubscribedOnce /\ OrderInv /\ [Next]_vars => OrderInv'
<1> SUFFICES ASSUME TypeOK, WaitInv, SubscribedOnce, OrderInv, [Next]_vars PROVE OrderInv'
  OBVIOUS
<1>1. CASE UNCHANGED <<wire, sent, got>>
  BY <1>1 DEF OrderInv, WireInv, WireInOrder, ItemsInOrder, Steady
<1>2. CASE wire' = <<>> /\ UNCHANGED <<sent, got>>
  BY <1>2 DEF OrderInv, WireInv, WireInOrder, ItemsInOrder, Steady
<1>3. ASSUME NEW t \in Topic, Send(t), UNCHANGED got PROVE OrderInv'
  BY <1>3, SendKeepsOrder
<1>4. CASE Receive
  BY <1>4, ReceiveKeepsOrder
<1>5. ASSUME NEW t \in Topic, Produce(t) PROVE OrderInv'
  BY <1>3, <1>5 DEF Produce
<1>6. ASSUME NEW c \in Call, Resume(c) PROVE OrderInv'
  BY <1>1, <1>3, <1>6 DEF Resume
<1>7. CASE Close
  BY <1>1, <1>2, <1>7 DEF Close, Released, netVars
<1>8. CASE CloseEnds
  BY <1>2, <1>8 DEF CloseEnds, Released
<1>9. CASE \/ Connect \/ Connected \/ ConnectFails \/ Propagate \/ BrokerDies \/ LoopFails \/ RunDone \/ LoopCancelled
           \/ \E f \in Feed : Subscribe(f) \/ CancelCall(f) \/ Unsubscribe(f)
           \/ \E t \in Topic : EarlyPublish(t)
  BY <1>1, <1>9 DEF Connect, Connected, ConnectFails, Propagate, BrokerDies, LoopFails, RunDone,
     LoopCancelled, Subscribe, CancelCall, Unsubscribe, EarlyPublish, netVars
<1>10. CASE UNCHANGED vars
  BY <1>1, <1>10 DEF vars, netVars
<1> QED
  BY <1>4, <1>5, <1>6, <1>7, <1>8, <1>9, <1>10 DEF Next, ClientStep

-----------------------------------------------------------------------------
(***************************************************************************)
(* No feed is starved.                                                     *)
(***************************************************************************)
\* Who got items has a callback, and so goes on to get them.
LEMMA GotNext == TypeOK /\ WaitInv /\ SubscribedOnce /\ GotInv /\ [Next]_vars => GotInv'
<1> SUFFICES ASSUME TypeOK, WaitInv, SubscribedOnce, GotInv, [Next]_vars PROVE GotInv'
  OBVIOUS
<1>0. callbacks \in [Feed -> Nat] /\ Steady \subseteq Feed
  BY DEF TypeOK, Steady
<1>1. ASSUME Parks' => Parks, conn' = "up" => conn = "up" \/ Parks, UNCHANGED got,
             \A f \in Steady : callbacks[f] > 0 => callbacks'[f] > 0
      PROVE  GotInv'
  BY <1>0, <1>1 DEF GotInv
<1>2. ASSUME NEW f \in Feed, AddCallback(f), UNCHANGED <<conn, got>> PROVE GotInv'
  <2>1. \A g \in Feed : callbacks[g] > 0 => callbacks'[g] > 0
    BY <1>0, <1>2 DEF AddCallback
  <2> QED
    BY <1>0, <1>1, <1>2, <2>1 DEF Parks
<1>3. CASE conn' \in {"closing", "closed"}
  BY <1>3 DEF GotInv, Parks
<1>4. CASE Receive
  <2>1. conn = "up" /\ conn' = "up" /\ callbacks' = callbacks
    BY <1>4 DEF Receive, WaitInv, subVars
  <2>2. \A f \in Steady : got'[f] # <<>> => callbacks[f] > 0
    BY <1>4, <2>1, GotOne DEF GotInv
  <2> QED
    BY <2>1, <2>2 DEF GotInv, Parks
<1>5. ASSUME NEW f \in Feed, Subscribe(f) PROVE GotInv'
  BY <1>1, <1>2, <1>5 DEF Subscribe, Parks
<1>6. ASSUME NEW f \in Feed, Unsubscribe(f) PROVE GotInv'
  <2>1. /\ f \in Fickle /\ UNCHANGED <<conn, got>>
        /\ \/ callbacks' = callbacks
           \/ callbacks' = [g \in Feed |-> IF TopicOf[g] = TopicOf[f] THEN 0 ELSE callbacks[g]]
    BY <1>6 DEF Unsubscribe, WithoutTopics
  <2>2. \A g \in Steady : TopicOf[g] # TopicOf[f]
    BY <2>1 DEF Steady
  <2> QED
    BY <1>0, <1>1, <2>1, <2>2 DEF Parks
<1>7. ASSUME NEW c \in Call, Resume(c) PROVE GotInv'
  BY <1>1, <1>2, <1>7 DEF Resume, Parks
<1>8. CASE \/ Connect \/ Connected \/ Propagate \/ BrokerDies \/ LoopFails \/ RunDone \/ LoopCancelled
           \/ \E f \in Feed : CancelCall(f)
           \/ \E t \in Topic : Produce(t) \/ EarlyPublish(t)
  BY <1>1, <1>8 DEF Connect, Connected, Propagate, BrokerDies, LoopFails, RunDone, LoopCancelled,
     CancelCall, Produce, EarlyPublish, subVars, Parks
<1>9. CASE ConnectFails \/ Close \/ CloseEnds
  BY <1>3, <1>9 DEF ConnectFails, Close, CloseEnds, Released
<1>10. CASE UNCHANGED vars
  BY <1>1, <1>10 DEF vars, subVars, Parks
<1> QED
  BY <1>4, <1>5, <1>6, <1>7, <1>8, <1>9, <1>10 DEF Next, ClientStep

\* What a sequence holds once an item was appended to it.
LEMMA AppendedItems ==
    ASSUME NEW s \in Seq(Nat), NEW n \in Nat
    PROVE  /\ ToSet(Append(s, n)) = ToSet(s) \cup {n}
           /\ s # <<>> => Append(s, n)[1] = s[1]
           /\ s = <<>> => Append(s, n)[1] = n
<1>1. /\ Len(s) \in Nat /\ DOMAIN s = 1..Len(s)
      /\ DOMAIN Append(s, n) = 1..(Len(s) + 1) /\ Append(s, n)[Len(s) + 1] = n
      /\ \A i \in 1..Len(s) : Append(s, n)[i] = s[i]
  OBVIOUS
<1>2. s # <<>> => 1 \in 1..Len(s)
  BY <1>1, EmptySeq
<1>3. s = <<>> => Len(s) = 0
  OBVIOUS
<1> QED
  BY <1>1, <1>2, <1>3 DEF ToSet

\* An item that one feed gets, the others of its topic get, too; it is newer than all
\* that they got before.
LEMMA ReceiveAgrees ==
    ASSUME TypeOK, WaitInv, SubscribedOnce, OrderInv, GotInv, SiblingsAgree, Receive
    PROVE  SiblingsAgree'
<1> DEFINE n == Head(wire).n
<1>0. /\ got \in [Feed -> Seq(Nat)] /\ Steady \subseteq Feed /\ conn = "up"
      /\ wire \in Seq([topic : Topic, n : Nat]) /\ wire # <<>>
  BY DEF TypeOK, Steady, Receive, WaitInv
<1>1. n \in Nat /\ Head(wire) = wire[1] /\ 1 \in DOMAIN wire
  <2>1. Head(wire) \in [topic : Topic, n : Nat]
    BY <1>0, HeadTailProperties
  <2>2. Len(wire) \in Nat \ {0}
    BY <1>0, EmptySeq
  <2> QED
    BY <1>0, <2>1, <2>2
<1> SUFFICES ASSUME NEW f \in Steady, NEW g \in Steady, TopicOf[f] = TopicOf[g], got'[g] # <<>>,
                    NEW m \in ToSet(got'[f]) \ Bad[g], got'[g][1] <= m
             PROVE  m \in ToSet(got'[g])
  BY DEF SiblingsAgree, Steady
<1>2. got[f] \in Seq(Nat) /\ got[g] \in Seq(Nat)
  BY <1>0
<1>3. ToSet(got[f]) \subseteq {i \in Nat : Head(wire).topic = TopicOf[f] => i < n}
  <2>1. \A j \in DOMAIN got[f] : Head(wire).topic = TopicOf[f] => got[f][j] < n
    BY <1>1 DEF OrderInv, WireInv, WireInOrder
  <2>2. \A j \in DOMAIN got[f] : got[f][j] \in Nat
    BY <1>2
  <2> QED
    BY <2>1, <2>2 DEF ToSet
<1>4. \/ got'[f] = got[f]
      \/ got'[f] = Append(got[f], n) /\ Head(wire).topic = TopicOf[f]
  BY GotOne
<1>5. \/ got'[g] = Append(got[g], n) /\ Head(wire).topic = TopicOf[g]
      \/ got'[g] = got[g] /\ (Head(wire).topic # TopicOf[g] \/ n \in Bad[g])
  <2>1. got'[g] # <<>> /\ got'[g] = got[g] => callbacks[g] > 0
    BY <1>0 DEF GotInv
  <2>2. callbacks[g] \in Nat
    BY <1>0 DEF TypeOK
  <2> QED
    BY <2>1, <2>2, GotOne
<1> HIDE DEF n
<1>6. m \in ToSet(got[f]) \/ (m = n /\ Head(wire).topic = TopicOf[f])
  <2>1. CASE got'[f] = got[f]
    BY <2>1
  <2>2. CASE got'[f] = Append(got[f], n) /\ Head(wire).topic = TopicOf[f]
    <3>1. ToSet(got'[f]) = ToSet(got[f]) \cup {n}
      BY <1>1, <1>2, <2>2, AppendedItems
    <3> QED
      BY <2>2, <3>1
  <2> QED
    BY <1>4, <2>1, <2>2
<1>7. CASE got'[g] = got[g] /\ (Head(wire).topic # TopicOf[g] \/ n \in Bad[g])
  BY <1>6, <1>7 DEF SiblingsAgree
<1>8. CASE got'[g] = Append(got[g], n) /\ Head(wire).topic = TopicOf[g]
  <2>1. CASE m = n
    BY <1>1, <1>2, <1>8, <2>1, AppendedItems
  <2>2. CASE m # n /\ got[g] = <<>>
    <3>1. got'[g][1] = n
      BY <1>1, <1>2, <1>8, <2>2, AppendedItems
    <3>2. m \in Nat /\ m < n
      BY <1>3, <1>6, <1>8, <2>2
    <3> QED
      BY <1>1, <3>1, <3>2
  <2>3. CASE m # n /\ got[g] # <<>>
    <3>1. got'[g][1] = got[g][1] /\ ToSet(got[g]) \subseteq ToSet(got'[g])
      BY <1>1, <1>2, <1>8, <2>3, AppendedItems
    <3>2. m \in ToSet(got[f]) \ Bad[g] /\ got[g][1] <= m
      BY <1>6, <2>3, <3>1
    <3> QED
      BY <2>3, <3>1, <3>2 DEF SiblingsAgree
  <2> QED
    BY <2>1, <2>2, <2>3
<1> QED
  BY <1>5, <1>7, <1>8

\* Nothing but the loop gives a feed an item.
LEMMA SiblingsNext ==
    TypeOK /\ WaitInv /\ SubscribedOnce /\ OrderInv /\ GotInv /\ SiblingsAgree /\ [Next]_vars
        => SiblingsAgree'
<1> SUFFICES ASSUME TypeOK, WaitInv, SubscribedOnce, OrderInv, GotInv, SiblingsAgree, [Next]_vars
             PROVE  SiblingsAgree'
  OBVIOUS
<1>1. CASE Receive
  BY <1>1, ReceiveAgrees
<1>2. CASE ~Receive
  <2>1. UNCHANGED got
    BY <1>2 DEF Next, ClientStep, Connect, Connected, ConnectFails, Subscribe, CancelCall, Unsubscribe,
       Produce, EarlyPublish, Resume, Propagate, BrokerDies, LoopFails, Close, RunDone, LoopCancelled,
       CloseEnds, vars
  <2> QED
    BY <2>1 DEF SiblingsAgree, Steady
<1> QED
  BY <1>1, <1>2

-----------------------------------------------------------------------------
\* The invariant holds in the first state, and every step keeps it.
LEMMA ClientInvariant == Spec => []ClientInv
<1>1. Init => ClientInv
  <2> SUFFICES ASSUME Init PROVE ClientInv
    OBVIOUS
  <2>1. TypeOK /\ WaitInv
    <3>1. /\ sent \in [Topic -> Nat] /\ \A t \in Topic : sent[t] \in 0..MaxItems[t]
      BY StreamClientAssumption DEF Init
    <3>2. wire \in Seq([topic : Topic, n : Nat]) /\ got \in [Feed -> Seq(Nat)]
      BY DEF Init
    <3>3. callbacks \in [Feed -> Nat] /\ {parked, woken} \subseteq [Call -> Nat]
      BY DEF Init
    <3> QED
      BY <3>1, <3>2, <3>3 DEF Init, TypeOK, WaitInv, Parks
  <2>2. WireInv /\ ItemsInOrder
    BY DEF Init, WireInv, WireInOrder, ItemsInOrder, Steady
  <2>3. SubscribedOnce /\ ClosedIsClosed
    BY <2>1 DEF Init, SubscribedOnce, ClosedIsClosed, Steady, Call
  <2>4. GotInv /\ SiblingsAgree
    BY DEF Init, GotInv, SiblingsAgree, Steady
  <2> QED
    BY <2>1, <2>2, <2>3, <2>4 DEF ClientInv
<1>2. ClientInv /\ [Next]_vars => ClientInv'
  BY TypeNext, SubscribedNext, ClosedNext, OrderNext, GotNext, SiblingsNext
     DEF ClientInv, OrderInv
<1> QED
  BY <1>1, <1>2, PTL DEF Spec

\* Connections, subscriptions, calls and items keep their types.
THEOREM TypeCorrect == Spec => []TypeOK
<1>1. ClientInv => TypeOK
  BY DEF ClientInv
<1> QED
  BY ClientInvariant, <1>1, PTL

\* However often and however early a feed is subscribed: as long as the client is
\* open, it has one callback or one call that will add it, and a feed that was not
\* asked for has neither (subscribe_to_dtype, subscribe, connect).
THEOREM SubscribedExactlyOnce == Spec => []SubscribedOnce
<1>1. ClientInv => SubscribedOnce
  BY DEF ClientInv
<1> QED
  BY ClientInvariant, <1>1, PTL

\* A feed gets its items in the order they were published in, none of them twice,
\* through early subscriptions, failures of the loop and closes (_run).
THEOREM ItemsAlwaysInOrder == Spec => []ItemsInOrder
<1>1. ClientInv => ItemsInOrder
  BY DEF ClientInv
<1> QED
  BY ClientInvariant, <1>1, PTL

\* Besides, the feeds of one topic get the same items: whatever the sockets and the
\* broker lose, what one feed got, another one misses only if it was there before the
\* first item it got itself, or if it could not decode it (_run).
THEOREM ItemsAlwaysOnce == Spec => []ItemsOnce
<1>1. ClientInv => ItemsOnce
  BY DEF ClientInv, WireInv, ItemsOnce
<1> QED
  BY ClientInvariant, <1>1, PTL

\* Nothing is left in a closed client, and nothing arrives there, whatever calls
\* went on while it was being closed (close, subscribe).
THEOREM ClosedStaysClosed == Spec => []ClosedIsClosed
<1>1. ClientInv => ClosedIsClosed
  BY DEF ClientInv
<1> QED
  BY ClientInvariant, <1>1, PTL
=============================================================================
