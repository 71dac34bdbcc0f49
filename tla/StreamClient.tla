---------------------------- MODULE StreamClient ----------------------------
(***************************************************************************)
(* A twin's stream client: PubSubClient over the transport ZMQ_PS_Client   *)
(* of streaming.py.  Feeds are what is subscribed: a dtype, with a topic   *)
(* of its own, or a pair of a channel and a dtype, whose topic is the      *)
(* channel.  A feed's callback puts into an unbounded queue, so that the   *)
(* receive loop handles an item without a wait in between.                 *)
(*                                                                         *)
(* Sockets and broker are modelled as the client sees them: a subscription *)
(* takes effect some time after it is made, what is published before is    *)
(* lost, and from there on items arrive in order, or are lost: the sockets *)
(* drop what is beyond their high-water marks, and the broker may die, to  *)
(* be respawned, under a client that stays connected.  Items are numbered  *)
(* in the order in which the broker takes them, or would have taken them.  *)
(***************************************************************************)
EXTENDS Naturals, Sequences, SequencesExt

CONSTANTS
    Feed,       \* what may be subscribed
    Topic,      \* the topics
    TopicOf,    \* the topic of each feed
    Fickle,     \* feeds that are also unsubscribed, or whose call is cancelled
    Bad,        \* per feed, the numbers of the items that it cannot decode
    MaxItems,   \* bound: per topic, the items published
    MaxCalls    \* bound: per feed and topic, the calls for it that wait

\* A waiting call is named by its argument: subscribe a feed, publish on a topic.
Call == Feed \cup Topic

ASSUME StreamClientAssumption ==
    /\ TopicOf \in [Feed -> Topic]
    /\ Fickle \subseteq Feed
    /\ Bad \in [Feed -> SUBSET Nat]
    /\ MaxItems \in [Topic -> Nat]
    /\ MaxCalls \in [Call -> Nat]
    /\ Feed \cap Topic = {}

VARIABLES
    conn,       \* the connection
    loop,       \* the receive loop
    told,       \* was the loss of the loop reported to on_error
    feeds,      \* subscriptions and channels
    callbacks,  \* per feed, its callbacks in the transport's topics
    parked,     \* per call, how many of them wait for is_running
    woken,      \* per call, how many of them have yet to go on
    known,      \* the topics whose items are sent to this client
    wire,       \* the items on their way that will reach the client, the oldest first
    sent,       \* per topic, the number of items published
    got         \* per feed, the items put into its queue

subVars == <<feeds, callbacks>>
callVars == <<parked, woken>>
netVars == <<known, wire, sent>>
vars == <<conn, loop, told, subVars, callVars, netVars, got>>

Init ==
    /\ conn = "new"
    /\ loop = "none"
    /\ told = FALSE
    /\ feeds = {}
    /\ callbacks = [f \in Feed |-> 0]
    /\ parked = [c \in Call |-> 0]
    /\ woken = [c \in Call |-> 0]
    /\ known = {}
    /\ wire = <<>>
    /\ sent = [t \in Topic |-> 0]
    /\ got = [f \in Feed |-> <<>>]

\* The transport takes calls; its sockets are there; is_running is not yet set.
IsOpen == conn \in {"new", "connecting", "up"}
HasSockets == conn # "closed"
Parks == conn \in {"new", "connecting"}

-----------------------------------------------------------------------------
\* connect() waits for both sockets.
Connect ==
    /\ conn = "new"
    /\ conn' = "connecting"
    /\ UNCHANGED <<loop, told, subVars, callVars, netVars, got>>

\* They are connected: the loop starts, and is_running wakes those who wait.
Connected ==
    /\ conn = "connecting"
    /\ conn' = "up"
    /\ loop' = "receiving"
    /\ woken' = parked
    /\ parked' = [c \in Call |-> 0]
    /\ UNCHANGED <<told, subVars, netVars, got>>

\* A timeout, a cancellation or an error: the transport is closed again.
ConnectFails ==
    /\ conn = "connecting"
    /\ conn' = "closed"
    /\ UNCHANGED <<loop, told, subVars, callVars, netVars, got>>

-----------------------------------------------------------------------------
\* Mutant: a subscription replaces the callbacks of its topic.
AddCallback_replaces(f) ==
    callbacks' = [g \in Feed |-> CASE g = f -> 1
                                    [] g # f /\ TopicOf[g] = TopicOf[f] -> 0
                                    [] OTHER -> callbacks[g]]
AddCallback(f) == callbacks' = [callbacks EXCEPT ![f] = @ + 1]

\* subscribe_to_channel(), subscribe_to_dtype(): a feed is recorded before the
\* transport is asked for it, which raises if it is closed.
Repeated_subscribed(f) == callbacks[f] > 0    \* mutant: recorded after the wait
Repeated(f) == f \in feeds

Subscribe(f) ==
    /\ ~Repeated(f)
    /\ feeds' = feeds \cup {f}
    /\ \/ /\ Parks /\ parked[f] < MaxCalls[f]
          /\ parked' = [parked EXCEPT ![f] = @ + 1]
          /\ UNCHANGED callbacks
       \/ conn = "up" /\ AddCallback(f) /\ UNCHANGED parked
       \/ ~IsOpen /\ UNCHANGED <<callbacks, parked>>
    /\ UNCHANGED <<conn, loop, told, woken, netVars, got>>

\* Whoever publishes, those can get it whose subscription has reached the broker:
\* one of the sockets may drop the item, or the broker die with it, and neither its
\* sender nor its receiver is told.
Send(t) ==
    /\ sent[t] < MaxItems[t]
    /\ sent' = [sent EXCEPT ![t] = @ + 1]
    /\ \/ t \in known /\ wire' = Append(wire, [topic |-> t, n |-> sent'[t]])
       \/ UNCHANGED wire

\* Another client publishes: a sensor, a task in another process.
Produce(t) ==
    /\ HasSockets
    /\ Send(t)
    /\ UNCHANGED <<conn, loop, told, subVars, callVars, known, got>>

\* publish() before the connection waits, otherwise it is like the above.
EarlyPublish(t) ==
    /\ Parks /\ parked[t] < MaxCalls[t]
    /\ parked' = [parked EXCEPT ![t] = @ + 1]
    /\ UNCHANGED <<conn, loop, told, subVars, woken, netVars, got>>

\* A call that waited goes on; if the client was closed since, it fails.
Resume(c) ==
    /\ woken[c] > 0
    /\ woken' = [woken EXCEPT ![c] = @ - 1]
    /\ \/ HasSockets /\ c \in Feed /\ AddCallback(c) /\ UNCHANGED <<sent, wire>>
       \/ HasSockets /\ c \in Topic /\ Send(c) /\ UNCHANGED callbacks
       \/ ~HasSockets /\ UNCHANGED <<callbacks, sent, wire>>
    /\ UNCHANGED <<conn, loop, told, feeds, parked, known, got>>

\* A subscription is cancelled while it waits; the feed stays recorded.
CancelCall(f) ==
    /\ f \in Fickle
    /\ parked[f] > 0
    /\ parked' = [parked EXCEPT ![f] = @ - 1]
    /\ UNCHANGED <<conn, loop, told, subVars, woken, netVars, got>>

\* unsubscribe_dtype(), unsubscribe_channel(): a topic goes with all its callbacks.
WithoutTopics(S) == [f \in Feed |-> IF TopicOf[f] \in S THEN 0 ELSE callbacks[f]]

Unsubscribe(f) ==
    /\ f \in Fickle \cap feeds
    /\ feeds' = feeds \ {f}
    /\ callbacks' = IF IsOpen THEN WithoutTopics({TopicOf[f]}) ELSE callbacks
    /\ UNCHANGED <<conn, loop, told, callVars, netVars, got>>

\* The broker learns what the client wants by now.
Wanted == {TopicOf[f] : f \in {g \in Feed : callbacks[g] > 0}}

Propagate ==
    /\ conn = "up"
    /\ known # Wanted
    /\ known' = Wanted
    /\ UNCHANGED <<conn, loop, told, subVars, callVars, wire, sent, got>>

\* The broker dies, and with it what it knows of the client.  That stays connected:
\* its sockets reconnect to the one that _supervise() starts on the same addresses,
\* and subscribe there again.
BrokerDies ==
    /\ known # {}
    /\ known' = {}
    /\ UNCHANGED <<conn, loop, told, subVars, callVars, wire, sent, got>>

-----------------------------------------------------------------------------
\* _run() takes an item and calls all callbacks of its topic, once each; a feed drops
\* one that it cannot decode, and one that nobody wants any more is dropped.
Deliveries(f, item) ==
    IF TopicOf[f] = item.topic /\ item.n \notin Bad[f] THEN callbacks[f] ELSE 0

Receive ==
    /\ loop = "receiving"
    /\ wire # <<>>
    /\ wire' = Tail(wire)
    /\ got' = [f \in Feed |->
                 got[f] \o [i \in 1..Deliveries(f, Head(wire)) |-> Head(wire).n]]
    /\ UNCHANGED <<conn, loop, told, subVars, callVars, known, sent>>

\* The socket fails: the loop ends, and its done-callback is to run.
LoopFails ==
    /\ loop = "receiving"
    /\ loop' = "failed"
    /\ UNCHANGED <<conn, told, subVars, callVars, netVars, got>>

\* _run_done() reports a loss, unless the client was closed.
Reports_never == FALSE    \* mutant: an ended loop counts as a cancelled one
Reports == IsOpen

RunDone ==
    /\ loop = "failed"
    /\ loop' = "ended"
    /\ told' = Reports
    /\ UNCHANGED <<conn, subVars, callVars, netVars, got>>

-----------------------------------------------------------------------------
\* The sockets go, with what is on its way to them.
Released ==
    /\ conn' = "closed"
    /\ known' = {}
    /\ wire' = <<>>
    /\ UNCHANGED sent

\* close(): unsubscribe all, and cancel the loop.  There is nothing to wait for if
\* it has not started, or has ended: then close() is over, or raises, at once.
\* Nobody has the client to close it while connect() is in progress.
Close ==
    /\ conn \in {"new", "up"}
    /\ feeds' = {}
    /\ \/ /\ loop = "receiving"
          /\ loop' = "cancelled"
          /\ conn' = "closing"
          /\ callbacks' = WithoutTopics({TopicOf[f] : f \in feeds})
          /\ UNCHANGED netVars
       \/ /\ loop # "receiving"
          /\ UNCHANGED loop
          /\ callbacks' = [f \in Feed |-> 0]
          /\ Released
    /\ UNCHANGED <<told, callVars, got>>

LoopCancelled ==
    /\ loop = "cancelled"
    /\ loop' = "ended"
    /\ UNCHANGED <<conn, told, subVars, callVars, netVars, got>>

\* The loop has ended, or the one who closes is cancelled while waiting for it: in
\* either case everything is released.
Left_before(cb) == cb                      \* mutant: topics cleared before the wait
Left(cb) == [f \in Feed |-> 0]

CloseEnds ==
    /\ conn = "closing"
    /\ callbacks' = Left(callbacks)
    /\ Released
    /\ UNCHANGED <<loop, told, feeds, callVars, got>>

-----------------------------------------------------------------------------
ClientStep == Receive \/ RunDone \/ LoopCancelled \/ CloseEnds

Next ==
    \/ Connect \/ Connected \/ ConnectFails
    \/ \E f \in Feed : Subscribe(f) \/ CancelCall(f) \/ Unsubscribe(f)
    \/ \E t \in Topic : Produce(t) \/ EarlyPublish(t)
    \/ \E c \in Call : Resume(c)
    \/ Propagate \/ BrokerDies \/ LoopFails \/ Close
    \/ ClientStep

Spec == Init /\ [][Next]_vars

\* The event loop runs the tasks of the client that are ready.
FairSpec ==
    /\ Spec
    /\ WF_vars(Receive) /\ WF_vars(RunDone)
    /\ WF_vars(LoopCancelled) /\ WF_vars(CloseEnds)

-----------------------------------------------------------------------------
\* Types of the state.
TypeOK ==
    /\ conn \in {"new", "connecting", "up", "closing", "closed"}
    /\ loop \in {"none", "receiving", "failed", "cancelled", "ended"}
    /\ told \in BOOLEAN
    /\ feeds \subseteq Feed
    /\ callbacks \in [Feed -> Nat]
    /\ {parked, woken} \subseteq [Call -> Nat]
    /\ known \subseteq Topic
    /\ wire \in Seq([topic : Topic, n : Nat])
    /\ \A t \in Topic : sent[t] \in 0..MaxItems[t]
    /\ got \in [Feed -> Seq(Nat)]

\* Feeds that are not disturbed: neither they nor a feed of the same topic is ever
\* unsubscribed or cancelled.
Steady == {f \in Feed : \A g \in Fickle : TopicOf[g] # TopicOf[f]}

\* Subscribed once (subscribe_to_dtype, subscribe): a feed of an open client that
\* was asked for, however often and however early, has one callback or one call
\* that will add it, and a feed that was not has neither.
SubscribedOnce ==
    /\ TypeOK
    /\ IsOpen => \A f \in Steady :
          callbacks[f] + parked[f] + woken[f] = (IF f \in feeds THEN 1 ELSE 0)

\* In order (_run): whatever happens to the client, a feed gets later items after
\* earlier ones, each at most once, and none that it could not decode.
ItemsInOrder ==
    \A f \in Steady :
        /\ \A i, j \in DOMAIN got[f] : i < j => got[f][i] < got[f][j]
        /\ \A i \in DOMAIN got[f] : got[f][i] \in (1..sent[TopicOf[f]]) \ Bad[f]

\* Items are on their way in the order they were published in, and what a feed
\* got is older than what is on its way to it.
WireInOrder ==
    /\ \A i, j \in DOMAIN wire :
          i < j /\ wire[i].topic = wire[j].topic => wire[i].n < wire[j].n
    /\ \A f \in Steady : \A i \in DOMAIN wire, j \in DOMAIN got[f] :
          wire[i].topic = TopicOf[f] => got[f][j] < wire[i].n

\* No feed is starved: of the items that one feed of a topic got, another one misses
\* none since its own first one, but for those that it could not decode.
SiblingsAgree ==
    \A f, g \in Steady :
        TopicOf[f] = TopicOf[g] /\ got[g] # <<>> =>
            \A n \in ToSet(got[f]) \ Bad[g] : got[g][1] <= n => n \in ToSet(got[g])

\* Items once and in order (_run): and those that feed one topic get the same ones,
\* whatever is lost on the way to the client, and whatever one of them makes of it.
ItemsOnce ==
    /\ ItemsInOrder
    /\ WireInOrder
    /\ SiblingsAgree

\* Closed is closed (close, subscribe): nothing is left in a closed client,
\* whatever went on while it was closed, and nothing arrives there.
ClosedIsClosed ==
    conn = "closed" => /\ \A f \in Feed : callbacks[f] = 0
                       /\ loop # "receiving"

\* Received is delivered (_run, _run_done): an item that gets as far as the client's
\* socket arrives at a feed that wants it, or the owner of the client is told that the
\* loop is lost.  What a socket drops, or dies with a broker, nobody is told of.
ReceivedArrives ==
    \A f \in Steady : \A n \in (1..MaxItems[TopicOf[f]]) \ Bad[f] :
        (callbacks[f] > 0 /\ [topic |-> TopicOf[f], n |-> n] \in ToSet(wire))
            ~> (Contains(got[f], n) \/ told \/ ~IsOpen)
=============================================================================
