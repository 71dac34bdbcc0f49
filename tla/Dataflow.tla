------------------------------ MODULE Dataflow ------------------------------
(***************************************************************************)
(* How an item travels through a twin: from a component's output or from   *)
(* the stream to the queue of its dtype, through the chain of barriers the *)
(* dtype has, to the components registered for it (runtime.py).            *)
(*                                                                         *)
(* Per dtype there are two consumer tasks, _launch_consumer between queue  *)
(* and first barrier, and _launch_b_consumer behind the last one; per      *)
(* dtype and barrier behind the first, a _barrier_consumer in front of it. *)
(*                                                                         *)
(* The barriers are hard and span all dtypes; of each there is what Rounds *)
(* promises: a round lets one item of each dtype pass.  All components of  *)
(* a dtype together are one activity: the consumer waits until all of them *)
(* are through.  The items of a dtype are the numbers 1, 2, ...            *)
(***************************************************************************)
EXTENDS Naturals, FiniteSets, SequencesExt

CONSTANTS
    Dtype,
    Consumed,       \* the dtypes with components
    MaxItems,       \* bound: items per dtype
    MaxBarriers     \* bound: barriers added

ASSUME DataflowAssumption ==
    /\ Consumed \subseteq Dtype
    /\ MaxItems \in Nat /\ MaxBarriers \in Nat

Barrier == 1..MaxBarriers
Nothing == 0
Item == 1..MaxItems

VARIABLES
    sent,       \* per dtype, the number of items produced
    dropped,    \* per dtype, those of them that were not taken
    bound,      \* the dtypes with a queue, and with that a consumer
    queue,      \* dtype_queues
    barriers,   \* the number of barriers in the chain
    arrived,    \* per barrier, the dtypes that delivered in its round
    out,        \* per barrier and dtype, its output queue
    carried,    \* per barrier and dtype, the item the task in front of it has
                \* taken and not delivered yet
    created,    \* the dtypes whose barrier_creation event is set
    direct,     \* the item _launch_consumer has components work on
    listens,    \* the barrier whose output _launch_b_consumer awaits
    behind,     \* the item _launch_b_consumer has components work on
    done,       \* per dtype, all that components began to work on
    late        \* history: a barrier was added while items were on their way

queueVars == <<sent, dropped, bound, queue>>
chainVars == <<barriers, arrived, out, carried, late>>
workVars == <<created, direct, listens, behind, done>>
vars == <<queueVars, chainVars, workVars>>

Init ==
    /\ sent = [d \in Dtype |-> 0]
    /\ dropped = [d \in Dtype |-> {}]
    /\ bound = {}
    /\ queue = [d \in Dtype |-> <<>>]
    /\ barriers = 0
    /\ arrived = [k \in Barrier |-> {}]
    /\ out = [k \in Barrier |-> [d \in Dtype |-> <<>>]]
    /\ carried = [k \in Barrier |-> [d \in Dtype |-> Nothing]]
    /\ created = {}
    /\ direct = [d \in Dtype |-> Nothing]
    /\ listens = [d \in Dtype |-> Nothing]
    /\ behind = [d \in Dtype |-> Nothing]
    /\ done = [d \in Dtype |-> <<>>]
    /\ late = FALSE

-----------------------------------------------------------------------------
\* _ensure_dtype_queue()
Ensured(d) == bound \cup {d}

\* add_input(), or the subscription of a persistent component's output: the
\* dtype gets its queue and consumer.
Bind(d) ==
    /\ bound' = Ensured(d)
    /\ UNCHANGED <<sent, dropped, queue, chainVars, workVars>>

\* _put_to_dtype_queue(), and for a bound dtype also the stream's callback.
Emit(d) ==
    /\ sent[d] < MaxItems
    /\ sent' = [sent EXCEPT ![d] = @ + 1]
    /\ IF d \in bound \cup Consumed
       THEN /\ bound' = Ensured(d)
            /\ queue' = [queue EXCEPT ![d] = Append(@, sent'[d])]
            /\ UNCHANGED dropped
       ELSE /\ dropped' = [dropped EXCEPT ![d] = @ \cup {sent'[d]}]
            /\ UNCHANGED <<bound, queue>>
    /\ UNCHANGED <<chainVars, workVars>>

\* add_barrier()
AddBarrier ==
    /\ barriers < MaxBarriers
    /\ barriers' = barriers + 1
    /\ late' = (late \/ \E d \in Dtype : sent[d] > 0)
    /\ UNCHANGED <<queueVars, arrived, out, carried, workVars>>

-----------------------------------------------------------------------------
\* _launch_consumer awaits the components before it takes the next item ...
Idle_always(d) == TRUE    \* mutant: runs them as tasks
Idle(d) == direct[d] = Nothing

\* ... and, as a _barrier_consumer does, the put() of what it took.
HandsFree_always(k, d) == TRUE    \* mutant: does not
HandsFree(k, d) == carried[k][d] = Nothing

\* _launch_consumer: the next item goes to the first barrier ...
QueueToBarrier(d) ==
    /\ queue[d] # <<>>
    /\ Idle(d)
    /\ barriers > 0
    /\ HandsFree(1, d)
    /\ queue' = [queue EXCEPT ![d] = Tail(@)]
    /\ carried' = [carried EXCEPT ![1][d] = Head(queue[d])]
    /\ created' = created \cup {d}
    /\ UNCHANGED <<sent, dropped, bound, barriers, late, arrived, out, direct,
                   listens, behind, done>>

\* ... or, as long as there is none, to the components, which it waits for.
QueueToWork(d) ==
    /\ queue[d] # <<>>
    /\ Idle(d)
    /\ barriers = 0
    /\ queue' = [queue EXCEPT ![d] = Tail(@)]
    /\ direct' = [direct EXCEPT ![d] = Head(queue[d])]
    /\ done' = [done EXCEPT ![d] = Append(@, Head(queue[d]))]
    /\ UNCHANGED <<sent, dropped, bound, chainVars, created, listens, behind>>

DirectWorkEnds(d) ==
    /\ direct[d] # Nothing
    /\ direct' = [direct EXCEPT ![d] = Nothing]
    /\ UNCHANGED <<queueVars, chainVars, created, listens, behind, done>>

\* put() of the item held in front of barrier k: it waits for the next round.
MayPut_always(k, d) == TRUE    \* mutant: no round
MayPut(k, d) == d \notin arrived[k]

Deliver(k, d) ==
    /\ carried[k][d] # Nothing
    /\ MayPut(k, d)
    /\ arrived' = [arrived EXCEPT ![k] = @ \cup {d}]
    /\ out' = [out EXCEPT ![k][d] = Append(@, carried[k][d])]
    /\ carried' = [carried EXCEPT ![k][d] = Nothing]
    /\ UNCHANGED <<queueVars, barriers, late, workVars>>

\* run() of barrier k.
RoundEnds(k) ==
    /\ k <= barriers
    /\ arrived[k] = Dtype
    /\ arrived' = [arrived EXCEPT ![k] = {}]
    /\ UNCHANGED <<queueVars, barriers, late, out, carried, workVars>>

\* _barrier_consumer in front of barrier k takes from the barrier before.
Forward(k, d) ==
    /\ k \in 2..barriers
    /\ HandsFree(k, d)
    /\ out[k-1][d] # <<>>
    /\ out' = [out EXCEPT ![k-1][d] = Tail(@)]
    /\ carried' = [carried EXCEPT ![k][d] = Head(out[k-1][d])]
    /\ UNCHANGED <<queueVars, barriers, late, arrived, workVars>>

\* _launch_b_consumer awaits an item of what is then the last barrier ...
Exit_first == 1    \* mutant: of the first one
Exit == barriers

Listen(d) ==
    /\ d \in created
    /\ behind[d] = Nothing
    /\ listens[d] = Nothing
    /\ listens' = [listens EXCEPT ![d] = Exit]
    /\ UNCHANGED <<queueVars, chainVars, created, direct, behind, done>>

\* ... takes one, has the components work on it ...
BarrierToWork(d) ==
    /\ listens[d] # Nothing
    /\ out[listens[d]][d] # <<>>
    /\ out' = [out EXCEPT ![listens[d]][d] = Tail(@)]
    /\ listens' = [listens EXCEPT ![d] = Nothing]
    /\ behind' = [behind EXCEPT ![d] = Head(out[listens[d]][d])]
    /\ done' = [done EXCEPT ![d] = Append(@, behind'[d])]
    /\ UNCHANGED <<queueVars, barriers, late, arrived, carried, created, direct>>

\* ... and waits for them.
WorkEnds(d) ==
    /\ behind[d] # Nothing
    /\ behind' = [behind EXCEPT ![d] = Nothing]
    /\ UNCHANGED <<queueVars, chainVars, created, direct, listens, done>>

-----------------------------------------------------------------------------
Route(d) ==
    \/ QueueToBarrier(d) \/ QueueToWork(d) \/ Listen(d) \/ BarrierToWork(d)
    \/ \E k \in Barrier : Deliver(k, d) \/ Forward(k, d)

Next ==
    \/ \E d \in Dtype : \/ Bind(d) \/ Emit(d) \/ Route(d)
                        \/ DirectWorkEnds(d) \/ WorkEnds(d)
    \/ \E k \in Barrier : RoundEnds(k)
    \/ AddBarrier

Spec == Init /\ [][Next]_vars

\* The event loop runs the consumers and barriers, and components come to an
\* end.
Fairness ==
    /\ \A d \in Dtype :
         /\ WF_vars(QueueToBarrier(d)) /\ WF_vars(QueueToWork(d)) /\ WF_vars(Listen(d))
         /\ WF_vars(BarrierToWork(d)) /\ WF_vars(DirectWorkEnds(d)) /\ WF_vars(WorkEnds(d))
         /\ \A k \in Barrier : WF_vars(Deliver(k, d)) /\ WF_vars(Forward(k, d))
    /\ \A k \in Barrier : WF_vars(RoundEnds(k))

FairSpec == Spec /\ Fairness

-----------------------------------------------------------------------------
\* Types of the state.
TypeOK ==
    /\ sent \in [Dtype -> 0..MaxItems]
    /\ dropped \in [Dtype -> SUBSET Item]
    /\ bound \subseteq Dtype
    /\ queue \in [Dtype -> Seq(Item)]
    /\ barriers \in 0..MaxBarriers
    /\ arrived \in [Barrier -> SUBSET Dtype]
    /\ out \in [Barrier -> [Dtype -> Seq(Item)]]
    /\ carried \in [Barrier -> [Dtype -> Item \cup {Nothing}]]
    /\ created \subseteq bound
    /\ direct \in [Dtype -> Item \cup {Nothing}]
    /\ listens \in [Dtype -> Barrier \cup {Nothing}]
    /\ behind \in [Dtype -> Item \cup {Nothing}]
    /\ done \in [Dtype -> Seq(Item)]
    /\ late \in BOOLEAN

Held(i) == IF i = Nothing THEN <<>> ELSE <<i>>

\* The way of an item: the queue, the barriers, each with what is held in front of
\* it, the components.
Work == MaxBarriers + 1
Place == (0..barriers) \cup {Work}

Line(d, p) == IF p = 0 THEN queue[d]
              ELSE IF p = Work THEN done[d]
              ELSE out[p][d] \o Held(carried[p][d])

\* The pipeline is exact (_launch_consumer, _barrier_consumer,
\* _launch_b_consumer): all items taken are on their way or with the components,
\* each once; none overtakes an older one, unless barriers came while items were
\* on their way.
PipelineExact ==
    /\ TypeOK
    /\ \A d \in Dtype :
         /\ UNION {ToSet(Line(d, p)) : p \in Place} = (1..sent[d]) \ dropped[d]
         /\ \A p, q \in Place : \A i \in DOMAIN Line(d, p), j \in DOMAIN Line(d, q) :
              /\ <<p, i>> # <<q, j>> => Line(d, p)[i] # Line(d, q)[j]
              /\ ~late /\ (p > q \/ (p = q /\ i < j)) => Line(d, p)[i] < Line(d, q)[j]

\* One item at a time (_launch_consumer, _launch_b_consumer): a dtype's
\* components never work on an item passed to them directly and on one from
\* behind the barriers at once, also while the first barrier is added.
OneAtATime == \A d \in Dtype : direct[d] = Nothing \/ behind[d] = Nothing

\* The chain synchronises (add_barrier, _barrier_consumer): the components of a
\* dtype are at most one round ahead of what the last barrier let pass of any
\* other.
Passed(d) == Len(done[d]) + Len(out[barriers][d])

RoundsAligned ==
    barriers > 0 /\ ~late => \A d, e \in Dtype : Passed(d) <= Passed(e) + 1

\* What is taken gets through, as long as the other dtypes deliver as much.
ItemsArrive ==
    \A d \in Dtype, n \in Item :
        (/\ sent[d] >= n /\ \A e \in Dtype : sent[e] >= n /\ dropped[e] = {})
            ~> (Len(done[d]) >= n \/ late)
=============================================================================
