------------------------------ MODULE Barrier ------------------------------
(***************************************************************************)
(* The stream synchroniser Barrier of components.py: one producer task per *)
(* stream calls put(), one task executes run(), one consumer per stream    *)
(* calls get().  All of them share one asyncio event loop.                 *)
(*                                                                         *)
(* Atomicity.  No await inside put() or run() yields while the condition's *)
(* lock is held, so the lock is never contended and everything between two *)
(* suspension points is one step: a put() runs to its end unless its       *)
(* predicate is false, and run() goes from its last acquired permit to the *)
(* next notify_all() without a break.                                      *)
(*                                                                         *)
(* A stream's values are the numbers 1, 2, ... in the order of its put()s. *)
(***************************************************************************)
EXTENDS Integers, FiniteSets, Sequences

CONSTANTS
    Stream,     \* the DataTypes the barrier synchronises
    Hard,       \* those registered with hard=True
    Late,       \* those registered only after run() may have begun
    MaxItems,   \* bound: puts per hard stream, and rounds
    MaxWindow   \* bound: soft puts per stream and round

ASSUME StreamAssumption ==
    /\ IsFiniteSet(Stream)
    /\ Hard \subseteq Stream
    /\ Late \subseteq Stream

Soft == Stream \ Hard

VARIABLES
    dtypes,            \* the registered streams
    version_numbers,   \* per stream, the round of its latest hard put
    global_version,    \* the number of completed rounds
    update,            \* permits released and not used up by a completed round
    quota,             \* permits the round in progress waits for
    set_soft,          \* has a soft put released the soft permits of the round
    previous,          \* per soft stream, the values of its next window
    previous_retain,   \* is previous left over from an earlier round
    emitted,           \* per stream, all that was placed on its output queue
    taken,             \* per stream, how many of these get() has returned
    sent,              \* per stream, the number of put() calls so far
    put_pc,            \* where the stream's producer is in put()
    run_pc             \* where run() is

vars == <<dtypes, version_numbers, global_version, update, quota, set_soft,
          previous, previous_retain, emitted, taken, sent, put_pc, run_pc>>

runVars  == <<global_version, quota, run_pc>>
softVars == <<set_soft, previous, previous_retain>>
hardVars == <<version_numbers, put_pc>>

SoftStreams == dtypes \ Hard

Init ==
    /\ dtypes = Stream \ Late
    /\ version_numbers = [d \in Stream |-> -1]
    /\ global_version = 0
    /\ update = 0
    /\ quota = 0
    /\ set_soft = FALSE
    /\ previous = [d \in Stream |-> <<>>]
    /\ previous_retain = [d \in Stream |-> TRUE]
    /\ emitted = [d \in Stream |-> <<>>]
    /\ taken = [d \in Stream |-> 0]
    /\ sent = [d \in Stream |-> 0]
    /\ put_pc = [d \in Stream |-> "idle"]
    /\ run_pc = "polling"

-----------------------------------------------------------------------------
\* add_dtype(): a new stream joins at the round in progress.
AddDtype(d) ==
    /\ d \notin dtypes
    /\ dtypes' = dtypes \cup {d}
    /\ version_numbers' = [version_numbers EXCEPT ![d] = global_version - 1]
    /\ UNCHANGED <<runVars, softVars, update, emitted, taken, sent, put_pc>>

\* The window of d after the soft put of v: a value left over from an earlier
\* round is replaced, values of this round are kept.
Store_keeps_old(d, v) == Append(previous[d], v)    \* mutant: never replaced
Store(d, v) == IF previous_retain[d] THEN <<v>> ELSE Append(previous[d], v)

\* The permits a soft put releases: those of every soft stream, once a round.
SoftPermits_own == IF set_soft THEN 0 ELSE 1    \* mutant: only its own
SoftPermits == IF set_soft THEN 0 ELSE Cardinality(SoftStreams)

\* put() on a soft stream.  It never waits.
SoftPut(d) ==
    /\ d \in SoftStreams
    /\ global_version < MaxItems
    /\ previous_retain[d] \/ Len(previous[d]) < MaxWindow
    /\ sent' = [sent EXCEPT ![d] = @ + 1]
    /\ previous' = [previous EXCEPT ![d] = Store(d, sent'[d])]
    /\ previous_retain' = [previous_retain EXCEPT ![d] = FALSE]
    /\ set_soft' = TRUE
    /\ update' = update + SoftPermits
    /\ UNCHANGED <<runVars, hardVars, dtypes, emitted, taken>>

\* The predicate a hard put() waits for.
MayPut_again(d) == version_numbers[d] <= global_version    \* mutant: off by one
MayPut(d) == version_numbers[d] < global_version

\* The rest of a hard put() once its predicate holds: count the stream in,
\* release a permit, hand the value on.
Deliver(d) ==
    /\ version_numbers' = [version_numbers EXCEPT ![d] = @ + 1]
    /\ update' = update + 1
    /\ emitted' = [emitted EXCEPT ![d] = Append(@, sent'[d])]
    /\ put_pc' = [put_pc EXCEPT ![d] = "idle"]

\* put() on a hard stream, up to its first suspension.
HardPut(d) ==
    /\ d \in dtypes \cap Hard
    /\ put_pc[d] = "idle"
    /\ sent[d] < MaxItems
    /\ sent' = [sent EXCEPT ![d] = @ + 1]
    /\ \/ MayPut(d) /\ Deliver(d)
       \/ /\ ~MayPut(d)
          /\ put_pc' = [put_pc EXCEPT ![d] = "waiting"]
          /\ UNCHANGED <<version_numbers, update, emitted>>
    /\ UNCHANGED <<runVars, softVars, dtypes, taken>>

\* A notified put() tests its predicate again: it delivers, or waits on.
HardResume(d) ==
    /\ put_pc[d] = "notified"
    /\ UNCHANGED sent
    /\ \/ MayPut(d) /\ Deliver(d)
       \/ /\ ~MayPut(d)
          /\ put_pc' = [put_pc EXCEPT ![d] = "waiting"]
          /\ UNCHANGED <<version_numbers, update, emitted>>
    /\ UNCHANGED <<runVars, softVars, dtypes, taken>>

\* get(): the stream's consumer takes the next output.
Get(d) ==
    /\ d \in dtypes
    /\ taken[d] < Len(emitted[d])
    /\ taken' = [taken EXCEPT ![d] = @ + 1]
    /\ UNCHANGED <<runVars, softVars, hardVars, dtypes, update, emitted, sent>>

-----------------------------------------------------------------------------
\* Mutant: notify() in place of notify_all().
NotifyAll_one ==
    put_pc' = IF \E d \in Stream : put_pc[d] = "waiting"
              THEN [put_pc EXCEPT ![CHOOSE d \in Stream : put_pc[d] = "waiting"] = "notified"]
              ELSE put_pc

NotifyAll ==
    put_pc' = [d \in Stream |->
                 IF put_pc[d] = "waiting" THEN "notified" ELSE put_pc[d]]

\* run() starts its first round as soon as one stream is registered.  The
\* number of permits a round waits for is read once, when the round starts.
RunBegin ==
    /\ run_pc = "polling"
    /\ dtypes # {}
    /\ run_pc' = "running"
    /\ quota' = Cardinality(dtypes)
    /\ NotifyAll
    /\ UNCHANGED <<softVars, dtypes, version_numbers, global_version, update,
                   emitted, taken, sent>>

\* run() has acquired every permit of the round.
RoundReady_short == run_pc = "running" /\ update >= quota - 1    \* mutant: one too few
RoundReady ==
    /\ run_pc = "running"
    /\ update >= quota

Emit(S) == [d \in Stream |->
              IF d \in S THEN Append(emitted[d], previous[d]) ELSE emitted[d]]

\* run() has all its permits: emit a window on every soft stream, keep its
\* last value for the next window, open the next round and wake the puts.
RunRound ==
    /\ RoundReady
    /\ \A s \in SoftStreams : previous[s] # <<>>
    /\ update' = update - quota
    /\ quota' = Cardinality(dtypes)
    /\ set_soft' = FALSE
    /\ emitted' = Emit(SoftStreams)
    /\ previous' = [d \in Stream |->
                      IF d \in SoftStreams THEN <<previous[d][Len(previous[d])]>>
                                           ELSE previous[d]]
    /\ previous_retain' = [d \in Stream |-> d \in SoftStreams \/ previous_retain[d]]
    /\ global_version' = global_version + 1
    /\ NotifyAll
    /\ UNCHANGED <<dtypes, version_numbers, taken, sent, run_pc>>

\* A soft stream s without any value: its empty window goes out, then reading
\* the last value of the empty list raises IndexError and ends run().  The
\* streams registered before s have already emitted theirs.
RunRaises ==
    /\ RoundReady
    /\ \E s \in SoftStreams : \E S \in SUBSET (SoftStreams \ {s}) :
         /\ previous[s] = <<>>
         /\ \A t \in S : previous[t] # <<>>
         /\ emitted' = Emit(S \cup {s})
         /\ previous' = [d \in Stream |->
                           IF d \in S THEN <<previous[d][Len(previous[d])]>>
                                      ELSE previous[d]]
         /\ previous_retain' = [d \in Stream |-> d \in S \/ previous_retain[d]]
    /\ update' = update - quota
    /\ set_soft' = FALSE
    /\ run_pc' = "failed"
    /\ UNCHANGED <<hardVars, dtypes, global_version, quota, taken, sent>>

-----------------------------------------------------------------------------
Next ==
    \/ \E d \in Stream :
         AddDtype(d) \/ SoftPut(d) \/ HardPut(d) \/ HardResume(d) \/ Get(d)
    \/ RunBegin
    \/ RunRound
    \/ RunRaises

Spec == Init /\ [][Next]_vars

\* The event loop runs every task that is ready: run(), and each woken put().
LoopFairness ==
    /\ WF_vars(RunBegin)
    /\ WF_vars(RunRound)
    /\ \A d \in Stream : WF_vars(HardResume(d))

\* Every stream keeps delivering.
Producers == \A d \in Stream : WF_vars(HardPut(d)) /\ WF_vars(SoftPut(d))

FairSpec == Spec /\ LoopFairness /\ Producers

-----------------------------------------------------------------------------
\* Types of the state.
TypeOK ==
    /\ dtypes \subseteq Stream
    /\ version_numbers \in [Stream -> Int]
    /\ global_version \in Nat
    /\ update \in Nat
    /\ quota \in Nat
    /\ set_soft \in BOOLEAN
    /\ previous \in [Stream -> Seq(Nat)]
    /\ previous_retain \in [Stream -> BOOLEAN]
    /\ DOMAIN emitted = Stream
    /\ \A h \in Hard : emitted[h] \in Seq(Nat)
    /\ \A s \in Soft : emitted[s] \in Seq(Seq(Nat))
    /\ taken \in [Stream -> Nat]
    /\ sent \in [Stream -> Nat]
    /\ put_pc \in [Stream -> {"idle", "waiting", "notified"}]
    /\ \A s \in Soft : put_pc[s] = "idle"
    /\ run_pc \in {"polling", "running", "failed"}

\* The hard streams that delivered a value in the round in progress.
Delivered == {h \in Hard : version_numbers[h] = global_version}

\* Permits are exact (run, put): next to the types, the semaphore holds one permit
\* for each hard stream that delivered in this round, and all the soft permits or none.
PermitsExact ==
    /\ TypeOK
    /\ run_pc # "failed" =>
         update = Cardinality(Delivered) + (IF set_soft THEN Cardinality(Soft) ELSE 0)

\* Lockstep (put): no stream's output is ahead of or behind the round in
\* progress by more than the round itself.  A hard stream has emitted one value
\* per completed round plus at most the current one, a soft stream exactly one
\* window per completed round, so k-th outputs of different streams belong
\* together.
Lockstep ==
    run_pc # "failed" =>
        /\ \A h \in Hard : Len(emitted[h]) = version_numbers[h] + 1
        /\ \A h \in Hard : version_numbers[h] \in {global_version - 1, global_version}
        /\ \A s \in Soft : Len(emitted[s]) = global_version

\* A round is complete (run): the counter moves on only when every hard stream
\* has emitted its value of that round and some soft stream a new value, and
\* then it moves by one.
RoundComplete ==
    [][global_version' # global_version =>
         /\ global_version' = global_version + 1
         /\ \A h \in Hard : Len(emitted[h]) = global_version + 1
         /\ Soft # {} => \E s \in Soft : ~previous_retain[s]]_vars

Contiguous(w) == w # <<>> /\ \A i \in 1..Len(w)-1 : w[i+1] = w[i] + 1

Follows(v, w) ==
    \/ w = <<v[Len(v)]>>
    \/ Contiguous(w) /\ w[1] = v[Len(v)] + 1

\* The windows of a stream, the one being collected last.
Windows(s) == IF previous[s] = <<>> THEN emitted[s] ELSE Append(emitted[s], previous[s])

\* No soft value is lost, duplicated or reordered (put, run): a window holds
\* exactly the values put since the window before it, or repeats the latest
\* one if there are none, and the latest value put is always in the last.
SoftWindowsExact ==
    run_pc # "failed" =>
        \A s \in Soft :
            LET ws == Windows(s)
                n  == Len(ws)
            IN  /\ sent[s] > 0 => n > 0
                /\ n > 0 => /\ Contiguous(ws[1]) /\ ws[1][1] = 1
                            /\ ws[n][Len(ws[n])] = sent[s]
                /\ \A i \in 1..n-1 : Follows(ws[i], ws[i+1])

\* No lost wakeup (put, run): a put() that waits is one whose stream already
\* delivered in this round, as long as run() lives; a stream that may deliver is
\* never left asleep.
NoLostWakeup ==
    run_pc # "failed" =>
        \A h \in Hard : put_pc[h] = "waiting" => ~MayPut(h)

\* A hard put() that has to wait completes, if all streams keep delivering.
HeldPutCompletes ==
    \A h \in Hard : put_pc[h] # "idle" ~> (put_pc[h] = "idle" \/ run_pc = "failed")

-----------------------------------------------------------------------------
\* The counting semaphore, the versions and the condition implement rounds:
\* see Rounds.
R == INSTANCE Rounds WITH
        round   <- global_version,
        arrived <- Delivered,
        fresh   <- set_soft,
        alive   <- run_pc # "failed"

\* Every step of the class is a step of Rounds or changes nothing it sees.
ImplementsRounds == R!Spec
=============================================================================
