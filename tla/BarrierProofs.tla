--------------------------- MODULE BarrierProofs ---------------------------
(***************************************************************************)
(* Proofs about Barrier, for any number of streams, hard or soft, and any  *)
(* bounds.  What the rounds guarantee is proved for barriers whose streams *)
(* are all registered before run() begins (Late = {}), what becomes of     *)
(* windows and wakeups for streams registered at any time.                 *)
(***************************************************************************)
EXTENDS Barrier, FiniteSetTheorems, TLAPS

\* The cardinalities of streams are natural numbers, and add up.
LEMMA StreamCounts ==
    /\ \A S \in SUBSET Stream : IsFiniteSet(S) /\ Cardinality(S) \in Nat
    /\ Cardinality(Stream) = Cardinality(Hard) + Cardinality(Soft)
    /\ Soft # {} => Cardinality(Soft) > 0
<1>1. \A S \in SUBSET Stream : IsFiniteSet(S) /\ Cardinality(S) \in Nat
  BY FS_Subset, FS_CardinalityType, StreamAssumption
<1>2. Hard \cup Soft = Stream /\ Hard \cap Soft = {}
  BY StreamAssumption DEF Soft
<1>3. IsFiniteSet(Hard) /\ IsFiniteSet(Soft)
  BY <1>1, StreamAssumption DEF Soft
<1>4. Cardinality(Hard \cup Soft) = Cardinality(Hard) + Cardinality(Soft)
                                      - Cardinality(Hard \cap Soft)
  BY <1>3, FS_Union
<1>5. Cardinality(Hard \cap Soft) = 0
  BY <1>2, FS_EmptySet
<1>6. Soft # {} => Cardinality(Soft) > 0
  BY <1>1, <1>3, FS_EmptySet DEF Soft
<1>7. Cardinality(Hard) \in Nat /\ Cardinality(Soft) \in Nat
  BY <1>1, StreamAssumption DEF Soft
<1>8. Cardinality(Stream) = Cardinality(Hard) + Cardinality(Soft)
  <2>1. Cardinality(Stream) = Cardinality(Hard) + Cardinality(Soft) - 0
    BY <1>2, <1>4, <1>5
  <2> QED
    BY <2>1, <1>7
<1> QED
  BY <1>1, <1>6, <1>8

-----------------------------------------------------------------------------
\* The state always has its types, whenever its streams are registered.
LEMMA TypeInit == Init => TypeOK
<1> SUFFICES ASSUME Init PROVE TypeOK
  OBVIOUS
<1> QED
  <2>1. \A s \in Soft : s \in Stream
    BY DEF Soft
  <2>2. \A h \in Hard : h \in Stream
    BY StreamAssumption
  <2>3. dtypes \subseteq Stream
    BY DEF Init
  <2>4. <<>> \in Seq(Nat) /\ <<>> \in Seq(Seq(Nat)) /\ -1 \in Int
    OBVIOUS
  <2>5. /\ version_numbers \in [Stream -> Int]
        /\ previous \in [Stream -> Seq(Nat)]
    BY <2>4 DEF Init
  <2>6. /\ \A h \in Hard : emitted[h] \in Seq(Nat)
        /\ \A s \in Soft : emitted[s] \in Seq(Seq(Nat)) /\ put_pc[s] = "idle"
        /\ DOMAIN emitted = Stream
    BY <2>1, <2>2, <2>4 DEF Init
  <2> QED
    BY <2>3, <2>5, <2>6 DEF Init, TypeOK

\* Every step of a barrier keeps the types.
LEMMA TypeNext == TypeOK /\ [Next]_vars => TypeOK'
<1> SUFFICES ASSUME TypeOK, [Next]_vars PROVE TypeOK'
  OBVIOUS
<1> USE DEF TypeOK, runVars, softVars, hardVars
<1>0. dtypes \subseteq Stream /\ SoftStreams \subseteq Soft /\ Hard \subseteq Stream
  BY StreamAssumption DEF Soft, SoftStreams
<1>1. /\ Cardinality(dtypes) \in Nat
      /\ Cardinality(SoftStreams) \in Nat
  BY <1>0, StreamCounts DEF Soft
<1>2. ASSUME NEW d \in Stream, AddDtype(d) PROVE TypeOK'
  BY <1>2 DEF AddDtype
<1>3. ASSUME NEW d \in Stream, SoftPut(d) PROVE TypeOK'
  <2>1. sent'[d] \in Nat /\ Store(d, sent'[d]) \in Seq(Nat)
    BY <1>3 DEF SoftPut, Store
  <2>2. SoftPermits \in Nat
    BY <1>1 DEF SoftPermits
  <2> QED
    BY <1>3, <2>1, <2>2 DEF SoftPut
<1>4. ASSUME NEW d \in Stream, d \in Hard, sent'[d] \in Nat, Deliver(d)
      PROVE  /\ version_numbers' \in [Stream -> Int]
             /\ update' \in Nat
             /\ DOMAIN emitted' = Stream
             /\ \A h \in Hard : emitted'[h] \in Seq(Nat)
             /\ \A s \in Soft : emitted'[s] \in Seq(Seq(Nat))
             /\ put_pc' \in [Stream -> {"idle", "waiting", "notified"}]
             /\ \A s \in Soft : put_pc'[s] = "idle"
  <2>1. Append(emitted[d], sent'[d]) \in Seq(Nat)
    BY <1>4
  <2>2. \A h \in Hard : emitted'[h] \in Seq(Nat)
    BY <1>4, <2>1 DEF Deliver
  <2>3. \A s \in Soft : emitted'[s] \in Seq(Seq(Nat))
    BY <1>4 DEF Deliver, Soft
  <2> QED
    BY <1>4, <2>2, <2>3 DEF Deliver, Soft
<1>5. ASSUME NEW d \in Stream, HardPut(d) PROVE TypeOK'
  <2>1. d \in Hard /\ sent' \in [Stream -> Nat]
    BY <1>5 DEF HardPut
  <2>2. CASE MayPut(d) /\ Deliver(d)
    BY <1>4, <1>5, <2>1, <2>2 DEF HardPut
  <2>3. CASE /\ put_pc' = [put_pc EXCEPT ![d] = "waiting"]
             /\ UNCHANGED <<version_numbers, update, emitted>>
    BY <1>5, <2>1, <2>3 DEF HardPut, Soft
  <2> QED
    BY <1>5, <2>2, <2>3 DEF HardPut
<1>6. ASSUME NEW d \in Stream, HardResume(d) PROVE TypeOK'
  <2>1. d \in Hard /\ sent'[d] \in Nat
    BY <1>6 DEF HardResume, Soft
  <2>2. CASE MayPut(d) /\ Deliver(d)
    BY <1>4, <1>6, <2>1, <2>2 DEF HardResume
  <2>3. CASE /\ put_pc' = [put_pc EXCEPT ![d] = "waiting"]
             /\ UNCHANGED <<version_numbers, update, emitted>>
    BY <1>6, <2>1, <2>3 DEF HardResume, Soft
  <2> QED
    BY <1>6, <2>2, <2>3 DEF HardResume
<1>7. ASSUME NEW d \in Stream, Get(d) PROVE TypeOK'
  BY <1>7 DEF Get
<1>8. CASE RunBegin
  BY <1>1, <1>8 DEF RunBegin, NotifyAll, Soft
<1>9. ASSUME NEW S \in SUBSET Soft, emitted' = Emit(S)
      PROVE  /\ DOMAIN emitted' = Stream
             /\ \A h \in Hard : emitted'[h] \in Seq(Nat)
             /\ \A s \in Soft : emitted'[s] \in Seq(Seq(Nat))
  <2>1. \A s \in Soft : Append(emitted[s], previous[s]) \in Seq(Seq(Nat))
    BY DEF Soft
  <2> QED
    BY <1>0, <1>9, <2>1 DEF Emit, Soft
<1>10. ASSUME NEW S \in SUBSET Soft, \A s \in S : previous[s] # <<>>,
              previous' = [d \in Stream |->
                             IF d \in S THEN <<previous[d][Len(previous[d])]>>
                                        ELSE previous[d]]
       PROVE  previous' \in [Stream -> Seq(Nat)]
  <2>1. \A s \in S : previous[s][Len(previous[s])] \in Nat
    BY <1>10 DEF Soft
  <2> QED
    BY <1>10, <2>1
<1>11. RoundReady => update - quota \in Nat
  BY DEF RoundReady
<1>12. CASE RunRound
  <2>1. previous' \in [Stream -> Seq(Nat)]
    BY <1>0, <1>10, <1>12 DEF RunRound
  <2>2. /\ DOMAIN emitted' = Stream
        /\ \A h \in Hard : emitted'[h] \in Seq(Nat)
        /\ \A s \in Soft : emitted'[s] \in Seq(Seq(Nat))
    BY <1>0, <1>9, <1>12 DEF RunRound
  <2>3. previous_retain' \in [Stream -> BOOLEAN]
    BY <1>12, Zenon DEF RunRound
  <2>4. /\ put_pc' \in [Stream -> {"idle", "waiting", "notified"}]
        /\ \A s \in Soft : put_pc'[s] = "idle"
    BY <1>12 DEF RunRound, NotifyAll, Soft
  <2>5. update' \in Nat /\ quota' \in Nat /\ global_version' \in Nat
    BY <1>1, <1>11, <1>12 DEF RunRound
  <2> QED
    BY <1>12, <2>1, <2>2, <2>3, <2>4, <2>5 DEF RunRound
<1>13. CASE RunRaises
  <2>0. PICK s \in SoftStreams : \E S \in SUBSET (SoftStreams \ {s}) :
          /\ previous[s] = <<>>
          /\ \A t \in S : previous[t] # <<>>
          /\ emitted' = Emit(S \cup {s})
          /\ previous' = [d \in Stream |->
                            IF d \in S THEN <<previous[d][Len(previous[d])]>>
                                       ELSE previous[d]]
          /\ previous_retain' = [d \in Stream |-> d \in S \/ previous_retain[d]]
    BY <1>13, Zenon DEF RunRaises
  <2>1. PICK S \in SUBSET SoftStreams :
          /\ \A t \in S : previous[t] # <<>>
          /\ emitted' = Emit(S \cup {s})
          /\ previous' = [d \in Stream |->
                            IF d \in S THEN <<previous[d][Len(previous[d])]>>
                                       ELSE previous[d]]
          /\ previous_retain' = [d \in Stream |-> d \in S \/ previous_retain[d]]
    <3>1. SUBSET (SoftStreams \ {s}) \subseteq SUBSET SoftStreams
      OBVIOUS
    <3> QED
      BY <2>0, <3>1, Zenon
  <2>2. previous' \in [Stream -> Seq(Nat)]
    BY <1>0, <1>10, <2>1
  <2>3. /\ DOMAIN emitted' = Stream
        /\ \A h \in Hard : emitted'[h] \in Seq(Nat)
        /\ \A t \in Soft : emitted'[t] \in Seq(Seq(Nat))
    BY <1>0, <1>9, <2>1
  <2>4. previous_retain' \in [Stream -> BOOLEAN]
    BY <2>1, Zenon
  <2> QED
    BY <1>11, <1>13, <2>2, <2>3, <2>4 DEF RunRaises
<1>14. CASE UNCHANGED vars
  BY <1>14 DEF vars
<1> QED
  BY <1>2, <1>3, <1>5, <1>6, <1>7, <1>8, <1>12, <1>13, <1>14 DEF Next

\* Types hold for every set of streams, registered early or late.
THEOREM TypeCorrect == Spec => []TypeOK
<1> QED
  BY TypeInit, TypeNext, PTL DEF Spec

-----------------------------------------------------------------------------
(***************************************************************************)
(* Rounds.  The permits count the streams that delivered; run() compares   *)
(* counts only, so that a round is complete follows from their equality    *)
(* with the sets they count.                                               *)
(***************************************************************************)
VersionRange ==
    \A h \in Hard : version_numbers[h] \in {global_version - 1, global_version}

RoundInv ==
    /\ TypeOK
    /\ dtypes = Stream
    /\ VersionRange
    /\ PermitsExact
    /\ Lockstep
    /\ run_pc = "running" => quota = Cardinality(Stream)
    /\ set_soft => \E s \in Soft : ~previous_retain[s]

\* The stream sets of the invariant, counted.
LEMMA DeliveredCounts ==
    ASSUME TypeOK
    PROVE  /\ Delivered \subseteq Hard
           /\ IsFiniteSet(Delivered)
           /\ Cardinality(Delivered) \in Nat
           /\ Cardinality(Delivered) <= Cardinality(Hard)
           /\ Cardinality(Delivered) = Cardinality(Hard) => Delivered = Hard
           /\ Cardinality(Hard) \in Nat /\ Cardinality(Soft) \in Nat
<1>1. Delivered \subseteq Hard
  BY DEF Delivered
<1>2. IsFiniteSet(Hard) /\ Cardinality(Hard) \in Nat /\ Cardinality(Soft) \in Nat
  BY StreamCounts, StreamAssumption DEF Soft
<1>3. IsFiniteSet(Delivered) /\ Cardinality(Delivered) \in Nat
  BY <1>1, StreamCounts, StreamAssumption
<1>4. /\ Cardinality(Delivered) <= Cardinality(Hard)
      /\ Cardinality(Hard) = Cardinality(Delivered) => Hard = Delivered
  BY <1>1, <1>2, FS_Subset
<1> QED
  BY <1>1, <1>2, <1>3, <1>4

\* When run() has its permits, every stream is in: the heart of the barrier.
LEMMA ReadyMeansAll ==
    ASSUME RoundInv, RoundReady
    PROVE  /\ Delivered = Hard
           /\ update = quota
           /\ Soft # {} => set_soft
<1>1. TypeOK
  BY DEF RoundInv
<1>2. /\ quota = Cardinality(Hard) + Cardinality(Soft)
      /\ update >= quota
      /\ update = Cardinality(Delivered) + (IF set_soft THEN Cardinality(Soft) ELSE 0)
  BY StreamCounts DEF RoundInv, RoundReady, PermitsExact
<1>3. /\ Cardinality(Delivered) = Cardinality(Hard)
      /\ update = quota
      /\ Cardinality(Soft) > 0 => set_soft
  BY <1>1, <1>2, DeliveredCounts
<1> QED
  BY <1>1, <1>3, DeliveredCounts, StreamCounts

\* A delivery counts its stream in, once.
LEMMA DeliverCountsIn ==
    ASSUME RoundInv, NEW d \in Hard, MayPut(d), Deliver(d), UNCHANGED global_version
    PROVE  /\ d \notin Delivered
           /\ Delivered' = Delivered \cup {d}
           /\ Cardinality(Delivered') = Cardinality(Delivered) + 1
           /\ version_numbers[d] = global_version - 1
           /\ version_numbers'[d] = global_version
<1>1. TypeOK /\ d \in Stream
  BY StreamAssumption DEF RoundInv
<1>2. version_numbers[d] = global_version - 1
  BY <1>1 DEF RoundInv, VersionRange, MayPut, TypeOK
<1>3. version_numbers'[d] = global_version
  BY <1>1, <1>2 DEF Deliver, TypeOK
<1>4. \A h \in Hard : h # d => version_numbers'[h] = version_numbers[h]
  BY <1>1, StreamAssumption DEF Deliver, TypeOK
<1>5. d \notin Delivered
  BY <1>1, <1>2 DEF Delivered, TypeOK
<1>6. Delivered' = Delivered \cup {d}
  BY <1>1, <1>3, <1>4 DEF Delivered
<1>7. Cardinality(Delivered \cup {d}) = Cardinality(Delivered) + 1
  BY <1>1, <1>5, DeliveredCounts, FS_AddElement
<1> QED
  BY <1>2, <1>3, <1>5, <1>6, <1>7

\* A new barrier to which no stream is added late is before its first round.
LEMMA RoundInit == Late = {} /\ Init => RoundInv
<1> SUFFICES ASSUME Late = {}, Init PROVE RoundInv
  OBVIOUS
<1>1. TypeOK
  BY TypeInit
<1>2. \A h \in Hard : h \in Stream /\ version_numbers[h] = -1 /\ emitted[h] = <<>>
                      /\ put_pc[h] = "idle"
  BY StreamAssumption DEF Init
<1>3. \A s \in Soft : emitted[s] = <<>>
  BY DEF Init, Soft
<1>4. Delivered = {} /\ Cardinality({}) = 0
  BY <1>2, FS_EmptySet DEF Delivered, Init
<1>5. PermitsExact
  BY <1>1, <1>4 DEF PermitsExact, Init
<1>6. Lockstep /\ VersionRange
  BY <1>2, <1>3 DEF Lockstep, VersionRange, Init
<1> QED
  BY <1>1, <1>5, <1>6 DEF RoundInv, Init

\* A put() that delivers keeps the invariant, whether it had to wait or not.
LEMMA DeliverKeepsRounds ==
    ASSUME RoundInv, TypeOK', NEW d \in Hard, MayPut(d), Deliver(d),
           UNCHANGED <<runVars, softVars, dtypes>>
    PROVE  RoundInv'
<1> USE DEF runVars, softVars
<1>1. TypeOK /\ d \in Stream /\ Hard \subseteq Stream
  BY StreamAssumption DEF RoundInv
<1>2. /\ Cardinality(Delivered') = Cardinality(Delivered) + 1
      /\ version_numbers[d] = global_version - 1
      /\ version_numbers'[d] = global_version
  BY DeliverCountsIn
<1>3. \A h \in Hard : h # d => /\ version_numbers'[h] = version_numbers[h]
                              /\ emitted'[h] = emitted[h]
                              /\ put_pc'[h] = put_pc[h]
  BY <1>1 DEF Deliver, TypeOK
<1>4. Len(emitted'[d]) = Len(emitted[d]) + 1 /\ put_pc'[d] = "idle"
  BY <1>1 DEF Deliver, TypeOK
<1>5. \A s \in Soft : emitted'[s] = emitted[s]
  BY <1>1 DEF Deliver, TypeOK, Soft
<1>6. VersionRange'
  BY <1>2, <1>3 DEF RoundInv, VersionRange
<1>7. PermitsExact'
  BY <1>1, <1>2, DeliveredCounts DEF RoundInv, PermitsExact, Deliver
<1>8. Lockstep'
  <2> SUFFICES ASSUME run_pc # "failed" PROVE Lockstep'
    BY DEF Lockstep
  <2>0. \A h \in Hard : Len(emitted[h]) = version_numbers[h] + 1
    BY DEF RoundInv, Lockstep
  <2>1. \A h \in Hard : Len(emitted'[h]) = version_numbers'[h] + 1
    <3>1. Len(emitted'[d]) = version_numbers'[d] + 1
      <4>1. global_version \in Int
        BY <1>1 DEF TypeOK
      <4>2. Len(emitted'[d]) = (version_numbers[d] + 1) + 1
        BY <1>4, <2>0
      <4> QED
        BY <1>2, <4>1, <4>2
    <3> QED
      BY <1>3, <2>0, <3>1
  <2> QED
    BY <1>5, <1>6, <2>1 DEF RoundInv, Lockstep, VersionRange
<1> QED
  BY <1>6, <1>7, <1>8 DEF RoundInv

\* Every put, get and run() keeps the count of permits and the lockstep of the
\* hard streams.
LEMMA RoundNext == RoundInv /\ [Next]_vars => RoundInv'
<1> SUFFICES ASSUME RoundInv, [Next]_vars PROVE RoundInv'
  OBVIOUS
<1> USE DEF runVars, softVars, hardVars
<1>0. /\ TypeOK /\ TypeOK'
      /\ Hard \subseteq Stream /\ Soft \subseteq Stream
      /\ SoftStreams = Soft
  BY TypeNext, StreamAssumption DEF RoundInv, SoftStreams, Soft
<1>1. ASSUME NEW d \in Stream, AddDtype(d) PROVE RoundInv'
  BY <1>1 DEF AddDtype, RoundInv
<1>2. ASSUME NEW d \in Stream, SoftPut(d) PROVE RoundInv'
  <2>1. d \in Soft /\ set_soft' /\ ~previous_retain'[d]
    BY <1>0, <1>2 DEF SoftPut, TypeOK
  <2>2. Delivered' = Delivered
    BY <1>2 DEF SoftPut, Delivered
  <2>3. update' = update + (IF set_soft THEN 0 ELSE Cardinality(Soft))
    BY <1>0, <1>2 DEF SoftPut, SoftPermits
  <2>4. PermitsExact'
    BY <1>0, <1>2, <2>1, <2>2, <2>3, DeliveredCounts
       DEF SoftPut, RoundInv, PermitsExact
  <2>5. VersionRange' /\ Lockstep'
    BY <1>2 DEF SoftPut, RoundInv, VersionRange, Lockstep
  <2> QED
    BY <1>0, <1>2, <2>1, <2>4, <2>5 DEF SoftPut, RoundInv
<1>3. ASSUME NEW d \in Hard,
             ~MayPut(d), put_pc' = [put_pc EXCEPT ![d] = "waiting"],
             UNCHANGED <<version_numbers, update, emitted, runVars, softVars, dtypes>>
      PROVE  RoundInv'
  <2>1. VersionRange' /\ Lockstep' /\ PermitsExact'
    BY <1>0, <1>3 DEF RoundInv, VersionRange, Lockstep, PermitsExact, Delivered
  <2> QED
    BY <1>0, <1>3, <2>1 DEF RoundInv
<1>4. ASSUME NEW d \in Stream, HardPut(d) PROVE RoundInv'
  BY <1>0, <1>3, <1>4, DeliverKeepsRounds DEF HardPut
<1>5. ASSUME NEW d \in Stream, HardResume(d) PROVE RoundInv'
  <2>1. d \in Hard
    BY <1>0, <1>5 DEF HardResume, TypeOK, Soft
  <2> QED
    BY <1>0, <1>3, <1>5, <2>1, DeliverKeepsRounds DEF HardResume
<1>6. ASSUME NEW d \in Stream, Get(d) PROVE RoundInv'
  BY <1>0, <1>6 DEF Get, RoundInv, VersionRange, PermitsExact, Lockstep, Delivered
<1>7. CASE RunBegin
  BY <1>0, <1>7 DEF RunBegin, RoundInv, VersionRange, PermitsExact, Lockstep, Delivered
<1>8. CASE RunRound
  <2>1. Delivered = Hard /\ update = quota /\ (Soft # {} => set_soft)
    BY <1>8, ReadyMeansAll DEF RunRound
  <2>2. \A h \in Hard : version_numbers'[h] = global_version' - 1
    BY <1>0, <1>8, <2>1 DEF RunRound, Delivered, TypeOK
  <2>3. Delivered' = {}
    BY <1>0, <2>2 DEF Delivered, TypeOK
  <2>4. PermitsExact'
    BY <1>0, <1>8, <2>1, <2>3, FS_EmptySet DEF RunRound, PermitsExact, TypeOK
  <2>5. /\ \A s \in Soft : Len(emitted'[s]) = Len(emitted[s]) + 1
        /\ \A h \in Hard : emitted'[h] = emitted[h]
    BY <1>0, <1>8 DEF RunRound, Emit, Soft, TypeOK
  <2>6. Lockstep'
    BY <1>0, <1>8, <2>2, <2>5 DEF RunRound, RoundReady, RoundInv, Lockstep, TypeOK
  <2>7. VersionRange'
    BY <2>2 DEF VersionRange
  <2> QED
    BY <1>0, <1>8, <2>4, <2>6, <2>7 DEF RunRound, RoundInv
<1>9. CASE RunRaises
  <2>1. VersionRange'
    BY <1>9 DEF RunRaises, RoundInv, VersionRange
  <2> QED
    BY <1>0, <1>9, <2>1 DEF RunRaises, RoundInv, PermitsExact, Lockstep
<1>10. CASE UNCHANGED vars
  BY <1>0, <1>10 DEF vars, RoundInv, VersionRange, PermitsExact, Lockstep, Delivered
<1> QED
  BY <1>1, <1>2, <1>4, <1>5, <1>6, <1>7, <1>8, <1>9, <1>10 DEF Next

\* The semaphore of run() and put() counts exactly the streams that delivered in
\* the round, for any set of streams registered before run() begins.
THEOREM RoundsSafe ==
    ASSUME Late = {}
    PROVE  Spec => []PermitsExact
<1>1. Init => RoundInv
  BY RoundInit
<1>2. RoundInv => PermitsExact
  BY DEF RoundInv
<1> QED
  BY <1>1, <1>2, RoundNext, PTL DEF Spec

\* All streams stay in lockstep (put): the k-th outputs of any two of them
\* belong to the same round.
THEOREM AlwaysLockstep ==
    ASSUME Late = {}
    PROVE  Spec => []Lockstep
<1>1. Init => RoundInv
  BY RoundInit
<1>2. RoundInv => Lockstep
  BY DEF RoundInv
<1> QED
  BY <1>1, <1>2, RoundNext, PTL DEF Spec

\* Wakeups need no complete rounds, so that they do not get lost for late streams
\* either: a stream waits only if it is registered, and every round wakes all.
WakeupInv ==
    /\ TypeOK
    /\ NoLostWakeup
    /\ \A d \in Hard : d \notin dtypes => put_pc[d] = "idle"

\* A put() that delivers, or finds that it has to wait, leaves no other one asleep.
LEMMA PutKeepsWakeups ==
    ASSUME WakeupInv, TypeOK', NEW d \in Hard \cap dtypes, UNCHANGED <<runVars, dtypes>>,
           \/ MayPut(d) /\ Deliver(d)
           \/ /\ ~MayPut(d)
              /\ put_pc' = [put_pc EXCEPT ![d] = "waiting"]
              /\ UNCHANGED version_numbers
    PROVE  WakeupInv'
<1>1. \A h \in Hard : h # d => /\ put_pc'[h] = put_pc[h]
                              /\ version_numbers'[h] = version_numbers[h]
  BY StreamAssumption DEF WakeupInv, TypeOK, Deliver
<1>2. /\ put_pc'[d] \in {"idle", "waiting"}
      /\ put_pc'[d] = "waiting" => ~MayPut(d) /\ version_numbers' = version_numbers
  BY StreamAssumption DEF WakeupInv, TypeOK, Deliver
<1> QED
  BY <1>1, <1>2 DEF WakeupInv, NoLostWakeup, MayPut, runVars

\* All steps leave asleep only streams that delivered in this round.
LEMMA WakeupNext == WakeupInv /\ [Next]_vars => WakeupInv'
<1> SUFFICES ASSUME WakeupInv, [Next]_vars PROVE WakeupInv'
  OBVIOUS
<1>0. /\ TypeOK /\ TypeOK'
      /\ Hard \subseteq Stream
  BY TypeNext, StreamAssumption DEF WakeupInv
<1>1. ASSUME NEW d \in Stream, AddDtype(d) PROVE WakeupInv'
  <2>1. \A h \in Hard : h # d => version_numbers'[h] = version_numbers[h]
    BY <1>0, <1>1 DEF AddDtype, TypeOK
  <2> QED
    BY <1>0, <1>1, <2>1 DEF AddDtype, WakeupInv, NoLostWakeup, MayPut, runVars, TypeOK
<1>2. ASSUME NEW d \in Stream, SoftPut(d) PROVE WakeupInv'
  BY <1>0, <1>2 DEF SoftPut, runVars, hardVars, WakeupInv, NoLostWakeup, MayPut
<1>3. ASSUME NEW d \in Stream, HardPut(d) PROVE WakeupInv'
  BY <1>0, <1>3, PutKeepsWakeups DEF HardPut
<1>4. ASSUME NEW d \in Stream, HardResume(d) PROVE WakeupInv'
  <2>1. d \in Hard \cap dtypes
    BY <1>0, <1>4 DEF HardResume, TypeOK, WakeupInv, Soft
  <2> QED
    BY <1>0, <1>4, <2>1, PutKeepsWakeups DEF HardResume
<1>5. ASSUME NEW d \in Stream, Get(d) PROVE WakeupInv'
  BY <1>0, <1>5 DEF Get, runVars, hardVars, WakeupInv, NoLostWakeup, MayPut
<1>6. CASE RunBegin \/ RunRound
  <2>1. \A h \in Hard : put_pc'[h] # "waiting" /\ (put_pc[h] = "idle" => put_pc'[h] = "idle")
    BY <1>0, <1>6 DEF RunBegin, RunRound, NotifyAll, TypeOK
  <2> QED
    BY <1>0, <1>6, <2>1 DEF RunBegin, RunRound, WakeupInv, NoLostWakeup
<1>7. CASE RunRaises
  BY <1>0, <1>7 DEF RunRaises, hardVars, WakeupInv, NoLostWakeup
<1>8. CASE UNCHANGED vars
  BY <1>0, <1>8 DEF vars, runVars, hardVars, softVars, WakeupInv, NoLostWakeup, MayPut
<1> QED
  BY <1>1, <1>2, <1>3, <1>4, <1>5, <1>6, <1>7, <1>8 DEF Next

\* No put() that may deliver is ever left asleep (put, run), whenever streams are
\* registered.
THEOREM WakeupsNeverLost == Spec => []NoLostWakeup
<1>1. Init => WakeupInv
  BY TypeInit, StreamAssumption DEF Init, WakeupInv, NoLostWakeup
<1>2. WakeupInv => NoLostWakeup
  BY DEF WakeupInv
<1> QED
  BY <1>1, <1>2, WakeupNext, PTL DEF Spec

\* A step that moves the round counter is the end of a complete round.
LEMMA RoundStep ==
    ASSUME RoundInv, [Next]_vars, global_version' # global_version
    PROVE  /\ global_version' = global_version + 1
           /\ \A h \in Hard : Len(emitted[h]) = global_version + 1
           /\ Soft # {} => \E s \in Soft : ~previous_retain[s]
<1>1. RunRound
  BY DEF Next, AddDtype, SoftPut, HardPut, HardResume, Get, RunBegin, RunRaises,
         runVars, vars
<1>2. Delivered = Hard /\ (Soft # {} => set_soft)
  BY <1>1, ReadyMeansAll DEF RunRound
<1>3. \A h \in Hard : Len(emitted[h]) = global_version + 1
  BY <1>1, <1>2 DEF RunRound, RoundReady, RoundInv, Lockstep, Delivered
<1> QED
  BY <1>1, <1>2, <1>3 DEF RunRound, RoundInv

\* Rounds are complete, for any number of streams.
THEOREM RoundsComplete ==
    ASSUME Late = {}
    PROVE  Spec => RoundComplete
<1>1. Init => RoundInv
  BY RoundInit
<1>2. RoundInv /\ [Next]_vars =>
        [global_version' # global_version =>
           /\ global_version' = global_version + 1
           /\ \A h \in Hard : Len(emitted[h]) = global_version + 1
           /\ Soft # {} => \E s \in Soft : ~previous_retain[s]]_vars
  BY RoundStep
<1> QED
  BY <1>1, <1>2, RoundNext, PTL DEF Spec, RoundComplete

-----------------------------------------------------------------------------
(***************************************************************************)
(* The class implements Rounds: each step maps to a step or to a stutter.  *)
(***************************************************************************)
LEMMA RoundsInit == Init => R!Init
<1> SUFFICES ASSUME Init PROVE R!Init
  OBVIOUS
<1>1. \A h \in Hard : version_numbers[h] # global_version
  BY StreamAssumption DEF Init
<1> QED
  BY <1>1 DEF Init, R!Init, Delivered

\* Every step of a barrier is one of Rounds, or none.
LEMMA RoundsNext == RoundInv /\ [Next]_vars => [R!Next]_(R!vars)
<1> SUFFICES ASSUME RoundInv, [Next]_vars PROVE [R!Next]_(R!vars)
  OBVIOUS
<1> USE DEF runVars, softVars, hardVars
<1>0. TypeOK /\ TypeOK' /\ Hard \subseteq Stream /\ SoftStreams = Soft
  BY TypeNext, StreamAssumption DEF RoundInv, SoftStreams, Soft
<1>1. ASSUME UNCHANGED <<global_version, version_numbers, set_soft, run_pc>>
      PROVE  UNCHANGED R!vars
  BY <1>1 DEF R!vars, Delivered
<1>2. ASSUME NEW d \in Stream, AddDtype(d) PROVE UNCHANGED R!vars
  BY <1>2 DEF AddDtype, RoundInv
<1>3. ASSUME NEW d \in Stream, SoftPut(d) PROVE R!Refresh
  BY <1>0, <1>3 DEF SoftPut, R!Refresh, Delivered
<1>4. ASSUME NEW d \in Hard, MayPut(d), Deliver(d),
             UNCHANGED <<runVars, softVars>>
      PROVE  R!Arrive(d)
  BY <1>4, DeliverCountsIn DEF R!Arrive
<1>5. ASSUME NEW d \in Stream, HardPut(d) PROVE R!Next \/ UNCHANGED R!vars
  BY <1>1, <1>4, <1>5 DEF HardPut, R!Next
<1>6. ASSUME NEW d \in Stream, HardResume(d) PROVE R!Next \/ UNCHANGED R!vars
  <2>1. d \in Hard
    BY <1>0, <1>6 DEF HardResume, TypeOK, Soft
  <2> QED
    BY <1>1, <1>4, <1>6, <2>1 DEF HardResume, R!Next
<1>7. ASSUME NEW d \in Stream, Get(d) PROVE UNCHANGED R!vars
  BY <1>1, <1>7 DEF Get
<1>8. CASE RunBegin
  BY <1>8 DEF RunBegin, R!vars, Delivered
<1>9. CASE RunRound
  <2>1. R!MayEnd
    BY <1>9, ReadyMeansAll DEF RunRound, RoundReady, R!MayEnd
  <2>2. Delivered' = {}
    <3>1. VersionRange /\ global_version \in Nat
      BY DEF RoundInv, TypeOK
    <3>2. \A h \in Hard : version_numbers[h] # global_version + 1
      BY <3>1 DEF VersionRange
    <3> QED
      BY <1>9, <3>2 DEF RunRound, Delivered
  <2> QED
    BY <1>9, <2>1, <2>2 DEF RunRound, RoundReady, R!EndRound, R!Next
<1>10. CASE RunRaises
  <2>1. R!MayEnd
    BY <1>10, ReadyMeansAll DEF RunRaises, RoundReady, R!MayEnd
  <2>2. Soft # {}
    BY <1>0, <1>10 DEF RunRaises
  <2>3. Delivered' = Delivered
    BY <1>10 DEF RunRaises, Delivered
  <2> QED
    BY <1>10, <2>1, <2>2, <2>3 DEF RunRaises, RoundReady, R!Break, R!Next
<1>11. CASE UNCHANGED vars
  BY <1>1, <1>11 DEF vars
<1> QED
  BY <1>2, <1>3, <1>5, <1>6, <1>7, <1>8, <1>9, <1>10, <1>11 DEF Next, R!Next

\* The permits, versions and wakeups of the class implement rounds.
THEOREM BarrierImplementsRounds ==
    ASSUME Late = {}
    PROVE  Spec => ImplementsRounds
<1>1. Init => RoundInv
  BY RoundInit
<1> QED
  BY <1>1, RoundNext, RoundsInit, RoundsNext, PTL DEF Spec, ImplementsRounds, R!Spec

-----------------------------------------------------------------------------
(***************************************************************************)
(* Windows.  What a soft stream's windows hold does not depend on the      *)
(* rounds, so it is proved for streams registered late as well.            *)
(***************************************************************************)
\* The latest value of the latest window.
LatestOut(ws) == ws[Len(ws)][Len(ws[Len(ws)])]

\* Windows that begin with the first value, each following on the one before.
Chained(ws) ==
    ws # <<>> => /\ Contiguous(ws[1]) /\ ws[1][1] = 1
                 /\ \A i \in 1..Len(ws)-1 : Follows(ws[i], ws[i+1])

\* The window being collected ends with the latest value put.  It either repeats
\* the end of the window before, or begins with the value after that.
WindowInv(s) ==
    /\ Chained(emitted[s])
    /\ previous[s] = <<>> => /\ sent[s] = 0
                             /\ emitted[s] = <<>>
                             /\ previous_retain[s]
    /\ previous[s] # <<>> =>
         /\ Contiguous(previous[s])
         /\ previous[s][Len(previous[s])] = sent[s]
         /\ previous_retain[s] => /\ emitted[s] # <<>>
                                  /\ previous[s] = <<LatestOut(emitted[s])>>
         /\ ~previous_retain[s] =>
              previous[s][1] = IF emitted[s] = <<>> THEN 1
                                                    ELSE LatestOut(emitted[s]) + 1

SoftInv == TypeOK /\ (run_pc # "failed" => \A s \in Soft : WindowInv(s))

\* A window of one value, and one that the next value is added to.
LEMMA WindowGrows ==
    /\ \A v \in Nat : Contiguous(<<v>>) /\ <<v>>[Len(<<v>>)] = v
    /\ \A w \in Seq(Nat), v \in Nat :
         Contiguous(w) /\ v = w[Len(w)] + 1 =>
           /\ Contiguous(Append(w, v))
           /\ Append(w, v)[1] = w[1]
           /\ Append(w, v)[Len(Append(w, v))] = v
<1>1. ASSUME NEW v \in Nat PROVE Contiguous(<<v>>) /\ <<v>>[Len(<<v>>)] = v
  BY DEF Contiguous
<1>2. ASSUME NEW w \in Seq(Nat), NEW v \in Nat, Contiguous(w), v = w[Len(w)] + 1
      PROVE  /\ Contiguous(Append(w, v))
             /\ Append(w, v)[1] = w[1]
             /\ Append(w, v)[Len(Append(w, v))] = v
  <2>1. Len(w) \in Nat /\ Len(w) # 0
    BY <1>2 DEF Contiguous
  <2>2. Append(w, v) # <<>>
    BY <2>1
  <2> QED
    BY <1>2, <2>1, <2>2 DEF Contiguous
<1> QED
  BY <1>1, <1>2

\* Windows stay chained when one is added that follows on the last of them.
LEMMA ChainGrows ==
    ASSUME NEW ws \in Seq(Seq(Nat)), NEW w \in Seq(Nat), Chained(ws),
           ws = <<>> => Contiguous(w) /\ w[1] = 1,
           ws # <<>> => Follows(ws[Len(ws)], w)
    PROVE  Chained(Append(ws, w))
<1> DEFINE xs == Append(ws, w)
           n  == Len(ws)
<1>1. n \in Nat /\ Len(xs) = n + 1 /\ xs[n + 1] = w /\ (ws # <<>> => n # 0)
  OBVIOUS
<1>2. \A i \in 1..n : xs[i] = ws[i]
  OBVIOUS
<1>3. Contiguous(xs[1]) /\ xs[1][1] = 1
  <2>1. CASE ws = <<>>
    BY <1>1, <2>1
  <2>2. CASE ws # <<>>
    BY <1>1, <1>2, <2>2 DEF Chained
  <2> QED
    BY <2>1, <2>2
<1>4. ASSUME NEW i \in 1..n PROVE Follows(xs[i], xs[i + 1])
  <2>1. CASE i = n
    <3>1. ws # <<>>
      BY <1>1
    <3> QED
      BY <1>1, <1>2, <2>1, <3>1
  <2>2. CASE i # n
    <3>1. i \in 1..n-1 /\ i + 1 \in 1..n /\ ws # <<>>
      BY <1>1, <2>2
    <3> QED
      BY <1>2, <3>1 DEF Chained
  <2> QED
    BY <2>1, <2>2
<1> QED
  BY <1>1, <1>3, <1>4 DEF Chained

\* A stream's windows keep their invariant when a value is put.
LEMMA PutKeepsWindow ==
    ASSUME SoftInv, NEW d \in Soft, SoftPut(d), run_pc # "failed"
    PROVE  WindowInv(d)'
<1>1. /\ sent[d] \in Nat /\ sent'[d] = sent[d] + 1 /\ emitted' = emitted
      /\ previous'[d] = Store(d, sent'[d]) /\ previous_retain'[d] = FALSE
      /\ previous[d] \in Seq(Nat) /\ WindowInv(d)
  BY DEF SoftInv, SoftPut, TypeOK, Soft
<1>2. previous'[d] # <<>>
  BY <1>1 DEF Store
<1>5. sent'[d] \in Nat
  BY <1>1
<1>3. CASE previous_retain[d]
  <2>1. previous'[d] = <<sent'[d]>>
    BY <1>1, <1>3 DEF Store
  <2>2. Contiguous(previous'[d]) /\ previous'[d][Len(previous'[d])] = sent'[d]
    BY <1>5, <2>1, WindowGrows
  <2>3. previous'[d][1] = sent'[d]
    BY <2>1
  <2>4. CASE previous[d] = <<>>
    BY <1>1, <1>2, <2>2, <2>3, <2>4 DEF WindowInv
  <2>5. CASE previous[d] # <<>>
    <3>1. emitted[d] # <<>> /\ sent[d] = LatestOut(emitted[d])
      <4>1. previous[d] = <<LatestOut(emitted[d])>> /\ emitted[d] # <<>>
            /\ previous[d][Len(previous[d])] = sent[d]
        BY <1>1, <1>3, <2>5 DEF WindowInv
      <4> QED
        BY <4>1
    <3> QED
      BY <1>1, <1>2, <2>2, <2>3, <3>1 DEF WindowInv
  <2> QED
    BY <2>4, <2>5
<1>4. CASE ~previous_retain[d]
  <2>1. /\ previous[d] # <<>> /\ Contiguous(previous[d])
        /\ previous[d][Len(previous[d])] = sent[d]
        /\ previous'[d] = Append(previous[d], sent'[d])
    BY <1>1, <1>4 DEF WindowInv, Store
  <2>2. /\ Contiguous(previous'[d]) /\ previous'[d][1] = previous[d][1]
        /\ previous'[d][Len(previous'[d])] = sent'[d]
    <3>1. sent'[d] = previous[d][Len(previous[d])] + 1
      BY <1>1, <2>1
    <3> DEFINE w == previous[d]
               v == sent'[d]
    <3>2. w \in Seq(Nat) /\ v \in Nat /\ Contiguous(w) /\ v = w[Len(w)] + 1
      BY <1>1, <1>5, <2>1, <3>1
    <3> HIDE DEF w, v
    <3>3. /\ Contiguous(Append(w, v)) /\ Append(w, v)[1] = w[1]
          /\ Append(w, v)[Len(Append(w, v))] = v
      BY <3>2, WindowGrows, Zenon
    <3> QED
      BY <2>1, <3>3, Zenon DEF w, v
  <2> QED
    BY <1>1, <1>2, <1>4, <2>1, <2>2 DEF WindowInv
<1> QED
  BY <1>3, <1>4

\* They do when run() emits the window.
LEMMA EmitKeepsWindow ==
    ASSUME SoftInv, NEW d \in Soft, RunRound, d \in SoftStreams, run_pc # "failed"
    PROVE  WindowInv(d)'
<1>1. /\ previous[d] # <<>> /\ previous[d] \in Seq(Nat) /\ sent[d] \in Nat
      /\ emitted[d] \in Seq(Seq(Nat)) /\ WindowInv(d)
  BY DEF SoftInv, RunRound, TypeOK, Soft
<1>2. /\ emitted'[d] = Append(emitted[d], previous[d])
      /\ previous'[d] = <<previous[d][Len(previous[d])]>>
      /\ previous_retain'[d] = TRUE /\ sent' = sent
  BY DEF RunRound, Emit, Soft
<1>3. Contiguous(previous[d]) /\ previous[d][Len(previous[d])] = sent[d]
  BY <1>1 DEF WindowInv
<1>4. emitted[d] = <<>> => previous[d][1] = 1
  BY <1>1 DEF WindowInv
<1>5. emitted[d] # <<>> => Follows(emitted[d][Len(emitted[d])], previous[d])
  <2> SUFFICES ASSUME emitted[d] # <<>>
               PROVE  Follows(emitted[d][Len(emitted[d])], previous[d])
    OBVIOUS
  <2>1. CASE previous_retain[d]
    BY <1>1, <2>1 DEF WindowInv, Follows, LatestOut
  <2>2. CASE ~previous_retain[d]
    BY <1>1, <1>3, <2>2 DEF WindowInv, Follows, LatestOut
  <2> QED
    BY <2>1, <2>2
<1>6. Chained(emitted'[d])
  BY <1>1, <1>2, <1>3, <1>4, <1>5, ChainGrows DEF WindowInv
<1>7. /\ emitted'[d] # <<>> /\ LatestOut(emitted'[d]) = sent[d]
      /\ emitted'[d][Len(emitted'[d])] = previous[d]
  <2>1. /\ emitted'[d] # <<>> /\ Len(emitted'[d]) = Len(emitted[d]) + 1
        /\ emitted'[d][Len(emitted[d]) + 1] = previous[d]
    <3> DEFINE ws == emitted[d]
               w  == previous[d]
    <3>1. ws \in Seq(Seq(Nat)) /\ w \in Seq(Nat) /\ emitted'[d] = Append(ws, w)
      BY <1>1, <1>2
    <3> HIDE DEF ws, w
    <3>2. /\ Len(Append(ws, w)) = Len(ws) + 1
          /\ Append(ws, w)[Len(ws) + 1] = w /\ Len(ws) \in Nat
      BY <3>1
    <3>3. Append(ws, w) # <<>>
      BY <3>2
    <3> QED
      BY <3>1, <3>2, <3>3, Zenon DEF ws, w
  <2> QED
    BY <1>3, <2>1, Zenon DEF LatestOut
<1>8. previous'[d] = <<sent[d]>>
  BY <1>2, <1>3
<1>9. /\ Contiguous(previous'[d])
      /\ previous'[d][Len(previous'[d])] = sent[d]
      /\ previous'[d] # <<>>
  BY <1>1, <1>8, WindowGrows
<1> QED
  BY <1>2, <1>6, <1>7, <1>8, <1>9 DEF WindowInv

\* A step that does not touch the stream keeps the invariant.
LEMMA WindowStands ==
    ASSUME NEW s, WindowInv(s),
           /\ emitted'[s] = emitted[s] /\ previous'[s] = previous[s]
           /\ previous_retain'[s] = previous_retain[s] /\ sent'[s] = sent[s]
    PROVE  WindowInv(s)'
BY DEF WindowInv

\* Every step keeps the windows, until run() ends.
LEMMA WindowNext == SoftInv /\ [Next]_vars => SoftInv'
<1> SUFFICES ASSUME SoftInv, [Next]_vars PROVE SoftInv'
  OBVIOUS
<1> USE DEF runVars, softVars, hardVars
<1>0. TypeOK /\ TypeOK'
  BY TypeNext DEF SoftInv
<1> SUFFICES ASSUME run_pc' # "failed", NEW s \in Soft PROVE WindowInv(s)'
  BY <1>0 DEF SoftInv
<1>1. ASSUME run_pc # "failed" PROVE WindowInv(s)
  BY <1>1 DEF SoftInv
<1>2. s \in Stream /\ s \notin Hard
  BY DEF Soft
<1>3. ASSUME NEW d \in Stream, AddDtype(d) PROVE WindowInv(s)'
  BY <1>1, <1>3, WindowStands DEF AddDtype
<1>4. ASSUME NEW d \in Stream, SoftPut(d) PROVE WindowInv(s)'
  <2>1. run_pc # "failed" /\ d \in Soft
    BY <1>0, <1>4 DEF SoftPut, SoftStreams, TypeOK, Soft
  <2>2. CASE d = s
    BY <1>4, <2>1, <2>2, PutKeepsWindow
  <2>3. CASE d # s
    BY <1>0, <1>1, <1>2, <1>4, <2>1, <2>3, WindowStands DEF SoftPut, TypeOK
  <2> QED
    BY <2>2, <2>3
<1>5. ASSUME NEW d \in Hard, sent'[s] = sent[s], Deliver(d), run_pc # "failed",
             UNCHANGED softVars
      PROVE  WindowInv(s)'
  BY <1>0, <1>1, <1>2, <1>5, StreamAssumption, WindowStands DEF Deliver, TypeOK
<1>6. ASSUME NEW d \in Stream, HardPut(d) PROVE WindowInv(s)'
  <2>1. d \in Hard /\ sent'[s] = sent[s] /\ run_pc # "failed"
    BY <1>0, <1>2, <1>6 DEF HardPut, TypeOK
  <2> QED
    BY <1>1, <1>5, <1>6, <2>1, WindowStands DEF HardPut
<1>7. ASSUME NEW d \in Stream, HardResume(d) PROVE WindowInv(s)'
  <2>1. d \in Hard /\ sent'[s] = sent[s] /\ run_pc # "failed"
    BY <1>0, <1>7 DEF HardResume, TypeOK, Soft
  <2> QED
    BY <1>1, <1>5, <1>7, <2>1, WindowStands DEF HardResume
<1>8. ASSUME NEW d \in Stream, Get(d) PROVE WindowInv(s)'
  BY <1>1, <1>8, WindowStands DEF Get
<1>9. CASE RunBegin
  BY <1>1, <1>9, WindowStands DEF RunBegin
<1>10. CASE RunRound
  <2>1. run_pc # "failed"
    BY <1>10 DEF RunRound, RoundReady
  <2>2. CASE s \in SoftStreams
    BY <1>10, <2>1, <2>2, EmitKeepsWindow
  <2>3. CASE s \notin SoftStreams
    <3>1. /\ emitted'[s] = emitted[s] /\ previous'[s] = previous[s]
          /\ sent'[s] = sent[s]
      BY <1>2, <1>10, <2>3 DEF RunRound, Emit
    <3>2. previous_retain'[s] = (FALSE \/ previous_retain[s])
      BY <1>2, <1>10, <2>3 DEF RunRound
    <3>3. previous_retain'[s] = previous_retain[s]
      BY <1>0, <1>2, <3>2 DEF TypeOK
    <3> QED
      BY <1>1, <2>1, <3>1, <3>3, WindowStands
  <2> QED
    BY <2>2, <2>3
<1>11. CASE RunRaises
  BY <1>11 DEF RunRaises
<1>12. CASE UNCHANGED vars
  BY <1>1, <1>12, WindowStands DEF vars
<1> QED
  BY <1>3, <1>4, <1>6, <1>7, <1>8, <1>9, <1>10, <1>11, <1>12 DEF Next

\* At the start there is no value and no window.
LEMMA WindowInit == Init => SoftInv
<1> SUFFICES ASSUME Init PROVE SoftInv
  OBVIOUS
<1>1. TypeOK
  BY TypeInit
<1>2. \A s \in Soft : WindowInv(s)
  BY DEF Init, WindowInv, Chained, Soft
<1> QED
  BY <1>1, <1>2 DEF SoftInv

\* What the windows' invariant says of the windows with the one being collected.
LEMMA WindowsExact ==
    ASSUME SoftInv, NEW s \in Soft, run_pc # "failed"
    PROVE  LET ws == Windows(s)
               n  == Len(ws)
           IN  /\ sent[s] > 0 => n > 0
               /\ n > 0 => /\ Contiguous(ws[1]) /\ ws[1][1] = 1
                           /\ ws[n][Len(ws[n])] = sent[s]
               /\ \A i \in 1..n-1 : Follows(ws[i], ws[i+1])
<1> DEFINE ws == Windows(s)
           n  == Len(ws)
<1>1. /\ WindowInv(s) /\ emitted[s] \in Seq(Seq(Nat)) /\ previous[s] \in Seq(Nat)
      /\ sent[s] \in Nat
  BY DEF SoftInv, TypeOK, Soft
<1>2. CASE previous[s] = <<>>
  <2>1. ws = <<>> /\ sent[s] = 0
    BY <1>1, <1>2 DEF WindowInv, Windows
  <2>2. n = 0
    BY <2>1
  <2> HIDE DEF ws, n
  <2>3. ~(sent[s] > 0) /\ ~(n > 0) /\ 1..n-1 = {}
    BY <2>1, <2>2
  <2> QED
    BY <2>3, Zenon DEF ws, n
<1>3. CASE previous[s] # <<>>
  <2>1. ws = Append(emitted[s], previous[s])
    BY <1>3 DEF Windows
  <2>2. n \in Nat /\ n > 0 /\ ws[n] = previous[s] /\ ws # <<>>
    BY <1>1, <2>1
  <2>3. previous[s][Len(previous[s])] = sent[s] /\ Contiguous(previous[s])
    BY <1>1, <1>3 DEF WindowInv
  <2>4. Chained(ws)
    <3>1. CASE ~previous_retain[s]
      <4>1. emitted[s] = <<>> => previous[s][1] = 1
        BY <1>1, <1>3, <3>1 DEF WindowInv
      <4>2. emitted[s] # <<>> => Follows(emitted[s][Len(emitted[s])], previous[s])
        BY <1>1, <1>3, <2>3, <3>1 DEF WindowInv, Follows, LatestOut
      <4> QED
        BY <1>1, <2>1, <2>3, <4>1, <4>2, ChainGrows DEF WindowInv
    <3>2. CASE previous_retain[s]
      <4>1. emitted[s] # <<>> /\ Follows(emitted[s][Len(emitted[s])], previous[s])
        BY <1>1, <1>3, <3>2 DEF WindowInv, Follows, LatestOut
      <4> QED
        BY <1>1, <2>1, <4>1, ChainGrows DEF WindowInv
    <3> QED
      BY <3>1, <3>2
  <2>5. /\ Contiguous(ws[1]) /\ ws[1][1] = 1
        /\ \A i \in 1..Len(ws)-1 : Follows(ws[i], ws[i+1])
    BY <2>2, <2>4, Zenon DEF Chained
  <2> HIDE DEF ws, n
  <2>6. ws[n][Len(ws[n])] = sent[s]
    BY <2>2, <2>3
  <2> QED
    BY <2>2, <2>5, <2>6, Zenon DEF ws, n
<1> QED
  BY <1>2, <1>3

\* No soft value is lost, duplicated or reordered on its way into the windows
\* (put, run), for streams registered at any time.
THEOREM WindowsAlwaysExact == Spec => []SoftWindowsExact
<1>1. SoftInv => SoftWindowsExact
  BY WindowsExact DEF SoftWindowsExact
<1> QED
  BY <1>1, WindowInit, WindowNext, PTL DEF Spec
=============================================================================
