--------------------------- MODULE DataflowProofs ---------------------------
(***************************************************************************)
(* Proofs about Dataflow, for any dtypes and any number of items and       *)
(* barriers: what is taken is on its way or with the components, once and  *)
(* in order; a dtype's components get one item at a time, and those of two *)
(* dtypes are at most one round of the last barrier apart.                 *)
(***************************************************************************)
EXTENDS Dataflow, SequenceTheorems, TLAPS

-----------------------------------------------------------------------------
\* A dtype is behind the barriers, once and for all, as soon as one of its
\* items went to the first barrier; until then its consumer has had the
\* components work, from then on the consumer behind the barriers has.
OneRoute ==
    \A d \in Dtype :
        /\ queue[d] # <<>> => d \in bound
        /\ d \in created => barriers > 0 /\ direct[d] = Nothing
        /\ d \notin created => listens[d] = Nothing /\ behind[d] = Nothing

\* Nothing comes of nothing: a dtype none of whose items was sent is nowhere.
Nowhere(d) ==
    /\ queue[d] = <<>>
    /\ done[d] = <<>>
    /\ d \notin created
    /\ \A k \in Barrier : /\ carried[k][d] = Nothing
                          /\ out[k][d] = <<>>
                          /\ d \notin arrived[k]

NothingUnsent == \A d \in Dtype : sent[d] = 0 => Nowhere(d)

\* What the last barrier let pass of d, were the round in progress complete.
AfterRound(d) == Passed(d) + (IF d \in arrived[barriers] THEN 0 ELSE 1)

\* After the round in progress, the last barrier will have let the same number
\* of items of all dtypes pass; and nobody listens at any other one.
SameRound ==
    ~late => /\ \A d \in Dtype : listens[d] \in {Nothing, barriers}
             /\ barriers > 0 => \A d, e \in Dtype : AfterRound(d) = AfterRound(e)

FlowInv == TypeOK /\ OneRoute /\ NothingUnsent /\ SameRound

\* All places an item may ever be at, whatever number of barriers there is by now.
Stage == 0..Work

\* The items T are in the lines f, each once ...
Filled(f, T) ==
    /\ \A p \in Stage : \A i \in DOMAIN f[p] : f[p][i] \in T
    /\ \A n \in T : \E p \in Stage : \E i \in DOMAIN f[p] : f[p][i] = n
    /\ \A p, q \in Stage : \A i \in DOMAIN f[p], j \in DOMAIN f[q] :
         (p # q \/ i # j) => f[p][i] # f[q][j]

\* ... and the older ones are further on.
InOrder(f) ==
    \A p, q \in Stage : \A i \in DOMAIN f[p], j \in DOMAIN f[q] :
       p > q \/ (p = q /\ i < j) => f[p][i] < f[q][j]

Lines(d) == [p \in Stage |-> Line(d, p)]
Taken(d) == (1..sent[d]) \ dropped[d]

\* All is well with the items of a dtype.
LineExact(d) ==
    /\ dropped[d] \subseteq 1..sent[d]
    /\ Filled(Lines(d), Taken(d))
    /\ ~late => InOrder(Lines(d))

\* Barriers that are not in the chain yet are empty.
NoneBeyond ==
    \A k \in Barrier : k > barriers =>
       \A d \in Dtype : out[k][d] = <<>> /\ carried[k][d] = Nothing

LineInv ==
    /\ NoneBeyond
    /\ \A d \in Dtype : LineExact(d)

-----------------------------------------------------------------------------
\* One cell of a table of barriers and dtypes is set, all others stay.
LEMMA CellSet ==
    ASSUME NEW S, NEW f \in [Barrier -> [Dtype -> S]],
           NEW k \in Barrier, NEW d \in Dtype, NEW v \in S
    PROVE  /\ [f EXCEPT ![k][d] = v] \in [Barrier -> [Dtype -> S]]
           /\ \A j \in Barrier, e \in Dtype :
                [f EXCEPT ![k][d] = v][j][e] = IF j = k /\ e = d THEN v ELSE f[j][e]
OBVIOUS

\* Taking the oldest item of a queue, and putting one behind it.
LEMMA QueueEnds ==
    /\ \A q \in Seq(Item) : q # <<>> =>
         /\ Head(q) \in Item /\ Tail(q) \in Seq(Item)
         /\ Len(q) = Len(Tail(q)) + 1
    /\ \A q \in Seq(Item), i \in Item :
         /\ Append(q, i) \in Seq(Item) /\ Append(q, i) # <<>>
         /\ Len(Append(q, i)) = Len(q) + 1
    /\ \A q \in Seq(Item) : Len(q) \in Nat
    /\ \A i \in Item : i # Nothing
<1>1. ASSUME NEW q \in Seq(Item), q # <<>>
      PROVE  /\ Head(q) \in Item /\ Tail(q) \in Seq(Item)
             /\ Len(q) = Len(Tail(q)) + 1
  BY <1>1, HeadTailProperties, LenProperties, EmptySeq
<1>2. ASSUME NEW q \in Seq(Item), NEW i \in Item
      PROVE  /\ Append(q, i) \in Seq(Item) /\ Append(q, i) # <<>>
             /\ Len(Append(q, i)) = Len(q) + 1
  BY AppendProperties
<1>3. \A q \in Seq(Item) : Len(q) \in Nat
  BY LenProperties
<1>4. \A i \in Item : i # Nothing
  BY DEF Item, Nothing
<1> QED
  BY <1>1, <1>2, <1>3, <1>4

\* At the start nothing is anywhere.
LEMMA FlowInit == Init => FlowInv
<1> SUFFICES ASSUME Init PROVE FlowInv
  OBVIOUS
<1> USE DEF Init
<1>1. TypeOK
  <2>1. <<>> \in Seq(Item) /\ 0 \in 0..MaxItems /\ 0 \in 0..MaxBarriers
    BY DataflowAssumption
  <2> QED
    BY <2>1 DEF TypeOK, Nothing
<1>2. OneRoute
  BY DEF OneRoute, Nothing
<1>3. NothingUnsent
  BY DEF NothingUnsent, Nowhere
<1>4. SameRound
  BY DEF SameRound
<1> QED
  BY <1>1, <1>2, <1>3, <1>4 DEF FlowInv

-----------------------------------------------------------------------------
\* Every step keeps the types.
LEMMA FlowTypes == TypeOK /\ OneRoute /\ [Next]_vars => TypeOK'
<1> SUFFICES ASSUME TypeOK, OneRoute, [Next]_vars PROVE TypeOK'
  OBVIOUS
<1> USE DEF TypeOK, queueVars, chainVars, workVars
<1>1. ASSUME NEW d \in Dtype, Bind(d) PROVE TypeOK'
  BY <1>1 DEF Bind, Ensured
<1>2. ASSUME NEW d \in Dtype, Emit(d) PROVE TypeOK'
  <2>1. sent'[d] \in Item /\ sent' \in [Dtype -> 0..MaxItems]
    BY <1>2, DataflowAssumption DEF Emit, Item
  <2>2. Append(queue[d], sent'[d]) \in Seq(Item)
    BY <2>1, QueueEnds
  <2>3. bound' \subseteq Dtype /\ created' \subseteq bound'
    BY <1>2 DEF Emit, Ensured
  <2>4. queue' \in [Dtype -> Seq(Item)] /\ dropped' \in [Dtype -> SUBSET Item]
    <3>1. CASE d \in bound \cup Consumed
      <4>1. queue' = [queue EXCEPT ![d] = Append(queue[d], sent'[d])] /\ dropped' = dropped
        BY <1>2, <3>1 DEF Emit
      <4> QED
        BY <2>2, <4>1
    <3>2. CASE d \notin bound \cup Consumed
      <4>1. /\ queue' = queue
            /\ dropped' = [dropped EXCEPT ![d] = dropped[d] \cup {sent'[d]}]
        BY <1>2, <3>2 DEF Emit
      <4>2. dropped[d] \cup {sent'[d]} \in SUBSET Item
        BY <2>1
      <4> QED
        BY <4>1, <4>2
    <3> QED
      BY <3>1, <3>2
  <2> QED
    BY <1>2, <2>1, <2>3, <2>4 DEF Emit
<1>3. CASE AddBarrier
  BY <1>3, DataflowAssumption DEF AddBarrier
<1>4. ASSUME NEW d \in Dtype, QueueToBarrier(d) PROVE TypeOK'
  <2>1. Head(queue[d]) \in Item /\ Tail(queue[d]) \in Seq(Item)
    BY <1>4, QueueEnds DEF QueueToBarrier
  <2>2. 1 \in Barrier
    BY <1>4, DataflowAssumption DEF QueueToBarrier, Barrier
  <2>3. carried' \in [Barrier -> [Dtype -> Item \cup {Nothing}]]
    BY <1>4, <2>1, <2>2, CellSet DEF QueueToBarrier
  <2>4. created' \subseteq bound
    BY <1>4 DEF QueueToBarrier, OneRoute
  <2> QED
    BY <1>4, <2>1, <2>3, <2>4 DEF QueueToBarrier
<1>5. ASSUME NEW d \in Dtype, QueueToWork(d) PROVE TypeOK'
  <2>1. /\ Head(queue[d]) \in Item /\ Tail(queue[d]) \in Seq(Item)
        /\ Append(done[d], Head(queue[d])) \in Seq(Item)
    BY <1>5, QueueEnds DEF QueueToWork
  <2> QED
    BY <1>5, <2>1 DEF QueueToWork
<1>6. ASSUME NEW d \in Dtype, DirectWorkEnds(d) PROVE TypeOK'
  BY <1>6 DEF DirectWorkEnds
<1>7. ASSUME NEW d \in Dtype, NEW k \in Barrier, Deliver(k, d) PROVE TypeOK'
  <2>1. Append(out[k][d], carried[k][d]) \in Seq(Item)
    BY <1>7, QueueEnds DEF Deliver
  <2>2. out' \in [Barrier -> [Dtype -> Seq(Item)]]
    BY <1>7, <2>1, CellSet DEF Deliver
  <2>3. carried' \in [Barrier -> [Dtype -> Item \cup {Nothing}]]
    BY <1>7, CellSet DEF Deliver
  <2> QED
    BY <1>7, <2>2, <2>3 DEF Deliver
<1>8. ASSUME NEW k \in Barrier, RoundEnds(k) PROVE TypeOK'
  BY <1>8 DEF RoundEnds
<1>9. ASSUME NEW d \in Dtype, NEW k \in Barrier, Forward(k, d) PROVE TypeOK'
  <2>1. k-1 \in Barrier
    BY <1>9, DataflowAssumption DEF Forward, Barrier
  <2>2. Head(out[k-1][d]) \in Item /\ Tail(out[k-1][d]) \in Seq(Item)
    BY <1>9, <2>1, QueueEnds DEF Forward
  <2>3. out' \in [Barrier -> [Dtype -> Seq(Item)]]
    BY <1>9, <2>1, <2>2, CellSet DEF Forward
  <2>4. carried' \in [Barrier -> [Dtype -> Item \cup {Nothing}]]
    BY <1>9, <2>2, CellSet DEF Forward
  <2> QED
    BY <1>9, <2>3, <2>4 DEF Forward
<1>10. ASSUME NEW d \in Dtype, Listen(d) PROVE TypeOK'
  BY <1>10 DEF Listen, Exit, Barrier, Nothing
<1>11. ASSUME NEW d \in Dtype, BarrierToWork(d) PROVE TypeOK'
  <2>1. listens[d] \in Barrier
    BY <1>11 DEF BarrierToWork
  <2>2. /\ Head(out[listens[d]][d]) \in Item
        /\ Tail(out[listens[d]][d]) \in Seq(Item)
    BY <1>11, <2>1, QueueEnds DEF BarrierToWork
  <2>3. out' \in [Barrier -> [Dtype -> Seq(Item)]]
    BY <1>11, <2>1, <2>2, CellSet DEF BarrierToWork
  <2>4. behind'[d] \in Item /\ behind' \in [Dtype -> Item \cup {Nothing}]
    BY <1>11, <2>2 DEF BarrierToWork
  <2>5. Append(done[d], behind'[d]) \in Seq(Item)
    BY <2>4, QueueEnds
  <2> QED
    BY <1>11, <2>3, <2>4, <2>5 DEF BarrierToWork
<1>12. ASSUME NEW d \in Dtype, WorkEnds(d) PROVE TypeOK'
  BY <1>12 DEF WorkEnds
<1>13. CASE UNCHANGED vars
  BY <1>13 DEF vars
<1> QED
  BY <1>1, <1>2, <1>3, <1>4, <1>5, <1>6, <1>7, <1>8, <1>9, <1>10, <1>11, <1>12,
     <1>13 DEF Next, Route

\* Every step keeps a dtype's components on one side of the barriers.
LEMMA FlowRoute == TypeOK /\ OneRoute /\ [Next]_vars => OneRoute'
<1> SUFFICES ASSUME TypeOK, OneRoute, [Next]_vars PROVE OneRoute'
  OBVIOUS
<1> USE DEF TypeOK, OneRoute, queueVars, chainVars, workVars
<1>1. ASSUME NEW d \in Dtype, Bind(d) PROVE OneRoute'
  BY <1>1 DEF Bind, Ensured
<1>2. ASSUME NEW d \in Dtype, Emit(d) PROVE OneRoute'
  BY <1>2 DEF Emit, Ensured
<1>3. CASE AddBarrier
  BY <1>3 DEF AddBarrier
<1>4. ASSUME NEW d \in Dtype, QueueToBarrier(d) PROVE OneRoute'
  BY <1>4 DEF QueueToBarrier, Idle
<1>5. ASSUME NEW d \in Dtype, QueueToWork(d) PROVE OneRoute'
  BY <1>5 DEF QueueToWork
<1>6. ASSUME NEW d \in Dtype, DirectWorkEnds(d) PROVE OneRoute'
  BY <1>6 DEF DirectWorkEnds
<1>7. ASSUME NEW d \in Dtype, NEW k \in Barrier, Deliver(k, d) PROVE OneRoute'
  BY <1>7 DEF Deliver
<1>8. ASSUME NEW k \in Barrier, RoundEnds(k) PROVE OneRoute'
  BY <1>8 DEF RoundEnds
<1>9. ASSUME NEW d \in Dtype, NEW k \in Barrier, Forward(k, d) PROVE OneRoute'
  BY <1>9 DEF Forward
<1>10. ASSUME NEW d \in Dtype, Listen(d) PROVE OneRoute'
  BY <1>10 DEF Listen
<1>11. ASSUME NEW d \in Dtype, BarrierToWork(d) PROVE OneRoute'
  BY <1>11 DEF BarrierToWork
<1>12. ASSUME NEW d \in Dtype, WorkEnds(d) PROVE OneRoute'
  BY <1>12 DEF WorkEnds
<1>13. CASE UNCHANGED vars
  BY <1>13 DEF vars
<1> QED
  BY <1>1, <1>2, <1>3, <1>4, <1>5, <1>6, <1>7, <1>8, <1>9, <1>10, <1>11, <1>12,
     <1>13 DEF Next, Route

-----------------------------------------------------------------------------
\* Every step leaves a dtype of which nothing was sent nowhere.
LEMMA FlowUnsent ==
    TypeOK /\ OneRoute /\ NothingUnsent /\ [Next]_vars => NothingUnsent'
<1> SUFFICES ASSUME TypeOK, OneRoute, NothingUnsent, [Next]_vars,
                    NEW c \in Dtype, sent'[c] = 0
             PROVE  Nowhere(c)'
  BY DEF NothingUnsent
<1> USE DEF TypeOK, queueVars, chainVars, workVars, Nowhere
<1>0. ASSUME sent' = sent PROVE sent[c] = 0 /\ Nowhere(c)
  BY <1>0 DEF NothingUnsent
<1>1. ASSUME NEW d \in Dtype, Bind(d) PROVE Nowhere(c)'
  BY <1>0, <1>1 DEF Bind
<1>2. ASSUME NEW d \in Dtype, Emit(d) PROVE Nowhere(c)'
  <2>1. c # d /\ sent[c] = 0
    BY <1>2 DEF Emit
  <2>2. Nowhere(c) /\ queue'[c] = queue[c]
    BY <1>2, <2>1 DEF Emit, NothingUnsent
  <2> QED
    BY <1>2, <2>2 DEF Emit
<1>3. CASE AddBarrier
  BY <1>0, <1>3 DEF AddBarrier
<1>4. ASSUME NEW d \in Dtype, QueueToBarrier(d) PROVE Nowhere(c)'
  <2>1. Nowhere(c) /\ c # d /\ 1 \in Barrier
    BY <1>0, <1>4, DataflowAssumption DEF QueueToBarrier, Barrier
  <2>2. \A k \in Barrier : carried'[k][c] = carried[k][c]
    <3>1. Head(queue[d]) \in Item
      BY <1>4, QueueEnds DEF QueueToBarrier
    <3> QED
      BY <1>4, <2>1, <3>1, CellSet DEF QueueToBarrier
  <2> QED
    BY <1>4, <2>1, <2>2 DEF QueueToBarrier
<1>5. ASSUME NEW d \in Dtype, QueueToWork(d) PROVE Nowhere(c)'
  BY <1>0, <1>5 DEF QueueToWork
<1>6. ASSUME NEW d \in Dtype, DirectWorkEnds(d) PROVE Nowhere(c)'
  BY <1>0, <1>6 DEF DirectWorkEnds
<1>7. ASSUME NEW d \in Dtype, NEW k \in Barrier, Deliver(k, d) PROVE Nowhere(c)'
  <2>1. Nowhere(c) /\ c # d
    BY <1>0, <1>7 DEF Deliver
  <2>2. Append(out[k][d], carried[k][d]) \in Seq(Item)
    BY <1>7, QueueEnds DEF Deliver
  <2>3. \A j \in Barrier : out'[j][c] = out[j][c] /\ carried'[j][c] = carried[j][c]
    BY <1>7, <2>1, <2>2, CellSet DEF Deliver
  <2>4. \A j \in Barrier : c \notin arrived'[j]
    BY <1>7, <2>1 DEF Deliver
  <2> QED
    BY <1>7, <2>1, <2>3, <2>4 DEF Deliver
<1>8. ASSUME NEW k \in Barrier, RoundEnds(k) PROVE Nowhere(c)'
  BY <1>0, <1>8 DEF RoundEnds
<1>9. ASSUME NEW d \in Dtype, NEW k \in Barrier, Forward(k, d) PROVE Nowhere(c)'
  <2>1. k-1 \in Barrier
    BY <1>9, DataflowAssumption DEF Forward, Barrier
  <2>2. Nowhere(c) /\ c # d
    BY <1>0, <1>9, <2>1 DEF Forward
  <2>3. Head(out[k-1][d]) \in Item /\ Tail(out[k-1][d]) \in Seq(Item)
    BY <1>9, <2>1, QueueEnds DEF Forward
  <2>4. \A j \in Barrier : out'[j][c] = out[j][c] /\ carried'[j][c] = carried[j][c]
    <3>1. \A j \in Barrier : out'[j][c] = out[j][c]
      BY <1>9, <2>1, <2>2, <2>3, CellSet DEF Forward
    <3>2. \A j \in Barrier : carried'[j][c] = carried[j][c]
      BY <1>9, <2>2 DEF Forward
    <3> QED
      BY <3>1, <3>2
  <2> QED
    BY <1>9, <2>2, <2>4 DEF Forward
<1>10. ASSUME NEW d \in Dtype, Listen(d) PROVE Nowhere(c)'
  BY <1>0, <1>10 DEF Listen
<1>11. ASSUME NEW d \in Dtype, BarrierToWork(d) PROVE Nowhere(c)'
  <2>1. listens[d] \in Barrier
    BY <1>11 DEF BarrierToWork
  <2>2. Nowhere(c) /\ c # d
    BY <1>0, <1>11, <2>1 DEF BarrierToWork
  <2>3. Tail(out[listens[d]][d]) \in Seq(Item)
    BY <1>11, <2>1, QueueEnds DEF BarrierToWork
  <2>4. \A j \in Barrier : out'[j][c] = out[j][c]
    BY <1>11, <2>1, <2>2, <2>3, CellSet DEF BarrierToWork
  <2> QED
    BY <1>11, <2>2, <2>4 DEF BarrierToWork
<1>12. ASSUME NEW d \in Dtype, WorkEnds(d) PROVE Nowhere(c)'
  BY <1>0, <1>12 DEF WorkEnds
<1>13. CASE UNCHANGED vars
  BY <1>0, <1>13 DEF vars
<1> QED
  BY <1>1, <1>2, <1>3, <1>4, <1>5, <1>6, <1>7, <1>8, <1>9, <1>10, <1>11, <1>12,
     <1>13 DEF Next, Route

-----------------------------------------------------------------------------
\* What a dtype has got through the last barrier stays the same for a step that
\* moves nothing at it.
LEMMA RoundStands ==
    ASSUME SameRound, late' = late, barriers' = barriers, listens' = listens,
           done' = done,
           barriers > 0 => \A d \in Dtype : /\ out'[barriers][d] = out[barriers][d]
                                            /\ d \in arrived'[barriers]
                                                 <=> d \in arrived[barriers]
    PROVE  SameRound'
<1>1. barriers > 0 => \A d \in Dtype : AfterRound(d)' = AfterRound(d)
  BY DEF AfterRound, Passed
<1> QED
  BY <1>1 DEF SameRound

\* A count of items is a number.
LEMMA PassedTyped ==
    ASSUME TypeOK, barriers > 0, NEW d \in Dtype
    PROVE  /\ barriers \in Barrier
           /\ Len(done[d]) \in Nat /\ Len(out[barriers][d]) \in Nat
           /\ Passed(d) \in Nat /\ AfterRound(d) \in Nat
<1>1. barriers \in Barrier
  BY DataflowAssumption DEF TypeOK, Barrier
<1>2. Len(done[d]) \in Nat /\ Len(out[barriers][d]) \in Nat
  BY <1>1, QueueEnds DEF TypeOK
<1>3. Passed(d) \in Nat
  <2> DEFINE m == Len(done[d])
             n == Len(out[barriers][d])
  <2>1. m \in Nat /\ n \in Nat
    BY <1>2
  <2> HIDE DEF m, n
  <2>2. m + n \in Nat
    BY <2>1
  <2> QED
    BY <2>2 DEF Passed, m, n
<1> QED
  BY <1>1, <1>2, <1>3 DEF AfterRound

\* Every step keeps the dtypes in the same round of the last barrier.
LEMMA FlowRound == FlowInv /\ [Next]_vars => SameRound'
<1> SUFFICES ASSUME FlowInv, [Next]_vars PROVE SameRound'
  OBVIOUS
<1>0. TypeOK /\ OneRoute /\ NothingUnsent /\ SameRound
  BY DEF FlowInv
<1> USE <1>0 DEF queueVars, chainVars, workVars
<1>1. ASSUME NEW d \in Dtype, Bind(d) PROVE SameRound'
  BY <1>1, RoundStands DEF Bind
<1>2. ASSUME NEW d \in Dtype, Emit(d) PROVE SameRound'
  BY <1>2, RoundStands DEF Emit
<1>3. CASE AddBarrier
  <2> SUFFICES ASSUME ~late' PROVE SameRound'
    BY DEF SameRound
  <2>1. ~late /\ \A d \in Dtype : sent[d] = 0
    <3>1. ~late /\ \A d \in Dtype : ~(sent[d] > 0) /\ sent[d] \in 0..MaxItems
      BY <1>3 DEF AddBarrier, TypeOK
    <3> QED
      BY <3>1, DataflowAssumption
  <2>2. \A d \in Dtype : Nowhere(d)
    BY <2>1 DEF NothingUnsent
  <2>3. \A d \in Dtype : listens'[d] = Nothing
    BY <1>3, <2>2 DEF AddBarrier, Nowhere, OneRoute
  <2>4. barriers' \in Barrier
    BY <1>3, DataflowAssumption DEF AddBarrier, TypeOK, Barrier
  <2>5. \A d \in Dtype : /\ Len(done'[d]) = 0
                         /\ Len(out'[barriers'][d]) = 0
                         /\ d \notin arrived'[barriers']
    BY <1>3, <2>2, <2>4 DEF AddBarrier, Nowhere
  <2>6. \A d \in Dtype : AfterRound(d)' = 1
    <3>1. \A d \in Dtype : Passed(d)' = 0 + 0
      BY <2>5, Zenon DEF Passed
    <3> QED
      BY <2>5, <3>1 DEF AfterRound
  <2> QED
    BY <2>3, <2>6 DEF SameRound
<1>4. ASSUME NEW d \in Dtype, QueueToBarrier(d) PROVE SameRound'
  BY <1>4, RoundStands DEF QueueToBarrier
<1>5. ASSUME NEW d \in Dtype, QueueToWork(d) PROVE SameRound'
  <2>1. barriers' = 0 /\ listens' = listens /\ late' = late /\ barriers = 0
    BY <1>5 DEF QueueToWork
  <2> QED
    BY <2>1 DEF SameRound
<1>6. ASSUME NEW d \in Dtype, DirectWorkEnds(d) PROVE SameRound'
  BY <1>6, RoundStands DEF DirectWorkEnds
<1>7. ASSUME NEW d \in Dtype, NEW k \in Barrier, Deliver(k, d) PROVE SameRound'
  <2>1. Append(out[k][d], carried[k][d]) \in Seq(Item)
    BY <1>7, QueueEnds DEF Deliver, TypeOK
  <2>2. \A j \in Barrier, e \in Dtype :
          out'[j][e] = IF j = k /\ e = d THEN Append(out[k][d], carried[k][d])
                                         ELSE out[j][e]
    BY <1>7, <2>1, CellSet DEF Deliver, TypeOK
  <2>3. \A j \in Barrier, e \in Dtype :
          e \in arrived'[j] <=> e \in arrived[j] \/ (j = k /\ e = d)
    BY <1>7 DEF Deliver, TypeOK
  <2>4. CASE k # barriers
    <3>1. barriers > 0 => barriers \in Barrier
      BY PassedTyped
    <3> QED
      BY <1>7, <2>2, <2>3, <2>4, <3>1, RoundStands DEF Deliver
  <2>5. CASE k = barriers
    <3>1. /\ d \notin arrived[k] /\ d \in arrived'[k]
          /\ Len(out'[k][d]) = Len(out[k][d]) + 1
      <4>1. Len(out'[k][d]) = Len(out[k][d]) + 1
        BY <1>7, <2>2, QueueEnds DEF Deliver, TypeOK
      <4> QED
        BY <1>7, <2>3, <4>1 DEF Deliver, MayPut
    <3>2. barriers > 0 /\ barriers' = barriers /\ done' = done /\ late' = late
          /\ listens' = listens
      BY <1>7, <2>5 DEF Deliver, Barrier
    <3>3. AfterRound(d)' = AfterRound(d)
      <4> DEFINE m == Len(done[d])
                 n == Len(out[k][d])
      <4>1. m \in Nat /\ n \in Nat
        BY <2>5, <3>2, PassedTyped
      <4>2. Passed(d) = m + n /\ Passed(d)' = m + (n + 1)
        BY <2>5, <3>1, <3>2, Zenon DEF Passed
      <4> HIDE DEF m, n
      <4>3. Passed(d) + 1 = Passed(d)' + 0 /\ Passed(d)' \in Nat
        BY <4>1, <4>2
      <4> QED
        BY <2>5, <3>1, <3>2, <4>3 DEF AfterRound
    <3>4. \A e \in Dtype \ {d} : AfterRound(e)' = AfterRound(e)
      BY <2>2, <2>3, <2>5, <3>2 DEF AfterRound, Passed
    <3>5. \A e \in Dtype : AfterRound(e)' = AfterRound(e)
      BY <3>3, <3>4
    <3> QED
      BY <3>2, <3>5 DEF SameRound
  <2> QED
    BY <2>4, <2>5
<1>8. ASSUME NEW k \in Barrier, RoundEnds(k) PROVE SameRound'
  <2>1. CASE k # barriers
    <3>1. \A j \in Barrier \ {k} : arrived'[j] = arrived[j]
      BY <1>8 DEF RoundEnds, TypeOK
    <3>2. barriers > 0 => barriers \in Barrier
      BY DataflowAssumption DEF TypeOK, Barrier
    <3> QED
      BY <1>8, <2>1, <3>1, <3>2, RoundStands DEF RoundEnds
  <2>2. CASE k = barriers
    <3>1. arrived[k] = Dtype /\ arrived'[k] = {}
      BY <1>8 DEF RoundEnds, TypeOK
    <3>2. barriers > 0 /\ barriers' = barriers /\ done' = done /\ late' = late
          /\ listens' = listens /\ out' = out
      BY <1>8, <2>2 DEF RoundEnds, Barrier
    <3>3. \A e \in Dtype : AfterRound(e)' = AfterRound(e) + 1
      <4> TAKE e \in Dtype
      <4>1. Passed(e)' = Passed(e) /\ Passed(e) \in Nat
        BY <3>2, PassedTyped DEF Passed
      <4>2. AfterRound(e)' = Passed(e) + 1 /\ AfterRound(e) = Passed(e) + 0
        BY <2>2, <3>1, <3>2, <4>1 DEF AfterRound
      <4> QED
        BY <4>1, <4>2
    <3> QED
      BY <3>2, <3>3 DEF SameRound
  <2> QED
    BY <2>1, <2>2
<1>9. ASSUME NEW d \in Dtype, NEW k \in Barrier, Forward(k, d) PROVE SameRound'
  <2>1. k-1 \in Barrier /\ k-1 # barriers /\ barriers \in Barrier
    BY <1>9, DataflowAssumption DEF Forward, Barrier, TypeOK
  <2>2. Tail(out[k-1][d]) \in Seq(Item)
    BY <1>9, <2>1, QueueEnds DEF Forward, TypeOK
  <2>3. \A e \in Dtype : out'[barriers][e] = out[barriers][e]
    BY <1>9, <2>1, <2>2, CellSet DEF Forward, TypeOK
  <2> QED
    BY <1>9, <2>3, RoundStands DEF Forward
<1>10. ASSUME NEW d \in Dtype, Listen(d) PROVE SameRound'
  <2>1. \A e \in Dtype : listens'[e] = IF e = d THEN barriers ELSE listens[e]
    BY <1>10 DEF Listen, Exit, TypeOK
  <2>2. \A e \in Dtype : AfterRound(e)' = AfterRound(e)
    BY <1>10 DEF Listen, AfterRound, Passed
  <2> QED
    BY <1>10, <2>1, <2>2 DEF Listen, SameRound
<1>11. ASSUME NEW d \in Dtype, BarrierToWork(d) PROVE SameRound'
  <2> SUFFICES ASSUME ~late PROVE SameRound'
    BY <1>11 DEF SameRound, BarrierToWork
  <2>1. listens[d] = barriers /\ barriers \in Barrier /\ barriers > 0
    BY <1>11 DEF BarrierToWork, SameRound, TypeOK, Barrier
  <2>2. /\ Head(out[barriers][d]) \in Item
        /\ Tail(out[barriers][d]) \in Seq(Item)
        /\ Len(out[barriers][d]) = Len(Tail(out[barriers][d])) + 1
    BY <1>11, <2>1, QueueEnds DEF BarrierToWork, TypeOK
  <2>3. \A e \in Dtype :
          out'[barriers][e] = IF e = d THEN Tail(out[barriers][d])
                                       ELSE out[barriers][e]
    BY <1>11, <2>1, <2>2, CellSet DEF BarrierToWork, TypeOK
  <2>4. behind'[d] = Head(out[barriers][d])
    BY <1>11, <2>1 DEF BarrierToWork, TypeOK
  <2>5. \A e \in Dtype :
          done'[e] = IF e = d THEN Append(done[d], behind'[d]) ELSE done[e]
    BY <1>11 DEF BarrierToWork, TypeOK
  <2>6. Len(Append(done[d], behind'[d])) = Len(done[d]) + 1
    BY <2>2, <2>4, QueueEnds DEF TypeOK
  <2>7. /\ barriers' = barriers /\ arrived' = arrived /\ late' = late
        /\ \A e \in Dtype : listens'[e] \in {Nothing, listens[e]}
    BY <1>11 DEF BarrierToWork, TypeOK
  <2>8. AfterRound(d)' = AfterRound(d)
    <3>1. Len(Tail(out[barriers][d])) \in Nat /\ Len(done[d]) \in Nat
      BY <2>2, QueueEnds DEF TypeOK
    <3>2. Passed(d)' = Passed(d)
      <4> DEFINE m == Len(done[d])
                 n == Len(Tail(out[barriers][d]))
      <4>1. Passed(d) = m + (n + 1) /\ Passed(d)' = (m + 1) + n
        BY <2>2, <2>3, <2>5, <2>6, <2>7, Zenon DEF Passed
      <4>2. m \in Nat /\ n \in Nat
        BY <3>1
      <4> HIDE DEF m, n
      <4> QED
        BY <4>1, <4>2
    <3> QED
      BY <2>7, <3>2 DEF AfterRound
  <2>9. \A e \in Dtype \ {d} : AfterRound(e)' = AfterRound(e)
    BY <2>3, <2>5, <2>7 DEF AfterRound, Passed
  <2>10. \A e \in Dtype : AfterRound(e)' = AfterRound(e)
    BY <2>8, <2>9
  <2> QED
    BY <2>7, <2>10 DEF SameRound
<1>12. ASSUME NEW d \in Dtype, WorkEnds(d) PROVE SameRound'
  BY <1>12, RoundStands DEF WorkEnds
<1>13. CASE UNCHANGED vars
  BY <1>13, RoundStands DEF vars
<1> QED
  BY <1>1, <1>2, <1>3, <1>4, <1>5, <1>6, <1>7, <1>8, <1>9, <1>10, <1>11, <1>12,
     <1>13 DEF Next, Route

-----------------------------------------------------------------------------
(***************************************************************************)
(* Lines.  Every step that moves an item takes the first one of a line and *)
(* appends it to a line further on.                                        *)
(***************************************************************************)
\* The number of the last place.
LEMMA StageTyped ==
    /\ Work \in Nat /\ Work > 0 /\ Stage \subseteq Nat
    /\ 0 \in Stage /\ Work \in Stage /\ Barrier = Stage \ {0, Work}
    /\ \A i \in Item : i \in Nat
BY DataflowAssumption DEF Work, Stage, Barrier, Item

\* The first item of line p is moved to the end of line q.
Moved(f, g, p, q) ==
    /\ p < q
    /\ f[p] # <<>>
    /\ g[p] = Tail(f[p])
    /\ g[q] = Append(f[q], Head(f[p]))
    /\ \A r \in Stage \ {p, q} : g[r] = f[r]

NoneBetween(f, p, q) == \A r \in Stage : p < r /\ r < q => f[r] = <<>>

\* A move keeps all items, each once; and if the lines between are empty, it keeps
\* their order.
LEMMA MoveKeeps ==
    ASSUME NEW f \in [Stage -> Seq(Item)], NEW g \in [Stage -> Seq(Item)], NEW T,
           NEW p \in Stage, NEW q \in Stage, Moved(f, g, p, q), Filled(f, T)
    PROVE  /\ Filled(g, T)
           /\ InOrder(f) /\ NoneBetween(f, p, q) => InOrder(g)
<1>m. /\ p < q /\ f[p] # <<>> /\ g[p] = Tail(f[p]) /\ g[q] = Append(f[q], Head(f[p]))
      /\ \A r \in Stage \ {p, q} : g[r] = f[r]
  BY DEF Moved
<1> DEFINE n == Len(f[q]) + 1
           \* where the item at place r, position i was before
           S(r, i) == IF r = q /\ i = n THEN p ELSE r
           J(r, i) == IF r = p THEN i + 1 ELSE IF r = q /\ i = n THEN 1 ELSE i
<1>0. /\ p \in Nat /\ q \in Nat /\ p # q
      /\ Len(f[q]) \in Nat /\ n \in Nat /\ DOMAIN f[q] = 1..(n - 1)
      /\ \A r \in Stage : r \in Nat
  BY <1>m, StageTyped, LenProperties
<1>1. /\ 1 \in DOMAIN f[p] /\ Len(f[p]) \in Nat /\ DOMAIN f[p] = 1..Len(f[p])
      /\ DOMAIN g[p] = 1..(Len(f[p]) - 1)
      /\ \A i \in DOMAIN g[p] : g[p][i] = f[p][i + 1]
      /\ Head(f[p]) = f[p][1] /\ Head(f[p]) \in Item
  <2>1. f[p] \in Seq(Item) /\ f[p] # <<>>
    BY <1>m
  <2>2. Len(f[p]) \in Nat \ {0} /\ DOMAIN f[p] = 1..Len(f[p]) /\ Head(f[p]) = f[p][1]
    BY <2>1, EmptySeq
  <2>3. /\ Len(Tail(f[p])) = Len(f[p]) - 1 /\ DOMAIN Tail(f[p]) = 1..Len(Tail(f[p]))
        /\ \A i \in 1..Len(Tail(f[p])) : Tail(f[p])[i] = f[p][i + 1]
        /\ Head(f[p]) \in Item
    BY <2>1, <2>2, HeadTailProperties, LenProperties
  <2> QED
    BY <1>m, <2>2, <2>3
<1>2. /\ DOMAIN g[q] = 1..n /\ g[q][n] = f[p][1]
      /\ \A i \in 1..(n - 1) : g[q][i] = f[q][i]
  <2>1. f[q] \in Seq(Item)
    OBVIOUS
  <2>2. /\ Len(Append(f[q], Head(f[p]))) = n /\ Append(f[q], Head(f[p])) \in Seq(Item)
        /\ Append(f[q], Head(f[p]))[n] = Head(f[p])
        /\ \A i \in 1..Len(f[q]) : Append(f[q], Head(f[p]))[i] = f[q][i]
    BY <1>1, <2>1, AppendProperties
  <2>3. DOMAIN Append(f[q], Head(f[p])) = 1..n
    BY <2>2, LenProperties
  <2> QED
    BY <1>m, <1>0, <1>1, <2>2, <2>3
<1>3. ASSUME NEW r \in Stage, NEW i \in DOMAIN g[r]
      PROVE  /\ i \in Nat /\ S(r, i) \in Stage /\ J(r, i) \in DOMAIN f[S(r, i)]
             /\ g[r][i] = f[S(r, i)][J(r, i)]
  <2>1. CASE r = p
    BY <1>0, <1>1, <1>3, <2>1
  <2>2. CASE r = q /\ i = n
    BY <1>0, <1>1, <1>2, <2>2
  <2>3. CASE r = q /\ i # n
    BY <1>0, <1>2, <1>3, <2>3
  <2>4. CASE r \notin {p, q}
    <3>1. g[r] = f[r] /\ DOMAIN f[r] = 1..Len(f[r]) /\ Len(f[r]) \in Nat
      BY <1>m, <2>4, LenProperties
    <3> QED
      BY <1>3, <2>4, <3>1
  <2> QED
    BY <2>1, <2>2, <2>3, <2>4
<1>4. ASSUME NEW s \in Stage, NEW j \in DOMAIN f[s]
      PROVE  \E r \in Stage : \E i \in DOMAIN g[r] : g[r][i] = f[s][j]
  <2>1. CASE s = p /\ j = 1
    <3>1. n \in DOMAIN g[q] /\ g[q][n] = f[s][j]
      BY <1>0, <1>2, <2>1
    <3> QED
      BY <3>1
  <2>2. CASE s = p /\ j # 1
    <3>1. j - 1 \in DOMAIN g[p] /\ g[p][j - 1] = f[s][j]
      BY <1>1, <1>4, <2>2
    <3> QED
      BY <3>1
  <2>3. CASE s = q
    <3>1. j \in DOMAIN g[q] /\ g[q][j] = f[s][j]
      BY <1>0, <1>2, <1>4, <2>3
    <3> QED
      BY <3>1
  <2>4. CASE s \notin {p, q}
    BY <1>m, <1>4, <2>4
  <2> QED
    BY <2>1, <2>2, <2>3, <2>4
<1>5. ASSUME NEW r \in Stage, NEW s \in Stage,
             NEW i \in DOMAIN g[r], NEW j \in DOMAIN g[s], r # s \/ i # j
      PROVE  S(r, i) # S(s, j) \/ J(r, i) # J(s, j)
  <2>0. i \in Nat /\ j \in Nat /\ (r = p => i + 1 # 1) /\ (s = p => j + 1 # 1)
    BY <1>1, <1>3, <1>5
  <2>1. CASE r = s
    <3>1. CASE r # q
      BY <1>5, <2>0, <2>1, <3>1
    <3>2. CASE r = q /\ (i = n \/ j = n)
      <4>1. S(r, i) # S(s, j)
        BY <1>0, <1>5, <2>1, <3>2
      <4> QED
        BY <4>1
    <3>3. CASE r = q /\ i # n /\ j # n
      BY <1>0, <1>5, <2>1, <3>3
    <3> QED
      BY <3>1, <3>2, <3>3
  <2>2. CASE r # s /\ r = q /\ i = n
    BY <1>0, <2>0, <2>2
  <2>3. CASE r # s /\ s = q /\ j = n
    BY <1>0, <2>0, <2>3
  <2>4. CASE r # s /\ ~(r = q /\ i = n) /\ ~(s = q /\ j = n)
    BY <2>4
  <2> QED
    BY <2>1, <2>2, <2>3, <2>4
<1>6. Filled(g, T)
  <2> HIDE DEF S, J, n
  <2>1. \A r \in Stage : \A i \in DOMAIN g[r] : g[r][i] \in T
    BY <1>3 DEF Filled
  <2>2. \A m \in T : \E r \in Stage : \E i \in DOMAIN g[r] : g[r][i] = m
    <3> TAKE m \in T
    <3>1. PICK s \in Stage : \E j \in DOMAIN f[s] : f[s][j] = m
      BY DEF Filled
    <3>2. PICK j \in DOMAIN f[s] : f[s][j] = m
      BY <3>1
    <3> QED
      BY <1>4, <3>2
  <2>3. ASSUME NEW r \in Stage, NEW s \in Stage,
               NEW i \in DOMAIN g[r], NEW j \in DOMAIN g[s], r # s \/ i # j
        PROVE  g[r][i] # g[s][j]
    <3>1. S(r, i) # S(s, j) \/ J(r, i) # J(s, j)
      BY <1>5, <2>3
    <3>2. S(r, i) \in Stage /\ J(r, i) \in DOMAIN f[S(r, i)]
      BY <1>3
    <3>3. S(s, j) \in Stage /\ J(s, j) \in DOMAIN f[S(s, j)]
      BY <1>3
    <3>4. f[S(r, i)][J(r, i)] # f[S(s, j)][J(s, j)]
      <4>1. \A a, b \in Stage : \A x \in DOMAIN f[a], y \in DOMAIN f[b] :
               (a # b \/ x # y) => f[a][x] # f[b][y]
        BY DEF Filled
      <4> HIDE DEF Filled
      <4> QED
        BY <3>1, <3>2, <3>3, <4>1
    <3>5. g[r][i] = f[S(r, i)][J(r, i)] /\ g[s][j] = f[S(s, j)][J(s, j)]
      BY <1>3
    <3> QED
      BY <3>4, <3>5, Zenon
  <2> QED
    BY <2>1, <2>2, <2>3 DEF Filled
<1>7. ASSUME InOrder(f), NoneBetween(f, p, q)
      PROVE  InOrder(g)
  <2> SUFFICES ASSUME NEW r \in Stage, NEW s \in Stage,
                      NEW i \in DOMAIN g[r], NEW j \in DOMAIN g[s],
                      r > s \/ (r = s /\ i < j)
               PROVE  g[r][i] < g[s][j]
    BY DEF InOrder
  <2>1. S(r, i) > S(s, j) \/ (S(r, i) = S(s, j) /\ J(r, i) < J(s, j))
    <3>1. CASE r = q /\ i = n
      <4>1. s # q
        BY <1>0, <1>2, <3>1
      <4>2. ~(p < s /\ s < q)
        <5> SUFFICES ASSUME p < s, s < q PROVE FALSE
          OBVIOUS
        <5>1. g[s] = f[s] /\ f[s] = <<>>
          BY <1>m, <1>0, <1>7 DEF NoneBetween
        <5> QED
          BY <5>1
      <4>3. s = p \/ s < p
        BY <1>0, <3>1, <4>1, <4>2
      <4>4. S(r, i) = p /\ J(r, i) = 1 /\ S(s, j) = s
        BY <1>0, <3>1, <4>1
      <4>5. CASE s = p
        <5>1. J(s, j) = j + 1 /\ j \in Nat \ {0}
          BY <1>1, <4>5
        <5> QED
          BY <4>4, <4>5, <5>1
      <4> QED
        BY <4>3, <4>4, <4>5, <1>0
    <3>2. CASE ~(r = q /\ i = n) /\ s = q /\ j = n
      <4>1. S(s, j) = p /\ J(s, j) = 1 /\ S(r, i) = r
        BY <1>0, <3>2
      <4>2. r \in Nat /\ (r > q \/ r = q)
        BY <1>0, <3>2
      <4>3. p \in Nat /\ q \in Nat /\ p < q
        BY <1>m, <1>0
      <4> QED
        BY <4>1, <4>2, <4>3
    <3>3. CASE ~(r = q /\ i = n) /\ ~(s = q /\ j = n)
      <4>1. S(r, i) = r /\ S(s, j) = s
        BY <3>3
      <4>2. i \in Nat /\ j \in Nat /\ r \in Nat /\ s \in Nat
        BY <1>0, <1>3
      <4>3. r = s => J(r, i) < J(s, j)
        BY <3>3, <4>2
      <4> QED
        BY <4>1, <4>2, <4>3
    <3> QED
      BY <3>1, <3>2, <3>3
  <2> HIDE DEF S, J, n
  <2>2. S(r, i) \in Stage /\ J(r, i) \in DOMAIN f[S(r, i)]
    BY <1>3
  <2>3. S(s, j) \in Stage /\ J(s, j) \in DOMAIN f[S(s, j)]
    BY <1>3
  <2>4. f[S(r, i)][J(r, i)] < f[S(s, j)][J(s, j)]
    BY <1>7, <2>1, <2>2, <2>3, Zenon DEF InOrder
  <2>5. g[r][i] = f[S(r, i)][J(r, i)] /\ g[s][j] = f[S(s, j)][J(s, j)]
    BY <1>3
  <2> QED
    BY <2>4, <2>5, Zenon
<1> QED
  BY <1>6, <1>7

\* A new item, younger than all others, is put at the end of the first line.
LEMMA JoinKeeps ==
    ASSUME NEW f \in [Stage -> Seq(Item)], NEW g \in [Stage -> Seq(Item)], NEW T,
           NEW m \in Item, \A t \in T : t \in Nat /\ t < m,
           g[0] = Append(f[0], m), \A r \in Stage \ {0} : g[r] = f[r],
           Filled(f, T)
    PROVE  /\ Filled(g, T \cup {m})
           /\ InOrder(f) => InOrder(g)
<1> DEFINE n == Len(f[0]) + 1
<1>0. /\ 0 \in Stage /\ Len(f[0]) \in Nat /\ n \in Nat /\ DOMAIN f[0] = 1..(n - 1)
      /\ \A r \in Stage : r \in Nat
  BY StageTyped, LenProperties
<1>1. /\ DOMAIN g[0] = 1..n /\ g[0][n] = m
      /\ \A i \in 1..(n - 1) : g[0][i] = f[0][i]
  <2>1. f[0] \in Seq(Item)
    BY <1>0
  <2>2. /\ Len(Append(f[0], m)) = n /\ Append(f[0], m) \in Seq(Item)
        /\ Append(f[0], m)[n] = m
        /\ \A i \in 1..Len(f[0]) : Append(f[0], m)[i] = f[0][i]
    BY <2>1, AppendProperties
  <2>3. DOMAIN Append(f[0], m) = 1..n
    BY <2>2, LenProperties
  <2> QED
    BY <1>0, <2>2, <2>3
<1>2. ASSUME NEW r \in Stage, NEW i \in DOMAIN g[r]
      PROVE  \/ i \in DOMAIN f[r] /\ g[r][i] = f[r][i] /\ g[r][i] \in T
             \/ r = 0 /\ i = n /\ g[r][i] = m
  <2>1. CASE r = 0 /\ i = n
    BY <1>1, <2>1
  <2>2. CASE r = 0 /\ i # n
    <3>1. i \in 1..(n - 1) /\ g[r][i] = f[r][i]
      BY <1>0, <1>1, <1>2, <2>2
    <3>2. i \in DOMAIN f[r]
      BY <1>0, <2>2, <3>1
    <3> QED
      BY <3>1, <3>2 DEF Filled
  <2>3. CASE r # 0
    <3>1. g[r] = f[r]
      BY <2>3
    <3> QED
      BY <1>2, <3>1 DEF Filled
  <2> QED
    BY <2>1, <2>2, <2>3
<1>3. ASSUME NEW r \in Stage, NEW i \in DOMAIN f[r]
      PROVE  i \in DOMAIN g[r] /\ g[r][i] = f[r][i]
  <2>1. CASE r = 0
    BY <1>0, <1>1, <1>3, <2>1
  <2>2. CASE r # 0
    BY <1>3, <2>2
  <2> QED
    BY <2>1, <2>2
<1>4. n \in DOMAIN g[0] /\ n \notin DOMAIN f[0] /\ m \notin T
  BY <1>0, <1>1, StageTyped
<1> HIDE DEF n
<1>5. Filled(g, T \cup {m})
  <2>1. \A r \in Stage : \A i \in DOMAIN g[r] : g[r][i] \in T \cup {m}
    BY <1>2
  <2>2. \A t \in T \cup {m} : \E r \in Stage : \E i \in DOMAIN g[r] : g[r][i] = t
    <3>1. \A t \in T : \E r \in Stage : \E i \in DOMAIN g[r] : g[r][i] = t
      BY <1>3 DEF Filled
    <3>2. \E r \in Stage : \E i \in DOMAIN g[r] : g[r][i] = m
      BY <1>0, <1>1, <1>4
    <3> QED
      BY <3>1, <3>2
  <2>3. ASSUME NEW r \in Stage, NEW s \in Stage,
               NEW i \in DOMAIN g[r], NEW j \in DOMAIN g[s], r # s \/ i # j
        PROVE  g[r][i] # g[s][j]
    <3>1. \/ i \in DOMAIN f[r] /\ g[r][i] = f[r][i] /\ g[r][i] \in T
          \/ r = 0 /\ i = n /\ g[r][i] = m
      BY <1>2
    <3>2. \/ j \in DOMAIN f[s] /\ g[s][j] = f[s][j] /\ g[s][j] \in T
          \/ s = 0 /\ j = n /\ g[s][j] = m
      BY <1>2
    <3>3. CASE i \in DOMAIN f[r] /\ j \in DOMAIN f[s]
      <4>1. g[r][i] = f[r][i] /\ g[s][j] = f[s][j]
        BY <1>3, <3>3
      <4> QED
        BY <2>3, <3>3, <4>1 DEF Filled
    <3>4. CASE i \notin DOMAIN f[r] /\ j \in DOMAIN f[s]
      <4>1. g[r][i] = m /\ g[s][j] \in T
        BY <1>4, <3>1, <3>2, <3>4
      <4> QED
        BY <1>4, <4>1
    <3>5. CASE i \in DOMAIN f[r] /\ j \notin DOMAIN f[s]
      <4>1. g[r][i] \in T /\ g[s][j] = m
        BY <1>4, <3>1, <3>2, <3>5
      <4> QED
        BY <1>4, <4>1
    <3>6. CASE i \notin DOMAIN f[r] /\ j \notin DOMAIN f[s]
      BY <2>3, <3>1, <3>2, <3>6
    <3> QED
      BY <3>3, <3>4, <3>5, <3>6
  <2> QED
    BY <2>1, <2>2, <2>3 DEF Filled
<1>6. ASSUME InOrder(f) PROVE InOrder(g)
  <2> SUFFICES ASSUME NEW r \in Stage, NEW s \in Stage,
                      NEW i \in DOMAIN g[r], NEW j \in DOMAIN g[s],
                      r > s \/ (r = s /\ i < j)
               PROVE  g[r][i] < g[s][j]
    BY DEF InOrder
  <2>1. CASE s = 0 /\ j = n
    <3>1. ~(r = 0 /\ i = n)
      BY <1>0, <2>1
    <3> QED
      BY <1>1, <1>2, <2>1, <3>1
  <2>2. CASE ~(s = 0 /\ j = n)
    <3>1. ~(r = 0 /\ i = n)
      <4> SUFFICES ASSUME r = 0, i = n PROVE FALSE
        OBVIOUS
      <4>1. s = 0 /\ j \in 1..n /\ n < j
        BY <1>0, <1>1
      <4> QED
        BY <1>0, <4>1
    <3>2. i \in DOMAIN f[r] /\ g[r][i] = f[r][i] /\ j \in DOMAIN f[s] /\ g[s][j] = f[s][j]
      BY <1>2, <2>2, <3>1
    <3> QED
      BY <1>6, <3>2 DEF InOrder
  <2> QED
    BY <2>1, <2>2
<1> QED
  BY <1>5, <1>6

\* What is held in front of a barrier stands behind all that is at it.
LEMMA HeldLast ==
    ASSUME NEW s \in Seq(Item), NEW c \in Item \cup {Nothing}
    PROVE  /\ s \o Held(c) \in Seq(Item)
           /\ s \o Held(Nothing) = s
           /\ c # Nothing => s \o Held(c) = Append(s, c)
           /\ s # <<>> => /\ s \o Held(c) # <<>>
                          /\ Head(s \o Held(c)) = Head(s)
                          /\ Tail(s \o Held(c)) = Tail(s) \o Held(c)
<1>1. s \o Held(Nothing) = s
  BY ConcatEmptySeq DEF Held
<1>2. CASE c = Nothing
  <2>1. s \o Held(c) = s
    BY <1>1, <1>2
  <2>2. s # <<>> => Tail(s) \o Held(c) = Tail(s)
    BY <1>2, HeadTailProperties, ConcatEmptySeq DEF Held
  <2> QED
    BY <1>1, <1>2, <2>1, <2>2
<1>3. CASE c # Nothing
  <2>1. c \in Item /\ Held(c) = <<c>>
    BY <1>3 DEF Held
  <2>2. s \o Held(c) = Append(s, c)
    BY <2>1, AppendIsConcat
  <2>3. Append(s, c) \in Seq(Item) /\ Append(s, c) # <<>>
    BY <2>1, AppendProperties
  <2>4. ASSUME s # <<>>
        PROVE  Head(Append(s, c)) = Head(s) /\ Tail(Append(s, c)) = Tail(s) \o Held(c)
    <3>1. Tail(s) \in Seq(Item)
      BY <2>4, HeadTailProperties
    <3>2. Tail(s) \o Held(c) = Append(Tail(s), c)
      BY <2>1, <3>1, AppendIsConcat
    <3> QED
      BY <2>4, <3>2, HeadTailAppend
  <2> QED
    BY <1>1, <2>2, <2>3, <2>4
<1> QED
  BY <1>2, <1>3

\* The lines of a dtype are sequences of items, before and after a step.
LEMMA LinesTyped ==
    ASSUME NEW d \in Dtype
    PROVE  /\ TypeOK => /\ Lines(d) \in [Stage -> Seq(Item)]
                        /\ \A p \in Stage : Lines(d)[p] = Line(d, p)
           /\ TypeOK' => /\ Lines(d)' \in [Stage -> Seq(Item)]
                         /\ \A p \in Stage : Lines(d)'[p] = Line(d, p)'
<1>1. ASSUME TypeOK, NEW p \in Stage PROVE Line(d, p) \in Seq(Item)
  <2>1. p \notin {0, Work} => p \in Barrier
    BY StageTyped
  <2> QED
    BY <1>1, <2>1, HeldLast DEF Line, TypeOK
<1>2. ASSUME TypeOK', NEW p \in Stage PROVE Line(d, p)' \in Seq(Item)
  <2>1. p \notin {0, Work} => p \in Barrier
    BY StageTyped
  <2> QED
    BY <1>2, <2>1, HeldLast DEF Line, TypeOK
<1> QED
  BY <1>1, <1>2 DEF Lines

\* All is well with a dtype after a step that leaves its lines alone ...
LEMMA LineStands ==
    ASSUME NEW d \in Dtype, LineExact(d), ~late' => ~late,
           sent'[d] = sent[d], dropped'[d] = dropped[d],
           \A p \in Stage : Line(d, p)' = Line(d, p)
    PROVE  LineExact(d)'
<1>1. Lines(d)' = Lines(d) /\ Taken(d)' = Taken(d)
  BY DEF Lines, Taken
<1> QED
  BY <1>1 DEF LineExact

\* ... and after one that moves the first item of a line further on.
LEMMA LineMoves ==
    ASSUME TypeOK, TypeOK', NEW d \in Dtype, LineExact(d), late' = late,
           sent'[d] = sent[d], dropped'[d] = dropped[d],
           NEW p \in Stage, NEW q \in Stage, p < q, Line(d, p) # <<>>,
           Line(d, p)' = Tail(Line(d, p)),
           Line(d, q)' = Append(Line(d, q), Head(Line(d, p))),
           \A r \in Stage \ {p, q} : Line(d, r)' = Line(d, r),
           ~late => \A r \in Stage : p < r /\ r < q => Line(d, r) = <<>>
    PROVE  LineExact(d)'
<1> DEFINE f == Lines(d)
           g == Lines(d)'
<1>1. /\ f \in [Stage -> Seq(Item)] /\ g \in [Stage -> Seq(Item)]
      /\ \A r \in Stage : f[r] = Line(d, r) /\ g[r] = Line(d, r)'
  BY LinesTyped
<1>2. Filled(f, Taken(d)) /\ Taken(d)' = Taken(d)
  BY DEF LineExact, Taken
<1> HIDE DEF f, g
<1>3. Moved(f, g, p, q) /\ (~late => NoneBetween(f, p, q))
  BY <1>1 DEF Moved, NoneBetween
<1>4. /\ Filled(g, Taken(d))
      /\ InOrder(f) /\ NoneBetween(f, p, q) => InOrder(g)
  BY <1>1, <1>2, <1>3, MoveKeeps
<1>5. ~late => InOrder(g)
  BY <1>3, <1>4 DEF LineExact, f
<1> QED
  BY <1>2, <1>4, <1>5 DEF LineExact, g

\* No step touches a place at a barrier that is not in the chain.
LEMMA BeyondNext == FlowInv /\ NoneBeyond /\ [Next]_vars => NoneBeyond'
<1> SUFFICES ASSUME FlowInv, NoneBeyond, [Next]_vars,
                    NEW k \in Barrier, k > barriers', NEW c \in Dtype
             PROVE  out'[k][c] = <<>> /\ carried'[k][c] = Nothing
  BY DEF NoneBeyond
<1> USE DEF TypeOK, queueVars, chainVars, workVars
<1>0. /\ TypeOK /\ SameRound /\ OneRoute
      /\ k \in Nat /\ barriers \in Nat /\ \A j \in Barrier : j \in Nat
  <2>1. TypeOK /\ SameRound /\ OneRoute
    BY DEF FlowInv
  <2>2. \A j \in Barrier : j \in Nat
    BY DEF Barrier
  <2>3. barriers \in Nat
    BY <2>1
  <2> QED
    BY <2>1, <2>2, <2>3
<1>e. barriers' = barriers => out[k][c] = <<>> /\ carried[k][c] = Nothing
  BY DEF NoneBeyond
<1>1. ASSUME NEW d \in Dtype, Bind(d)
      PROVE  UNCHANGED <<out, carried, barriers>>
  BY <1>1 DEF Bind
<1>2. ASSUME NEW d \in Dtype, Emit(d)
      PROVE  UNCHANGED <<out, carried, barriers>>
  BY <1>2 DEF Emit
<1>3. ASSUME AddBarrier PROVE out'[k][c] = <<>> /\ carried'[k][c] = Nothing
  BY <1>0, <1>3 DEF AddBarrier, NoneBeyond
<1>4. ASSUME NEW d \in Dtype, QueueToBarrier(d)
      PROVE  out'[k][c] = <<>> /\ carried'[k][c] = Nothing
  <2>1. 1 \in Barrier /\ k # 1 /\ barriers' = barriers
    BY <1>0, <1>4, DataflowAssumption DEF QueueToBarrier, Barrier
  <2>2. Head(queue[d]) \in Item
    BY <1>0, <1>4, QueueEnds DEF QueueToBarrier
  <2>3. carried'[k][c] = carried[k][c] /\ out' = out
    BY <1>0, <1>4, <2>1, <2>2, CellSet DEF QueueToBarrier
  <2> QED
    BY <1>e, <2>1, <2>3
<1>5. ASSUME NEW d \in Dtype, QueueToWork(d)
      PROVE  UNCHANGED <<out, carried, barriers>>
  BY <1>5 DEF QueueToWork
<1>6. ASSUME NEW d \in Dtype, DirectWorkEnds(d)
      PROVE  UNCHANGED <<out, carried, barriers>>
  BY <1>6 DEF DirectWorkEnds
<1>7. ASSUME NEW d \in Dtype, NEW j \in Barrier, Deliver(j, d)
      PROVE  out'[k][c] = <<>> /\ carried'[k][c] = Nothing
  <2>1. barriers' = barriers /\ (j # k \/ c # d)
    BY <1>e, <1>7 DEF Deliver
  <2>2. Append(out[j][d], carried[j][d]) \in Seq(Item)
    BY <1>0, <1>7, QueueEnds DEF Deliver
  <2>3. out'[k][c] = out[k][c]
    BY <1>0, <1>7, <2>1, <2>2, CellSet DEF Deliver
  <2>4. carried'[k][c] = carried[k][c]
    BY <1>0, <1>7, <2>1 DEF Deliver
  <2> QED
    BY <1>e, <2>1, <2>3, <2>4
<1>8. ASSUME NEW j \in Barrier, RoundEnds(j)
      PROVE  UNCHANGED <<out, carried, barriers>>
  BY <1>8 DEF RoundEnds
<1>9. ASSUME NEW d \in Dtype, NEW j \in Barrier, Forward(j, d)
      PROVE  out'[k][c] = <<>> /\ carried'[k][c] = Nothing
  <2>0. barriers' = barriers /\ j \in 2..barriers
    BY <1>9 DEF Forward
  <2>1. barriers' = barriers /\ j-1 \in Barrier /\ k # j /\ k # j-1
    BY <1>0, <2>0, DataflowAssumption DEF Barrier
  <2>2. Head(out[j-1][d]) \in Item /\ Tail(out[j-1][d]) \in Seq(Item)
    BY <1>0, <1>9, <2>1, QueueEnds DEF Forward
  <2>3. out'[k][c] = out[k][c] /\ carried'[k][c] = carried[k][c]
    BY <1>0, <1>9, <2>1, <2>2, CellSet DEF Forward
  <2> QED
    BY <1>e, <2>1, <2>3
<1>10. ASSUME NEW d \in Dtype, Listen(d)
      PROVE  UNCHANGED <<out, carried, barriers>>
  BY <1>10 DEF Listen
<1>11. ASSUME NEW d \in Dtype, BarrierToWork(d)
      PROVE  out'[k][c] = <<>> /\ carried'[k][c] = Nothing
  <2>1. barriers' = barriers /\ listens[d] \in Barrier /\ carried' = carried
    BY <1>0, <1>11 DEF BarrierToWork
  <2>2. Tail(out[listens[d]][d]) \in Seq(Item) /\ (k # listens[d] \/ c # d)
    <3>1. out[listens[d]][d] \in Seq(Item) /\ out[listens[d]][d] # <<>>
      BY <1>0, <1>11, <2>1 DEF BarrierToWork
    <3>2. k = listens[d] => out[k][d] # <<>>
      BY <3>1
    <3> QED
      BY <1>e, <2>1, <3>1, <3>2, QueueEnds
  <2>3. out'[k][c] = out[k][c]
    BY <1>0, <1>11, <2>1, <2>2, CellSet DEF BarrierToWork
  <2> QED
    BY <1>e, <2>1, <2>3
<1>12. ASSUME NEW d \in Dtype, WorkEnds(d)
      PROVE  UNCHANGED <<out, carried, barriers>>
  BY <1>12 DEF WorkEnds
<1>13. CASE UNCHANGED vars
  BY <1>e, <1>13 DEF vars
<1> QED
  BY <1>e, <1>1, <1>2, <1>3, <1>4, <1>5, <1>6, <1>7, <1>8, <1>9, <1>10, <1>11, <1>12,
     <1>13 DEF Next, Route

\* The lines of a dtype are the same when none of its queues changes.
LEMMA LineCells ==
    ASSUME NEW c \in Dtype, queue'[c] = queue[c], done'[c] = done[c],
           \A k \in Barrier : out'[k][c] = out[k][c] /\ carried'[k][c] = carried[k][c]
    PROVE  \A p \in Stage : Line(c, p)' = Line(c, p)
<1> SUFFICES ASSUME NEW p \in Stage PROVE Line(c, p)' = Line(c, p)
  OBVIOUS
<1>1. p \in {0, Work} \/ p \in Barrier
  BY StageTyped
<1>2. Work' = Work
  BY DEF Work
<1> QED
  BY <1>1, <1>2 DEF Line

\* A new item comes into the queue of its dtype, or is dropped.
LEMMA EmitKeepsLines ==
    ASSUME TypeOK, TypeOK', NEW d \in Dtype, NEW c \in Dtype, Emit(d), LineExact(c)
    PROVE  LineExact(c)'
<1> USE DEF queueVars, chainVars, workVars
<1>1. CASE c # d
  <2>0. /\ queue \in [Dtype -> Seq(Item)] /\ dropped \in [Dtype -> SUBSET Item]
        /\ sent \in [Dtype -> 0..MaxItems]
    BY DEF TypeOK
  <2>1. queue'[c] = queue[c] /\ dropped'[c] = dropped[c] /\ sent'[c] = sent[c]
    BY <1>1, <2>0 DEF Emit
  <2> QED
    BY <2>1, LineCells, LineStands DEF Emit
<1>2. CASE c = d
  <2> DEFINE f == Lines(c)
             g == Lines(c)'
             m == sent[c] + 1
  <2>1. /\ f \in [Stage -> Seq(Item)] /\ g \in [Stage -> Seq(Item)]
        /\ \A r \in Stage : f[r] = Line(c, r) /\ g[r] = Line(c, r)'
    BY LinesTyped
  <2>2. /\ m \in Item /\ sent'[c] = m /\ sent[c] \in Nat /\ late' = late
        /\ \A t \in Taken(c) : t \in Nat /\ t < m
        /\ m \notin dropped[c] /\ dropped[c] \subseteq 1..sent[c]
    BY <1>2, DataflowAssumption DEF Emit, TypeOK, Item, Taken, LineExact
  <2>3. Filled(f, Taken(c)) /\ (~late => InOrder(f))
    BY DEF LineExact
  <2>4. CASE d \in bound \cup Consumed
    <3>1. queue'[c] = Append(queue[c], m) /\ dropped' = dropped
      BY <1>2, <2>2, <2>4 DEF Emit, TypeOK
    <3>2. /\ Line(c, 0)' = Append(Line(c, 0), m)
          /\ \A r \in Stage \ {0} : Line(c, r)' = Line(c, r)
      BY <3>1 DEF Line, Emit, Work
    <3>3. Taken(c)' = Taken(c) \cup {m}
      BY <2>2, <3>1 DEF Taken
    <3>4. g[0] = Append(f[0], m) /\ \A r \in Stage \ {0} : g[r] = f[r]
      BY <2>1, <3>2, StageTyped
    <3> HIDE DEF f, g, m
    <3>5. Filled(g, Taken(c) \cup {m}) /\ (InOrder(f) => InOrder(g))
      BY <2>1, <2>2, <2>3, <3>4, JoinKeeps
    <3>6. dropped'[c] \subseteq 1..sent'[c]
      BY <2>2, <3>1 DEF m
    <3>7. Filled(g, Taken(c)') /\ (~late' => InOrder(g))
      BY <2>2, <2>3, <3>3, <3>5
    <3> QED
      BY <3>6, <3>7 DEF LineExact, g
  <2>5. CASE d \notin bound \cup Consumed
    <3>1. queue' = queue /\ dropped'[c] = dropped[c] \cup {m}
      BY <1>2, <2>2, <2>5 DEF Emit, TypeOK
    <3>2. \A r \in Stage : Line(c, r)' = Line(c, r)
      BY <3>1 DEF Line, Emit, Work
    <3>3. Lines(c)' = Lines(c)
      BY <3>2 DEF Lines
    <3>4. Taken(c)' = Taken(c) /\ dropped'[c] \subseteq 1..sent'[c]
      BY <2>2, <3>1 DEF Taken
    <3> QED
      BY <2>2, <2>3, <3>3, <3>4 DEF LineExact
  <2> QED
    BY <2>4, <2>5
<1> QED
  BY <1>1, <1>2

\* An item goes from a barrier into the hands of the task in front of the next.
LEMMA ForwardKeepsLines ==
    ASSUME TypeOK, TypeOK', NEW d \in Dtype, NEW c \in Dtype, NEW k \in Barrier,
           Forward(k, d), LineExact(c)
    PROVE  LineExact(c)'
<1> USE DEF queueVars, chainVars, workVars
<1>0. /\ k \in Nat /\ k-1 \in Barrier /\ k \in Stage /\ k-1 \in Stage /\ k-1 < k /\ k-1 # k
      /\ k # 0 /\ k # Work /\ k-1 # 0 /\ k-1 # Work /\ Work' = Work
  BY DataflowAssumption, StageTyped DEF Forward, Barrier, Work
<1>1. /\ out[k-1][d] \in Seq(Item) /\ out[k-1][d] # <<>> /\ carried[k][d] = Nothing
      /\ Head(out[k-1][d]) \in Item /\ Tail(out[k-1][d]) \in Seq(Item)
      /\ Head(out[k-1][d]) # Nothing
  <2>1. out[k-1][d] \in Seq(Item)
    BY <1>0 DEF TypeOK
  <2>2. out[k-1][d] # <<>> /\ carried[k][d] = Nothing
    BY DEF Forward, HandsFree
  <2> QED
    BY <2>1, <2>2, QueueEnds
<1>2. \A j \in Barrier, e \in Dtype :
        /\ out'[j][e] = IF j = k-1 /\ e = d THEN Tail(out[k-1][d]) ELSE out[j][e]
        /\ carried'[j][e] = IF j = k /\ e = d THEN Head(out[k-1][d]) ELSE carried[j][e]
  <2>1. PICK q, m : /\ q = Tail(out[k-1][d]) /\ q \in Seq(Item)
                    /\ m = Head(out[k-1][d]) /\ m \in Item \cup {Nothing}
    BY <1>1
  <2>2. \A j \in Barrier, e \in Dtype :
          out'[j][e] = IF j = k-1 /\ e = d THEN q ELSE out[j][e]
    <3>1. out \in [Barrier -> [Dtype -> Seq(Item)]] /\ k-1 \in Barrier
      BY <1>0 DEF TypeOK
    <3>2. out' = [out EXCEPT ![k-1][d] = q]
      BY <2>1 DEF Forward
    <3> QED
      BY <2>1, <3>1, <3>2, CellSet
  <2>3. \A j \in Barrier, e \in Dtype :
          carried'[j][e] = IF j = k /\ e = d THEN m ELSE carried[j][e]
    <3>1. carried \in [Barrier -> [Dtype -> Item \cup {Nothing}]] /\ k \in Barrier
      BY DEF Forward, TypeOK
    <3>2. carried' = [carried EXCEPT ![k][d] = m]
      BY <2>1 DEF Forward
    <3> QED
      BY <2>1, <3>1, <3>2, CellSet
  <2> QED
    BY <2>1, <2>2, <2>3
<1>3. CASE c # d
  BY <1>2, <1>3, LineCells, LineStands DEF Forward
<1>4. CASE c = d
  <2>1. /\ Line(c, k-1) # <<>> /\ Head(Line(c, k-1)) = Head(out[k-1][c])
        /\ Line(c, k-1)' = Tail(Line(c, k-1))
    <3>1. /\ Line(c, k-1) = out[k-1][c] \o Held(carried[k-1][c])
          /\ Line(c, k-1)' = Tail(out[k-1][c]) \o Held(carried[k-1][c])
      BY <1>0, <1>2, <1>4 DEF Line
    <3>2. carried[k-1][c] \in Item \cup {Nothing}
      BY <1>0 DEF TypeOK
    <3>3. out[k-1][c] \in Seq(Item) /\ out[k-1][c] # <<>>
      BY <1>1, <1>4
    <3>4. PICK s, h : s = out[k-1][c] /\ h = carried[k-1][c]
      OBVIOUS
    <3>5. s \in Seq(Item) /\ s # <<>> /\ h \in Item \cup {Nothing}
      BY <3>2, <3>3, <3>4
    <3>6. /\ s \o Held(h) # <<>> /\ Head(s \o Held(h)) = Head(s)
          /\ Tail(s \o Held(h)) = Tail(s) \o Held(h)
      BY <3>5, HeldLast
    <3> QED
      BY <3>1, <3>4, <3>6
  <2>2. Line(c, k)' = Append(Line(c, k), Head(out[k-1][c]))
    <3>1. /\ Line(c, k) = out[k][c] \o Held(Nothing)
          /\ Line(c, k)' = out[k][c] \o Held(Head(out[k-1][c]))
      BY <1>0, <1>1, <1>2, <1>4 DEF Line
    <3>2. out[k][c] \in Seq(Item)
      BY DEF TypeOK
    <3>3. Head(out[k-1][c]) \in Item /\ Head(out[k-1][c]) # Nothing
      BY <1>1, <1>4
    <3>4. PICK s, h : s = out[k][c] /\ h = Head(out[k-1][c])
      OBVIOUS
    <3>5. s \o Held(h) = Append(s, h) /\ s \o Held(Nothing) = s
      <4>1. s \in Seq(Item) /\ h \in Item \cup {Nothing} /\ h # Nothing
        BY <3>2, <3>3, <3>4
      <4> QED
        BY <4>1, HeldLast
    <3> QED
      BY <3>1, <3>4, <3>5
  <2>3. ASSUME NEW r \in Stage \ {k-1, k} PROVE Line(c, r)' = Line(c, r)
    <3>1. r \in {0, Work} \/ r \in Barrier
      BY StageTyped
    <3> QED
      BY <1>0, <1>2, <2>3, <3>1 DEF Line, Forward
  <2>4. \A r \in Stage : ~(k-1 < r /\ r < k)
    BY <1>0, StageTyped
  <2>5. /\ late' = late /\ sent'[c] = sent[c] /\ dropped'[c] = dropped[c]
        /\ Line(c, k)' = Append(Line(c, k), Head(Line(c, k-1)))
    BY <2>1, <2>2 DEF Forward
  <2> DEFINE p == k-1
  <2>6. /\ p \in Stage /\ k \in Stage /\ p < k /\ Line(c, p) # <<>>
        /\ Line(c, p)' = Tail(Line(c, p))
        /\ Line(c, k)' = Append(Line(c, k), Head(Line(c, p)))
        /\ \A r \in Stage \ {p, k} : Line(c, r)' = Line(c, r)
        /\ \A r \in Stage : ~(p < r /\ r < k)
    BY <1>0, <2>1, <2>3, <2>4, <2>5
  <2> HIDE DEF p
  <2> QED
    BY <2>5, <2>6, LineMoves
<1> QED
  BY <1>3, <1>4

\* An item goes from the barrier a consumer listens at to the components: it is
\* the last one, and nothing is behind it, unless barriers came late.
LEMMA WorkKeepsLines ==
    ASSUME TypeOK, TypeOK', SameRound, NoneBeyond, NEW d \in Dtype, NEW c \in Dtype,
           NEW k, k = listens[d], BarrierToWork(d), LineExact(c)
    PROVE  LineExact(c)'
<1> USE DEF queueVars, chainVars, workVars
<1>0. /\ k \in Barrier /\ k \in Stage /\ Work \in Stage /\ k \in Nat /\ k < Work
      /\ k # 0 /\ k # Work /\ Work # 0 /\ Work' = Work
      /\ \A r \in Stage : r \in Nat
  <2>1. k \in Barrier
    BY DEF BarrierToWork, TypeOK
  <2> QED
    BY <2>1, DataflowAssumption, StageTyped DEF Barrier, Work
<1>1. /\ out[k][d] \in Seq(Item) /\ out[k][d] # <<>>
      /\ Head(out[k][d]) \in Item /\ Tail(out[k][d]) \in Seq(Item)
  BY <1>0, QueueEnds DEF BarrierToWork, TypeOK
<1>2. \A j \in Barrier, e \in Dtype :
        out'[j][e] = IF j = k /\ e = d THEN Tail(out[k][d]) ELSE out[j][e]
  <2>1. /\ out \in [Barrier -> [Dtype -> Seq(Item)]]
        /\ out' = [out EXCEPT ![k][d] = Tail(out[k][d])]
    BY DEF BarrierToWork, TypeOK
  <2> QED
    BY <1>0, <1>1, <2>1, CellSet
<1>3. /\ queue' = queue /\ carried' = carried /\ late' = late
      /\ sent' = sent /\ dropped' = dropped
      /\ done'[c] = IF c = d THEN Append(done[c], Head(out[k][d])) ELSE done[c]
  BY DEF BarrierToWork, TypeOK
<1>4. ~late => k = barriers
  BY <1>0 DEF SameRound, BarrierToWork
<1>5. CASE c # d
  BY <1>2, <1>3, <1>5, LineCells, LineStands
<1>6. CASE c = d
  <2>1. /\ Line(c, k) # <<>> /\ Head(Line(c, k)) = Head(out[k][c])
        /\ Line(c, k)' = Tail(Line(c, k))
    <3>1. /\ Line(c, k) = out[k][c] \o Held(carried[k][c])
          /\ Line(c, k)' = Tail(out[k][c]) \o Held(carried[k][c])
      BY <1>0, <1>2, <1>3, <1>6 DEF Line
    <3>2. carried[k][c] \in Item \cup {Nothing}
      BY <1>0 DEF TypeOK
    <3>3. out[k][c] \in Seq(Item) /\ out[k][c] # <<>>
      BY <1>1, <1>6
    <3>4. PICK s, h : s = out[k][c] /\ h = carried[k][c]
      OBVIOUS
    <3>5. s \in Seq(Item) /\ s # <<>> /\ h \in Item \cup {Nothing}
      BY <3>2, <3>3, <3>4
    <3>6. /\ s \o Held(h) # <<>> /\ Head(s \o Held(h)) = Head(s)
          /\ Tail(s \o Held(h)) = Tail(s) \o Held(h)
      BY <3>5, HeldLast
    <3> QED
      BY <3>1, <3>4, <3>6
  <2>2. Line(c, Work) = done[c] /\ Line(c, Work)' = Append(done[c], Head(out[k][c]))
    BY <1>0, <1>3, <1>6 DEF Line
  <2>3. ASSUME NEW r \in Stage \ {k, Work} PROVE Line(c, r)' = Line(c, r)
    <3>1. r = 0 \/ r \in Barrier
      BY <2>3, StageTyped
    <3> QED
      BY <1>0, <1>2, <1>3, <2>3, <3>1 DEF Line
  <2>4. ASSUME ~late, NEW r \in Stage, k < r, r < Work PROVE Line(c, r) = <<>>
    <3>1. r \in Barrier /\ r > barriers
      BY <1>0, <1>4, <2>4, StageTyped
    <3>2. out[r][c] = <<>> /\ carried[r][c] = Nothing
      BY <3>1 DEF NoneBeyond
    <3>3. Line(c, r) = out[r][c] \o Held(Nothing) /\ out[r][c] \in Seq(Item)
      BY <1>0, <2>4, <3>1, <3>2 DEF Line, TypeOK
    <3> QED
      BY <3>2, <3>3, HeldLast
  <2>5. Line(c, Work)' = Append(Line(c, Work), Head(Line(c, k)))
    BY <2>1, <2>2
  <2> QED
    BY <1>0, <1>3, <2>1, <2>3, <2>4, <2>5, LineMoves
<1> QED
  BY <1>5, <1>6

\* Every step keeps the items of a dtype in its lines.
LEMMA LineNext == FlowInv /\ LineInv /\ [Next]_vars => LineInv'
<1> SUFFICES ASSUME FlowInv, LineInv, [Next]_vars, NEW c \in Dtype
             PROVE  LineExact(c)'
  BY BeyondNext DEF LineInv
<1> USE DEF queueVars, chainVars, workVars
<1>0. /\ TypeOK /\ SameRound /\ OneRoute /\ TypeOK' /\ NoneBeyond /\ LineExact(c)
      /\ \A j \in Barrier : j \in Nat /\ j # 0 /\ j # Work /\ j < Work /\ j \in Stage
      /\ barriers \in Nat /\ barriers <= MaxBarriers /\ Work \in Nat /\ 0 < Work
  <2>1. /\ TypeOK /\ SameRound /\ OneRoute /\ NoneBeyond /\ LineExact(c)
    BY DEF FlowInv, LineInv
  <2>2. TypeOK'
    BY <2>1, FlowTypes
  <2>3. \A j \in Barrier : j \in Nat /\ j # 0 /\ j # Work /\ j < Work /\ j \in Stage
    BY DataflowAssumption DEF Barrier, Work, Stage
  <2>4. barriers \in Nat /\ barriers <= MaxBarriers /\ Work \in Nat /\ 0 < Work
    BY <2>1, DataflowAssumption DEF TypeOK, Work
  <2> QED
    BY <2>1, <2>2, <2>3, <2>4
<1>1. ASSUME NEW d \in Dtype, Bind(d) PROVE LineExact(c)'
  BY <1>0, <1>1, LineCells, LineStands DEF Bind
<1>3. CASE AddBarrier
  BY <1>0, <1>3, LineCells, LineStands DEF AddBarrier
<1>6. ASSUME NEW d \in Dtype, DirectWorkEnds(d) PROVE LineExact(c)'
  BY <1>0, <1>6, LineCells, LineStands DEF DirectWorkEnds
<1>8. ASSUME NEW k \in Barrier, RoundEnds(k) PROVE LineExact(c)'
  BY <1>0, <1>8, LineCells, LineStands DEF RoundEnds
<1>10. ASSUME NEW d \in Dtype, Listen(d) PROVE LineExact(c)'
  BY <1>0, <1>10, LineCells, LineStands DEF Listen
<1>12. ASSUME NEW d \in Dtype, WorkEnds(d) PROVE LineExact(c)'
  BY <1>0, <1>12, LineCells, LineStands DEF WorkEnds
<1>13. CASE UNCHANGED vars
  BY <1>0, <1>13, LineCells, LineStands DEF vars
<1>2. ASSUME NEW d \in Dtype, Emit(d) PROVE LineExact(c)'
  BY <1>0, <1>2, EmitKeepsLines
<1>4. ASSUME NEW d \in Dtype, QueueToBarrier(d) PROVE LineExact(c)'
  <2>1. /\ queue[d] \in Seq(Item) /\ queue[d] # <<>>
        /\ Head(queue[d]) \in Item /\ Tail(queue[d]) \in Seq(Item)
        /\ 1 \in Barrier /\ carried[1][d] = Nothing
    BY <1>0, <1>4, QueueEnds, DataflowAssumption DEF QueueToBarrier, TypeOK, HandsFree, Barrier
  <2>2. \A j \in Barrier, e \in Dtype : /\ out'[j][e] = out[j][e]
                                        /\ carried'[j][e] = IF j = 1 /\ e = d
                                                            THEN Head(queue[d])
                                                            ELSE carried[j][e]
    <3>1. /\ carried \in [Barrier -> [Dtype -> Item \cup {Nothing}]]
          /\ carried' = [carried EXCEPT ![1][d] = Head(queue[d])] /\ out' = out
      BY <1>0, <1>4 DEF QueueToBarrier, TypeOK
    <3> QED
      BY <2>1, <3>1, CellSet
  <2>3. CASE c # d
    <3>1. /\ queue'[c] = queue[c] /\ done' = done /\ late' = late
          /\ sent' = sent /\ dropped' = dropped
      BY <1>0, <1>4, <2>3 DEF QueueToBarrier, TypeOK
    <3>2. \A j \in Barrier : out'[j][c] = out[j][c] /\ carried'[j][c] = carried[j][c]
      BY <2>2, <2>3
    <3> QED
      BY <1>0, <3>1, <3>2, LineCells, LineStands
  <2>4. CASE c = d
    <3>1. /\ Line(c, 0) = queue[c] /\ Line(c, 0)' = Tail(queue[c])
          /\ 0 \in Stage /\ 1 \in Stage /\ 0 < 1
      <4>1. queue'[c] = Tail(queue[c])
        BY <1>0, <1>4, <2>4 DEF QueueToBarrier, TypeOK
      <4> QED
        BY <1>0, <2>1, <4>1, StageTyped DEF Line
    <3>2. /\ Line(c, 1) = out[1][c]
          /\ Line(c, 1)' = Append(out[1][c], Head(queue[c]))
      <4>1. /\ Line(c, 1) = out[1][c] \o Held(Nothing)
            /\ Line(c, 1)' = out[1][c] \o Held(Head(queue[c]))
        <5>1. out'[1][c] = out[1][c] /\ carried[1][c] = Nothing /\ carried'[1][c] = Head(queue[c])
          BY <2>1, <2>2, <2>4
        <5>2. 1 # 0 /\ 1 # Work /\ 1 # Work'
          BY <2>1, DataflowAssumption DEF Barrier, Work
        <5> QED
          BY <5>1, <5>2 DEF Line
      <4>2. /\ out[1][c] \in Seq(Item)
            /\ Head(queue[c]) \in Item /\ Head(queue[c]) # Nothing
        BY <1>0, <2>1, <2>4, QueueEnds DEF TypeOK
      <4> QED
        BY <4>1, <4>2, HeldLast
    <3>3. ASSUME NEW r \in Stage \ {0, 1} PROVE Line(c, r)' = Line(c, r)
      <4>1. r = Work \/ r \in Barrier
        BY StageTyped
      <4> QED
        BY <1>0, <1>4, <2>2, <3>3, <4>1 DEF Line, QueueToBarrier, Work
    <3>4. \A r \in Stage : ~(0 < r /\ r < 1)
      BY StageTyped
    <3> QED
      BY <1>0, <1>4, <2>1, <2>4, <3>1, <3>2, <3>3, <3>4, LineMoves DEF QueueToBarrier
  <2> QED
    BY <2>3, <2>4
<1>5. ASSUME NEW d \in Dtype, QueueToWork(d) PROVE LineExact(c)'
  <2>1. CASE c # d
    BY <1>0, <1>5, <2>1, LineCells, LineStands DEF QueueToWork, chainVars, TypeOK
  <2>2. CASE c = d
    <3>1. /\ Line(c, 0) = queue[c] /\ Line(c, 0)' = Tail(queue[c]) /\ queue[c] # <<>>
          /\ 0 \in Stage /\ Work \in Stage
      BY <1>0, <1>5, <2>2, StageTyped DEF Line, QueueToWork, TypeOK
    <3>2. Line(c, Work) = done[c] /\ Line(c, Work)' = Append(done[c], Head(queue[c]))
      BY <1>0, <1>5, <2>2 DEF Line, QueueToWork, TypeOK, Work
    <3>3. ASSUME NEW r \in Stage \ {0, Work}
          PROVE  Line(c, r)' = Line(c, r) /\ Line(c, r) = <<>>
      <4>1. r \in Barrier /\ r > barriers
        BY <1>0, <1>5, StageTyped DEF QueueToWork
      <4>2. out[r][c] = <<>> /\ carried[r][c] = Nothing
        BY <1>0, <4>1 DEF NoneBeyond
      <4>3. Line(c, r) = out[r][c] \o Held(carried[r][c]) /\ Line(c, r)' = Line(c, r)
        BY <1>0, <1>5, <4>1 DEF Line, QueueToWork, Work
      <4>4. Line(c, r) = <<>> \o Held(Nothing) /\ <<>> \in Seq(Item)
        BY <4>2, <4>3
      <4>5. <<>> \o Held(Nothing) = <<>>
        BY <4>4, HeldLast
      <4> QED
        BY <4>3, <4>4, <4>5
    <3>4. /\ late' = late /\ sent'[c] = sent[c] /\ dropped'[c] = dropped[c]
          /\ Line(c, Work)' = Append(Line(c, Work), Head(Line(c, 0)))
          /\ Line(c, 0) # <<>> /\ Line(c, 0)' = Tail(Line(c, 0))
      BY <1>5, <3>1, <3>2 DEF QueueToWork
    <3>5. \A r \in Stage \ {0, Work} : Line(c, r)' = Line(c, r)
      BY <3>3
    <3>6. \A r \in Stage : 0 < r /\ r < Work => Line(c, r) = <<>>
      BY <1>0, <3>3, StageTyped
    <3> QED
      BY <1>0, <3>1, <3>4, <3>5, <3>6, LineMoves
  <2> QED
    BY <2>1, <2>2
<1>7. ASSUME NEW d \in Dtype, NEW k \in Barrier, Deliver(k, d) PROVE LineExact(c)'
  <2>1. /\ out[k][d] \in Seq(Item) /\ carried[k][d] \in Item
        /\ Append(out[k][d], carried[k][d]) \in Seq(Item) /\ carried[k][d] # Nothing
    BY <1>0, <1>7, QueueEnds DEF Deliver, TypeOK
  <2>2. \A j \in Barrier, e \in Dtype :
          /\ out'[j][e] = IF j = k /\ e = d THEN Append(out[k][d], carried[k][d]) ELSE out[j][e]
          /\ carried'[j][e] = IF j = k /\ e = d THEN Nothing ELSE carried[j][e]
    <3>1. /\ out \in [Barrier -> [Dtype -> Seq(Item)]]
          /\ carried \in [Barrier -> [Dtype -> Item \cup {Nothing}]]
          /\ out' = [out EXCEPT ![k][d] = Append(out[k][d], carried[k][d])]
          /\ carried' = [carried EXCEPT ![k][d] = Nothing]
      BY <1>0, <1>7 DEF Deliver, TypeOK
    <3>2. \A j \in Barrier, e \in Dtype :
            out'[j][e] = IF j = k /\ e = d THEN Append(out[k][d], carried[k][d])
                                           ELSE out[j][e]
      BY <2>1, <3>1, CellSet
    <3>3. \A j \in Barrier, e \in Dtype :
            carried'[j][e] = IF j = k /\ e = d THEN Nothing ELSE carried[j][e]
      BY <3>1, CellSet
    <3> QED
      BY <3>2, <3>3
  <2>3. CASE c # d
    BY <1>0, <1>7, <2>2, <2>3, LineCells, LineStands DEF Deliver
  <2>4. CASE c = d
    <3>1. /\ Append(out[k][d], carried[k][d]) \o Held(Nothing)
               = Append(out[k][d], carried[k][d])
          /\ out[k][d] \o Held(carried[k][d]) = Append(out[k][d], carried[k][d])
      BY <2>1, HeldLast
    <3>2. ASSUME NEW p \in Stage PROVE Line(c, p)' = Line(c, p)
      <4>1. p \in {0, Work} \/ p \in Barrier
        BY StageTyped
      <4>2. CASE p \in {0, Work} 
        BY <1>0, <1>7, <4>2 DEF Line, Deliver, Work
      <4>3. CASE p \in Barrier /\ p # k
        BY <1>0, <2>2, <4>3 DEF Line, Work
      <4>4. CASE p = k
        BY <1>0, <2>2, <2>4, <3>1, <4>4 DEF Line, Work
      <4> QED
        BY <4>1, <4>2, <4>3, <4>4
    <3> QED
      BY <1>0, <1>7, <3>2, LineStands DEF Deliver
  <2> QED
    BY <2>3, <2>4
<1>9. ASSUME NEW d \in Dtype, NEW k \in Barrier, Forward(k, d) PROVE LineExact(c)'
  BY <1>0, <1>9, ForwardKeepsLines
<1>11. ASSUME NEW d \in Dtype, BarrierToWork(d) PROVE LineExact(c)'
  <2>1. PICK k : k = listens[d]
    OBVIOUS
  <2> QED
    BY <1>0, <1>11, <2>1, WorkKeepsLines
<1> QED
  BY <1>1, <1>2, <1>3, <1>4, <1>5, <1>6, <1>7, <1>8, <1>9, <1>10, <1>11, <1>12,
     <1>13 DEF Next, Route

\* At the start all lines are empty.
LEMMA LineInit == Init => LineInv
<1> SUFFICES ASSUME Init PROVE LineInv
  OBVIOUS
<1>1. NoneBeyond
  BY DEF Init, NoneBeyond, Nothing
<1>2. ASSUME NEW d \in Dtype PROVE LineExact(d)
  <2>1. ASSUME NEW p \in Stage PROVE Lines(d)[p] = <<>>
    <3>1. p \in {0, Work} \/ p \in Barrier
      BY StageTyped
    <3>2. <<>> \o <<>> = <<>>
      BY ConcatEmptySeq
    <3> QED
      BY <3>1, <3>2 DEF Lines, Line, Held, Init, Nothing
  <2>2. Taken(d) = {} /\ dropped[d] \subseteq 1..sent[d]
    BY DEF Taken, Init
  <2> QED
    BY <2>1, <2>2 DEF LineExact, Filled, InOrder
<1> QED
  BY <1>1, <1>2 DEF LineInv

-----------------------------------------------------------------------------
\* The inductive invariant.
LEMMA FlowInvariant == Spec => [](FlowInv /\ LineInv)
<1>1. Init => FlowInv /\ LineInv
  BY FlowInit, LineInit
<1>2. FlowInv /\ LineInv /\ [Next]_vars => (FlowInv /\ LineInv)'
  BY FlowTypes, FlowRoute, FlowUnsent, FlowRound, LineNext DEF FlowInv
<1> QED
  BY <1>1, <1>2, PTL DEF Spec

\* The state has its types in every behaviour; so every queue, barrier and
\* consumer only ever holds items that were produced for it.
THEOREM TypeCorrect == Spec => []TypeOK
<1>1. FlowInv => TypeOK
  BY DEF FlowInv
<1> QED
  BY <1>1, FlowInvariant, PTL

\* The two consumers of a dtype (_launch_consumer, _launch_b_consumer) never
\* have its components work on two items at once, whenever the first barrier is
\* added.
THEOREM OneItemAtATime == Spec => []OneAtATime
<1>1. FlowInv => OneAtATime
  BY DEF FlowInv, OneRoute, OneAtATime
<1> QED
  BY <1>1, FlowInvariant, PTL

\* Behind a chain of barriers that stood before the first item
\* (add_barrier, _barrier_consumer), no dtype's components are more than one
\* round ahead of those of another.
THEOREM RoundsAlwaysAligned == Spec => []RoundsAligned
<1>1. ASSUME FlowInv PROVE RoundsAligned
  <2> SUFFICES ASSUME barriers > 0, ~late, NEW d \in Dtype, NEW e \in Dtype
               PROVE  Passed(d) <= Passed(e) + 1
    BY DEF RoundsAligned
  <2>1. TypeOK /\ SameRound
    BY <1>1 DEF FlowInv
  <2>2. AfterRound(d) = AfterRound(e)
    BY <2>1 DEF SameRound
  <2>3. Passed(d) \in Nat /\ Passed(e) \in Nat
    BY <2>1, PassedTyped
  <2> QED
    BY <2>2, <2>3 DEF AfterRound
<1> QED
  BY <1>1, FlowInvariant, PTL

\* Whatever becomes of a dtype's queue, barriers and consumers
\* (_put_to_dtype_queue, _launch_consumer, _barrier_consumer,
\* _launch_b_consumer), every item taken is at exactly one place of the way or
\* with the components, and in order as long as no barrier came late.
THEOREM PipelineAlwaysExact == Spec => []PipelineExact
<1>1. ASSUME FlowInv, LineInv PROVE PipelineExact
  <2>1. TypeOK /\ Place \subseteq Stage
    BY <1>1, DataflowAssumption DEF FlowInv, TypeOK, Place, Stage, Work
  <2>2. ASSUME NEW d \in Dtype
        PROVE  /\ \A p \in Stage : /\ Lines(d)[p] = Line(d, p)
                                   /\ Line(d, p) \in Seq(Item)
               /\ Filled(Lines(d), Taken(d)) /\ (~late => InOrder(Lines(d)))
    BY <1>1, <2>1, LinesTyped DEF LineInv, LineExact
  <2>3. ASSUME NEW d \in Dtype, NEW p \in Stage \ Place PROVE Line(d, p) = <<>>
    <3>1. p \in Barrier /\ p > barriers
      <4>1. barriers \in 0..MaxBarriers /\ p \in 0..Work
        BY <2>1, <2>3 DEF TypeOK, Stage
      <4>2. p # Work /\ ~(p \in 0..barriers)
        BY <2>3 DEF Place
      <4> QED
        BY <4>1, <4>2, DataflowAssumption DEF Barrier, Work
    <3>2. out[p][d] = <<>> /\ carried[p][d] = Nothing
      BY <1>1, <3>1 DEF LineInv, NoneBeyond
    <3>3. Line(d, p) = <<>> \o <<>>
      BY <3>1, <3>2, StageTyped DEF Line, Held
    <3> QED
      BY <3>3, ConcatEmptySeq
  <2>4. ASSUME NEW d \in Dtype
        PROVE  UNION {ToSet(Line(d, p)) : p \in Place} = (1..sent[d]) \ dropped[d]
    <3>1. ASSUME NEW p \in Place
          PROVE  \A n : n \in ToSet(Line(d, p)) <=> \E i \in DOMAIN Line(d, p) : Line(d, p)[i] = n
      BY DEF ToSet
    <3>2. ASSUME NEW p \in Place, NEW n \in ToSet(Line(d, p)) PROVE n \in Taken(d)
      BY <2>1, <2>2, <3>1 DEF Filled
    <3>3. ASSUME NEW n \in Taken(d) PROVE \E p \in Place : n \in ToSet(Line(d, p))
      <4>1. PICK p \in Stage : \E i \in DOMAIN Lines(d)[p] : Lines(d)[p][i] = n
        BY <2>2 DEF Filled
      <4>2. PICK i \in DOMAIN Line(d, p) : Line(d, p)[i] = n
        BY <2>2, <4>1
      <4>3. p \in Place
        BY <2>3, <4>2
      <4> QED
        BY <3>1, <4>2, <4>3
    <3> QED
      BY <3>2, <3>3 DEF Taken
  <2>5. ASSUME NEW d \in Dtype, NEW p \in Place, NEW q \in Place,
               NEW i \in DOMAIN Line(d, p), NEW j \in DOMAIN Line(d, q)
        PROVE  /\ <<p, i>> # <<q, j>> => Line(d, p)[i] # Line(d, q)[j]
               /\ ~late /\ (p > q \/ (p = q /\ i < j)) => Line(d, p)[i] < Line(d, q)[j]
    <3>1. p \in Stage /\ q \in Stage /\ Lines(d)[p] = Line(d, p) /\ Lines(d)[q] = Line(d, q)
      BY <2>1, <2>2
    <3>2. p # q \/ i # j => Line(d, p)[i] # Line(d, q)[j]
      BY <2>2, <3>1 DEF Filled
    <3>3. ~late /\ (p > q \/ (p = q /\ i < j)) => Line(d, p)[i] < Line(d, q)[j]
      BY <2>2, <3>1 DEF InOrder
    <3> QED
      BY <3>2, <3>3
  <2> QED
    BY <2>1, <2>4, <2>5 DEF PipelineExact
<1> QED
  BY <1>1, FlowInvariant, PTL
=============================================================================
