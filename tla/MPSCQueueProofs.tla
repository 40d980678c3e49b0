-------------------------- MODULE MPSCQueueProofs --------------------------
(***************************************************************************)
(* Proofs about MPSCQueue, for any number of producers, any capacity       *)
(* greater than one and any number of pushes.                              *)
(***************************************************************************)
EXTENDS MPSCQueue, Integers, TLAPS

-----------------------------------------------------------------------------
(***************************************************************************)
(* Arithmetic of the ring                                                  *)
(***************************************************************************)
\* Division with remainder by Capacity.
LEMMA Quotient ==
    ASSUME NEW k \in Int
    PROVE  /\ k \div Capacity \in Int
           /\ k % Capacity \in 0 .. Capacity - 1
           /\ k = Capacity * (k \div Capacity) + (k % Capacity)
BY QueueAssumption

\* A multiple of Capacity strictly between -Capacity and Capacity is zero.
LEMMA SmallMultiple ==
    ASSUME NEW m \in Int, m * Capacity < Capacity, m * Capacity > -Capacity
    PROVE  m = 0
<1>1. CASE m >= 1
  <2>1. m * Capacity = Capacity + (m - 1) * Capacity BY QueueAssumption
  <2>2. (m - 1) * Capacity >= 0 BY <1>1, QueueAssumption
  <2>3. QED BY <2>1, <2>2, QueueAssumption
<1>2. CASE m <= -1
  <2>1. (m + 1) * Capacity <= 0 BY <1>2, QueueAssumption
  <2>2. QED BY <2>1, QueueAssumption
<1>3. QED BY <1>1, <1>2

\* pos & kMask is an index of the ring.
LEMMA SlotType == ASSUME NEW k \in Nat PROVE Slot(k) \in Slots
BY Quotient DEF Slot, Slots

\* Two positions less than a lap apart have different slots.
LEMMA SlotDistinct ==
    ASSUME NEW a \in Nat, NEW b \in Nat, a < b, b < a + Capacity
    PROVE  Slot(a) # Slot(b)
<1>1. SUFFICES ASSUME a % Capacity = b % Capacity PROVE FALSE
  BY DEF Slot
<1> DEFINE m == (b \div Capacity) - (a \div Capacity)
<1>2. m \in Int BY Quotient
<1>3. b - a = m * Capacity BY Quotient, <1>1, QueueAssumption
<1> HIDE DEF m
<1>4. m = 0 BY <1>2, <1>3, SmallMultiple, QueueAssumption
<1>5. QED BY <1>3, <1>4, QueueAssumption

\* A position and the one a lap later share their slot.
LEMMA SlotWrap == ASSUME NEW k \in Nat PROVE Slot(k + Capacity) = Slot(k)
<1> DEFINE c == k + Capacity
<1> DEFINE m == (c \div Capacity) - (k \div Capacity) - 1
<1>0. c \in Nat BY QueueAssumption
<1>1. /\ k \div Capacity \in Int /\ c \div Capacity \in Int
      /\ k % Capacity \in 0 .. Capacity - 1 /\ c % Capacity \in 0 .. Capacity - 1
  BY <1>0, Quotient
<1>2. m * Capacity = (k % Capacity) - (c % Capacity)
  <2>1. c = Capacity * (c \div Capacity) + (c % Capacity) BY <1>0, Quotient
  <2>2. k = Capacity * (k \div Capacity) + (k % Capacity) BY Quotient
  <2>3. QED BY <1>1, <2>1, <2>2, QueueAssumption
<1>3. m \in Int BY <1>1
<1> HIDE DEF m
<1>4. m = 0 BY <1>1, <1>2, <1>3, SmallMultiple, QueueAssumption
<1>5. QED BY <1>1, <1>2, <1>4, QueueAssumption DEF Slot

\* Initially every position of the first lap is its own slot.
LEMMA SlotFirstLap == ASSUME NEW k \in Slots PROVE Slot(k) = k
BY QueueAssumption DEF Slot, Slots

\* The slots of one lap are pairwise different.
LEMMA LapInjective ==
    ASSUME NEW h \in Nat,
           NEW a \in h .. h + Capacity - 1, NEW b \in h .. h + Capacity - 1,
           Slot(a) = Slot(b)
    PROVE  a = b
<1>1. a \in Nat /\ b \in Nat BY QueueAssumption
<1>2. ~(a < b) BY <1>1, SlotDistinct, QueueAssumption
<1>3. ~(b < a) BY <1>1, SlotDistinct, QueueAssumption
<1>4. QED BY <1>1, <1>2, <1>3

\* Every slot carries a position of the lap that starts at h.
LEMMA LapCovers ==
    ASSUME NEW h \in Nat, NEW k \in Nat
    PROVE  \E j \in h .. h + Capacity - 1 : Slot(j) = Slot(k)
<1> DEFINE d == k - h
<1> DEFINE j == h + (d % Capacity)
<1>0. d \in Int OBVIOUS
<1>1. j \in h .. h + Capacity - 1 /\ j \in Nat
  BY <1>0, Quotient, QueueAssumption
<1>2. d = Capacity * (d \div Capacity) + (d % Capacity) /\ d \div Capacity \in Int
  BY <1>0, Quotient
<1>3. /\ j = Capacity * (j \div Capacity) + (j % Capacity)
      /\ k = Capacity * (k \div Capacity) + (k % Capacity)
      /\ j \div Capacity \in Int /\ k \div Capacity \in Int
      /\ j % Capacity \in 0 .. Capacity - 1 /\ k % Capacity \in 0 .. Capacity - 1
  BY <1>1, Quotient
<1> DEFINE m == (k \div Capacity) - (d \div Capacity) - (j \div Capacity)
<1>4. m \in Int BY <1>2, <1>3
<1>5. j = k - Capacity * (d \div Capacity)
  BY <1>2, <1>1, QueueAssumption
<1>6. m * Capacity = (j % Capacity) - (k % Capacity)
  BY <1>2, <1>3, <1>5, QueueAssumption
<1> HIDE DEF m
<1>7. m = 0 BY <1>3, <1>4, <1>6, SmallMultiple, QueueAssumption
<1>8. j % Capacity = k % Capacity BY <1>3, <1>6, <1>7, QueueAssumption
<1>9. QED BY <1>1, <1>8 DEF Slot

-----------------------------------------------------------------------------
(***************************************************************************)
(* Type correctness                                                        *)
(***************************************************************************)
LEMMA InitType == Init => TypeOK
BY QueueAssumption DEF Init, TypeOK, Slots

LEMMA TypeStep == TypeOK /\ [Next]_vars => TypeOK'
<1> SUFFICES ASSUME TypeOK, [Next]_vars PROVE TypeOK'
  OBVIOUS
<1> USE DEF TypeOK
<1>0. ASSUME NEW p \in Producers, calls[p] > 0 PROVE Current(p) \in Items
  BY <1>0, QueueAssumption DEF Current, Items
<1>1. ASSUME NEW p \in Producers, PushCall(p) PROVE TypeOK'
  BY <1>1, QueueAssumption DEF PushCall, consumerVars
<1>2. ASSUME NEW p \in Producers, PushLoad(p) PROVE TypeOK'
  BY <1>2 DEF PushLoad, consumerVars
<1>3. ASSUME NEW p \in Producers, PushCheck(p) PROVE TypeOK'
  BY <1>3, <1>0 DEF PushCheck, consumerVars
<1>4. ASSUME NEW p \in Producers, PushCas(p) PROVE TypeOK'
  BY <1>4, <1>0 DEF PushCas, consumerVars
<1>5. ASSUME NEW p \in Producers, PushCasFails(p) PROVE TypeOK'
  BY <1>5 DEF PushCasFails, consumerVars
<1>6. ASSUME NEW p \in Producers, PushWrite(p) PROVE TypeOK'
  BY <1>6, <1>0 DEF PushWrite, consumerVars
<1>7. ASSUME NEW p \in Producers, PushPublish(p) PROVE TypeOK'
  <2>0. pos[p] + 1 \in Nat OBVIOUS
  <2>1. sequence' \in [Slots -> Nat] BY <1>7, <2>0, Zenon DEF PushPublish
  <2>2. QED BY <1>7, <2>1 DEF PushPublish, consumerVars
<1>8. CASE PopCheck
  BY <1>8 DEF PopCheck, producerVars
<1>9. CASE PopMove
  BY <1>9, SlotType DEF PopMove, producerVars
<1>10. CASE PopRelease
  <2>0. dequeue_pos + Capacity \in Nat BY QueueAssumption
  <2>1. sequence' \in [Slots -> Nat] BY <1>10, <2>0, Zenon DEF PopRelease
  <2>2. delivered' \in Seq(Items \cup {NoItem}) BY <1>10 DEF PopRelease
  <2>3. QED BY <1>10, <2>1, <2>2 DEF PopRelease, producerVars
<1>11. CASE PopAdvance
  BY <1>11 DEF PopAdvance, producerVars
<1>12. CASE UNCHANGED vars
  BY <1>12 DEF vars, producerVars, consumerVars
<1>13. QED
  BY <1>1, <1>2, <1>3, <1>4, <1>5, <1>6, <1>7, <1>8, <1>9, <1>10, <1>11, <1>12
  DEF Next, Push, Pop, PopEmpty

\* Every variable of the queue keeps its type, for all interleavings of push()
\* and pop(); in particular an accepted item is an item some producer pushed.
THEOREM TypeCorrect == Spec => []TypeOK
BY InitType, TypeStep, PTL DEF Spec

-----------------------------------------------------------------------------
(***************************************************************************)
(* The inductive invariant                                                 *)
(***************************************************************************)
LEMMA InitInv == Init => IndInv
<1> SUFFICES ASSUME Init PROVE IndInv
  OBVIOUS
<1>1. TypeOK BY InitType
<1>2. LineInv BY QueueAssumption DEF Init, LineInv, HeadPos
<1>3. SlotInv BY SlotFirstLap, QueueAssumption DEF Init, SlotInv, HeadPos, Slots
<1>4. ProducerInv /\ ConsumerInv /\ OrderInv
  BY DEF Init, ProducerInv, ConsumerInv, OrderInv, Owns
<1>5. QED BY <1>1, <1>2, <1>3, <1>4 DEF IndInv

\* An owned position lies in the current lap.
LEMMA OwnedInLap ==
    ASSUME IndInv, NEW p \in Producers, Owns(p)
    PROVE  /\ pos[p] \in HeadPos .. HeadPos + Capacity - 1
           /\ HeadPos \in Nat
BY QueueAssumption DEF IndInv, TypeOK, LineInv, ProducerInv, HeadPos

\* PushCall, PushLoad, PushCheck and PushCasFails touch no slot and no position.
LEMMA LocalStep ==
    ASSUME IndInv, TypeOK', NEW p \in Producers,
           PushCall(p) \/ PushLoad(p) \/ PushCheck(p) \/ PushCasFails(p)
    PROVE  IndInv'
<1> USE DEF IndInv
<1> DEFINE Step == PushCall(p) \/ PushLoad(p) \/ PushCheck(p) \/ PushCasFails(p)
<1>1. /\ UNCHANGED <<sequence, data, enqueue_pos, dequeue_pos, cpc, item, delivered, order>>
      /\ HeadPos' = HeadPos
  BY DEF PushCall, PushLoad, PushCheck, PushCasFails, consumerVars, HeadPos
<1>2. LineInv' BY <1>1 DEF LineInv
<1>3. SlotInv' BY <1>1 DEF SlotInv
<1>4. ConsumerInv' BY <1>1 DEF ConsumerInv
<1>5. ProducerInv'
  <2> SUFFICES ASSUME NEW q \in Producers
               PROVE  /\ pc'[q] \in {"check", "cas"} => pos'[q] <= enqueue_pos
                      /\ pc'[q] = "cas" => pos'[q] < HeadPos + Capacity
                      /\ pc'[q] \in {"write", "publish"} =>
                            /\ pc[q] = pc'[q] /\ pos'[q] = pos[q] /\ calls'[q] = calls[q]
    BY <1>1 DEF ProducerInv, Owns, Current
  <2>1. CASE q # p
    BY <2>1 DEF PushCall, PushLoad, PushCheck, PushCasFails, TypeOK, ProducerInv
  <2>2. CASE q = p /\ PushCheck(p)
    <3>1. pos[p] <= enqueue_pos /\ pos[p] \in Nat /\ HeadPos \in Nat /\ enqueue_pos \in Nat
      BY <2>2 DEF PushCheck, ProducerInv, TypeOK, HeadPos
    <3>2. ASSUME sequence[Slot(pos[p])] = pos[p], pos[p] = HeadPos + Capacity PROVE FALSE
      <4>1. Slot(pos[p]) = Slot(HeadPos) BY <3>1, <3>2, SlotWrap
      <4>2. sequence[Slot(HeadPos)] \in {HeadPos, HeadPos + 1}
        BY <3>1, QueueAssumption DEF SlotInv
      <4>3. QED BY <4>1, <4>2, <3>1, <3>2, QueueAssumption
    <3>3. sequence[Slot(pos[p])] = pos[p] => pos[p] < HeadPos + Capacity
      BY <3>1, <3>2, QueueAssumption DEF LineInv
    <3>4. QED BY <2>2, <3>1, <3>3 DEF PushCheck, TypeOK
  <2>3. CASE q = p /\ ~PushCheck(p)
    BY <2>3 DEF PushCall, PushLoad, PushCasFails, TypeOK
  <2>4. QED BY <2>1, <2>2, <2>3
<1>6. OrderInv'
  <2>1. ASSUME NEW q \in Producers PROVE Settled(q) <= Settled(q)' /\ Settled(q) \in Int
    <3> SUFFICES Settled(q) <= Settled(q)'
      BY DEF TypeOK, Settled
    <3>1. calls[q] \in Nat /\ calls \in [Producers -> 0 .. MaxPush]
      BY QueueAssumption DEF TypeOK
    <3>2. CASE q # p
      <4>1. pc'[q] = pc[q] /\ calls'[q] = calls[q]
        BY <3>2 DEF PushCall, PushLoad, PushCheck, PushCasFails, TypeOK
      <4>2. QED BY <3>1, <4>1 DEF Settled
    <3>3. CASE q = p /\ PushCall(p)
      <4>1. pc[q] = "idle" /\ pc'[q] = "load" /\ calls'[q] = calls[q] + 1
        BY <3>1, <3>3 DEF PushCall, TypeOK
      <4>2. QED BY <3>1, <4>1 DEF Settled
    <3>4. CASE q = p /\ ~PushCall(p)
      <4>1. pc[q] \in {"load", "check", "cas"} /\ calls'[q] = calls[q]
        BY <3>4 DEF PushLoad, PushCheck, PushCasFails
      <4>2. QED BY <3>1, <4>1 DEF Settled
    <3>5. QED BY <3>2, <3>3, <3>4
  <2>a. ASSUME NEW i \in Items, i[2] <= Settled(i[1]) PROVE i[2] <= Settled(i[1])'
    <3>1. i[1] \in Producers /\ i[2] \in Int BY QueueAssumption DEF Items
    <3>2. Settled(i[1])' \in Int BY <3>1 DEF TypeOK, Settled
    <3>3. QED BY <2>1, <2>a, <3>1, <3>2
  <2>2. ASSUME NEW k \in 1 .. Len(order) PROVE order[k] \in Items
    BY DEF TypeOK
  <2>3. \A k \in 1 .. Len(order) : order[k][2] <= Settled(order[k][1])'
    BY <1>1, <2>a, <2>2 DEF OrderInv
  <2>4. CASE dropped' = dropped
    <3>1. \A i \in dropped : i[2] <= Settled(i[1])'
      BY <2>a DEF OrderInv, TypeOK
    <3>2. QED BY <1>1, <2>3, <2>4, <3>1 DEF OrderInv
  <2>5. CASE dropped' # dropped
    <3>1. /\ PushCheck(p) /\ dropped' = dropped \cup {Current(p)}
          /\ pc[p] = "check" /\ pc'[p] = "idle" /\ calls' = calls
      BY <2>5 DEF PushCall, PushLoad, PushCheck, PushCasFails, TypeOK
    <3>2. Settled(p) = calls[p] - 1 /\ Settled(p)' = calls[p]
      BY <3>1 DEF Settled
    <3>3. \A i \in dropped' : i[2] <= Settled(i[1])'
      <4>1. \A i \in dropped : i[2] <= Settled(i[1])'
        BY <2>a DEF OrderInv, TypeOK
      <4>2. Current(p)[2] <= Settled(Current(p)[1])'
        BY <3>1, <3>2 DEF TypeOK, Current
      <4>3. Current(p)' = Current(p) BY <3>1 DEF Current
      <4>4. QED BY <3>1, <4>1, <4>2, <4>3
    <3>4. \A k \in 1 .. Len(order) : order[k] # Current(p)
      BY <3>2, <2>2 DEF OrderInv, Current, TypeOK
    <3>5. QED BY <1>1, <2>3, <3>1, <3>3, <3>4 DEF OrderInv
  <2>6. QED BY <2>4, <2>5
<1>7. QED BY <1>2, <1>3, <1>4, <1>5, <1>6

\* Two owners never hold the same position: the line names one item per position.
LEMMA OwnersDiffer ==
    ASSUME IndInv, NEW p \in Producers, NEW q \in Producers, p # q, Owns(p), Owns(q)
    PROVE  Slot(pos[p]) # Slot(pos[q])
<1>1. pos[p] # pos[q]
  BY DEF IndInv, ProducerInv, Current
<1>2. QED
  BY <1>1, OwnedInLap, LapInjective

LEMMA CasStep ==
    ASSUME IndInv, TypeOK', NEW p \in Producers, PushCas(p)
    PROVE  IndInv'
<1> USE DEF IndInv
<1>1. /\ UNCHANGED <<sequence, data, dequeue_pos, pos, calls, cpc, item, delivered, dropped>>
      /\ HeadPos' = HeadPos
      /\ pc[p] = "cas" /\ pos[p] = enqueue_pos
      /\ enqueue_pos' = enqueue_pos + 1
      /\ order' = Append(order, Current(p))
      /\ pc' = [pc EXCEPT ![p] = "write"]
      /\ enqueue_pos < HeadPos + Capacity
  BY DEF PushCas, consumerVars, HeadPos, ProducerInv
<1>2. /\ enqueue_pos \in Nat /\ HeadPos \in Nat /\ order \in Seq(Items)
      /\ Len(order) = enqueue_pos
  BY DEF TypeOK, HeadPos, LineInv
<1>3. Current(p) \in Items /\ Current(p)' = Current(p)
  BY <1>1 DEF TypeOK, Current, Items
<1>4. /\ Len(order') = enqueue_pos + 1
      /\ \A k \in 1 .. enqueue_pos : order'[k] = order[k]
      /\ order'[enqueue_pos + 1] = Current(p)
  BY <1>1, <1>2, <1>3
<1>5. LineInv'
  BY <1>1, <1>2, <1>4, QueueAssumption DEF LineInv
<1>6. SlotInv'
  <2> SUFFICES ASSUME NEW k \in HeadPos .. HeadPos + Capacity - 1
               PROVE  \/ sequence[Slot(k)] = k
                      \/ /\ sequence[Slot(k)] = k + 1
                         /\ k < enqueue_pos + 1
                         /\ data[Slot(k)] = order'[k + 1]
    BY <1>1 DEF SlotInv
  <2>1. k \in Nat BY <1>2
  <2>2. QED BY <1>2, <1>4, <2>1 DEF SlotInv
<1>7. ProducerInv'
  <2> SUFFICES ASSUME NEW q \in Producers
               PROVE  /\ pc'[q] \in {"check", "cas"} => pos[q] <= enqueue_pos + 1
                      /\ pc'[q] = "cas" => pos[q] < HeadPos + Capacity
                      /\ pc'[q] \in {"write", "publish"} =>
                           /\ HeadPos <= pos[q]
                           /\ pos[q] < enqueue_pos + 1
                           /\ sequence[Slot(pos[q])] = pos[q]
                           /\ order'[pos[q] + 1] = Current(q)
                      /\ pc'[q] = "publish" => data[Slot(pos[q])] = Current(q)
    BY <1>1 DEF ProducerInv, Owns, Current
  <2>1. pos[q] \in Nat BY DEF TypeOK
  <2>2. CASE q = p
    <3>1. pc'[q] = "write" BY <1>1, <2>2 DEF TypeOK
    <3>2. sequence[Slot(enqueue_pos)] = enqueue_pos
      <4>1. enqueue_pos \in HeadPos .. HeadPos + Capacity - 1
        BY <1>1, <1>2, QueueAssumption DEF LineInv
      <4>2. QED BY <1>2, <4>1 DEF SlotInv
    <3>3. QED BY <1>1, <1>2, <1>4, <2>2, <3>1, <3>2 DEF LineInv
  <2>3. CASE q # p
    <3>1. pc'[q] = pc[q] BY <1>1, <2>3 DEF TypeOK
    <3>2. QED BY <1>2, <1>4, <2>1, <3>1 DEF ProducerInv, Owns
  <2>4. QED BY <2>2, <2>3
<1>8. ConsumerInv'
  BY <1>1, <1>2, <1>4 DEF ConsumerInv, TypeOK
<1>9. OrderInv'
  <2>1. calls[p] \in Nat /\ Current(p)[1] = p /\ Current(p)[2] = calls[p]
    BY QueueAssumption DEF TypeOK, Current
  <2>2. Settled(p) = calls[p] - 1 /\ Settled(p)' = calls[p]
    BY <1>1 DEF Settled, TypeOK
  <2>3. \A q \in Producers : q # p => Settled(q)' = Settled(q)
    BY <1>1 DEF Settled, TypeOK
  <2>4. ASSUME NEW i \in Items, i[2] <= Settled(i[1])
        PROVE  i[2] <= Settled(i[1])' /\ i # Current(p) /\ (i[1] = p => i[2] < calls[p])
    <3>1. i[1] \in Producers /\ i[2] \in Int BY QueueAssumption DEF Items
    <3>2. QED BY <2>1, <2>2, <2>3, <2>4, <3>1
  <2>5. \A k \in 1 .. enqueue_pos : order[k] \in Items /\ order[k][2] <= Settled(order[k][1])
    BY <1>2 DEF OrderInv
  <2>6. (\A k \in 1 .. Len(order) : order[k][2] <= Settled(order[k][1]))'
    <3> SUFFICES ASSUME NEW k \in 1 .. enqueue_pos + 1
                 PROVE  (order[k][2] <= Settled(order[k][1]))'
      BY <1>4
    <3>1. CASE k = enqueue_pos + 1 BY <1>4, <2>1, <2>2, <3>1
    <3>2. CASE k \in 1 .. enqueue_pos BY <1>4, <2>4, <2>5, <3>2
    <3>3. QED BY <1>2, <3>1, <3>2
  <2>7. ASSUME NEW j \in 1 .. Len(order'), NEW i \in 1 .. j - 1, order'[i][1] = order'[j][1]
        PROVE  order'[i][2] < order'[j][2]
    <3>1. i \in 1 .. enqueue_pos BY <1>2, <1>4
    <3>2. CASE j = enqueue_pos + 1
      BY <1>4, <2>1, <2>4, <2>5, <2>7, <3>1, <3>2
    <3>3. CASE j \in 1 .. enqueue_pos
      BY <1>2, <1>4, <2>7, <3>1, <3>3 DEF OrderInv
    <3>4. QED BY <1>2, <1>4, <3>2, <3>3
  <2>8. \A i \in dropped : i[2] <= Settled(i[1])' /\ i # Current(p)
    BY <2>4 DEF OrderInv, TypeOK
  <2>9. \A k \in 1 .. Len(order') : order'[k] \notin dropped
    BY <1>2, <1>4, <2>8 DEF OrderInv
  <2>10. QED BY <1>1, <2>6, <2>7, <2>8, <2>9 DEF OrderInv
<1>10. QED BY <1>5, <1>6, <1>7, <1>8, <1>9

\* PushWrite and PushPublish: the step of a producer on the slot it owns.
LEMMA OwnerStep ==
    ASSUME IndInv, TypeOK', NEW p \in Producers, PushWrite(p) \/ PushPublish(p)
    PROVE  IndInv'
<1> USE DEF IndInv
<1>1. /\ UNCHANGED <<enqueue_pos, dequeue_pos, pos, calls, cpc, item, delivered, order, dropped>>
      /\ HeadPos' = HeadPos
      /\ Owns(p)
      /\ \A q \in Producers : q # p => pc'[q] = pc[q]
  BY DEF PushWrite, PushPublish, consumerVars, HeadPos, Owns, TypeOK
<1>2. /\ pos[p] \in HeadPos .. HeadPos + Capacity - 1
      /\ HeadPos \in Nat /\ enqueue_pos \in Nat /\ pos[p] \in Nat
      /\ pos[p] < enqueue_pos
      /\ sequence[Slot(pos[p])] = pos[p]
      /\ order[pos[p] + 1] = Current(p)
      /\ Slot(pos[p]) \in Slots
  BY <1>1, OwnedInLap, SlotType DEF TypeOK, ProducerInv
<1>3. \A s \in Slots : s # Slot(pos[p]) => data'[s] = data[s] /\ sequence'[s] = sequence[s]
  BY DEF PushWrite, PushPublish, TypeOK
<1>4. LineInv' BY <1>1 DEF LineInv
<1>5. OrderInv'
  <2>1. \A q \in Producers : Settled(q)' = Settled(q)
    BY <1>1 DEF PushWrite, PushPublish, Settled, Owns, TypeOK
  <2>2. \A k \in 1 .. Len(order) : order[k][1] \in Producers
    BY DEF TypeOK, Items
  <2>3. \A i \in dropped : i[1] \in Producers
    BY DEF TypeOK, Items
  <2>4. QED BY <1>1, <2>1, <2>2, <2>3 DEF OrderInv
<1>6. ConsumerInv'
  <2>1. cpc \in {"move", "release"} => dequeue_pos = HeadPos /\ Slot(dequeue_pos) # Slot(pos[p])
    <3>1. HeadPos \in HeadPos .. HeadPos + Capacity - 1
      BY <1>2, QueueAssumption
    <3>2. Slot(HeadPos) = Slot(pos[p]) => HeadPos = pos[p]
      BY <1>2, <3>1, LapInjective
    <3>3. QED BY <1>2, <3>2 DEF ConsumerInv, HeadPos
  <2>2. Slot(HeadPos) \in Slots BY <1>2, SlotType
  <2>3. QED BY <1>1, <1>3, <2>1, <2>2 DEF ConsumerInv
<1>7. CASE PushWrite(p)
  <2>1. /\ sequence' = sequence /\ data'[Slot(pos[p])] = Current(p)
        /\ pc[p] = "write" /\ pc'[p] = "publish"
    BY <1>2, <1>7 DEF PushWrite, TypeOK
  <2>2. SlotInv'
    <3> SUFFICES ASSUME NEW k \in HeadPos .. HeadPos + Capacity - 1, sequence[Slot(k)] # k
                 PROVE  data'[Slot(k)] = data[Slot(k)]
      BY <1>1, <2>1 DEF SlotInv
    <3>1. Slot(k) # Slot(pos[p]) BY <1>2, LapInjective
    <3>2. Slot(k) \in Slots BY <1>2, SlotType
    <3>3. QED BY <1>3, <3>1, <3>2
  <2>3. ProducerInv'
    <3> SUFFICES ASSUME NEW q \in Producers, pc'[q] = "publish"
                 PROVE  data'[Slot(pos[q])] = Current(q)
      <4>1. Owns(p)' /\ \A q \in Producers : q # p => Owns(q)' = Owns(q)
        BY <1>1, <2>1 DEF Owns
      <4>2. \A q \in Producers : Current(q)' = Current(q) BY <1>1 DEF Current
      <4>3. QED BY <1>1, <2>1, <4>1, <4>2 DEF ProducerInv
    <3>1. CASE q = p BY <2>1, <3>1
    <3>2. CASE q # p
      <4>1. pc[q] = "publish" /\ Owns(q) BY <1>1, <3>2 DEF Owns
      <4>2. Slot(pos[q]) # Slot(pos[p]) BY <1>1, <3>2, <4>1, OwnersDiffer
      <4>3. Slot(pos[q]) \in Slots BY SlotType DEF TypeOK
      <4>4. QED BY <1>3, <4>1, <4>2, <4>3 DEF ProducerInv
    <3>3. QED BY <3>1, <3>2
  <2>4. QED BY <1>4, <1>5, <1>6, <2>2, <2>3
<1>8. CASE PushPublish(p)
  <2>1. /\ data' = data /\ sequence'[Slot(pos[p])] = pos[p] + 1
        /\ pc[p] = "publish" /\ pc'[p] = "idle"
    BY <1>2, <1>8 DEF PushPublish, TypeOK
  <2>2. SlotInv'
    <3> SUFFICES ASSUME NEW k \in HeadPos .. HeadPos + Capacity - 1
                 PROVE  \/ sequence'[Slot(k)] = k
                        \/ /\ sequence'[Slot(k)] = k + 1
                           /\ k < enqueue_pos
                           /\ data[Slot(k)] = order[k + 1]
      BY <1>1, <2>1 DEF SlotInv
    <3>1. CASE k = pos[p] BY <1>2, <2>1, <3>1 DEF ProducerInv
    <3>2. CASE k # pos[p]
      <4>1. Slot(k) # Slot(pos[p]) BY <1>2, <3>2, LapInjective
      <4>2. Slot(k) \in Slots BY <1>2, SlotType
      <4>3. QED BY <1>3, <4>1, <4>2 DEF SlotInv
    <3>3. QED BY <3>1, <3>2
  <2>3. ProducerInv'
    <3> SUFFICES ASSUME NEW q \in Producers, q # p, Owns(q)
                 PROVE  sequence'[Slot(pos[q])] = pos[q]
      <4>1. ~Owns(p)' /\ \A q \in Producers : q # p => Owns(q)' = Owns(q)
        BY <1>1, <2>1 DEF Owns
      <4>2. \A q \in Producers : Current(q)' = Current(q) BY <1>1 DEF Current
      <4>3. QED BY <1>1, <2>1, <4>1, <4>2 DEF ProducerInv
    <3>1. Slot(pos[q]) # Slot(pos[p]) BY <1>1, OwnersDiffer
    <3>2. Slot(pos[q]) \in Slots BY SlotType DEF TypeOK
    <3>3. QED BY <1>3, <3>1, <3>2 DEF ProducerInv
  <2>4. QED BY <1>4, <1>5, <1>6, <2>2, <2>3
<1>9. QED BY <1>7, <1>8

\* PopCheck, PopMove and PopAdvance touch no slot and leave HeadPos alone.
LEMMA ReaderStep ==
    ASSUME IndInv, TypeOK', PopCheck \/ PopMove \/ PopAdvance
    PROVE  IndInv'
<1> USE DEF IndInv
<1>1. /\ UNCHANGED <<sequence, data, enqueue_pos, pc, pos, calls, delivered, order, dropped>>
      /\ HeadPos' = HeadPos
  BY DEF PopCheck, PopMove, PopAdvance, producerVars, HeadPos, TypeOK
<1>2. LineInv' BY <1>1 DEF LineInv
<1>3. SlotInv' BY <1>1 DEF SlotInv
<1>4. ProducerInv' BY <1>1 DEF ProducerInv, Owns, Current
<1>5. OrderInv' BY <1>1 DEF OrderInv, Settled
<1>6. ConsumerInv'
  <2>1. CASE PopCheck
    <3>1. /\ cpc = "idle" /\ cpc' = "move" /\ UNCHANGED <<dequeue_pos, item>>
          /\ sequence[Slot(dequeue_pos)] = dequeue_pos + 1
          /\ HeadPos = dequeue_pos /\ dequeue_pos \in Nat
      BY <2>1 DEF PopCheck, HeadPos, TypeOK
    <3>2. dequeue_pos < enqueue_pos
      BY <3>1, QueueAssumption DEF SlotInv
    <3>3. QED BY <1>1, <3>1, <3>2 DEF ConsumerInv
  <2>2. CASE PopMove
    <3>1. /\ cpc = "move" /\ cpc' = "release" /\ UNCHANGED dequeue_pos
          /\ item' = data[Slot(dequeue_pos)]
          /\ HeadPos = dequeue_pos /\ dequeue_pos \in Nat
      BY <2>2 DEF PopMove, HeadPos, TypeOK
    <3>2. data[Slot(dequeue_pos)] = order[dequeue_pos + 1]
      BY <3>1, QueueAssumption DEF SlotInv, ConsumerInv
    <3>3. QED BY <1>1, <3>1, <3>2 DEF ConsumerInv
  <2>3. CASE PopAdvance
    BY <2>3 DEF PopAdvance, ConsumerInv
  <2>4. QED BY <2>1, <2>2, <2>3
<1>7. QED BY <1>2, <1>3, <1>4, <1>5, <1>6

LEMMA ReleaseStep ==
    ASSUME IndInv, TypeOK', PopRelease
    PROVE  IndInv'
<1> USE DEF IndInv
<1>1. /\ UNCHANGED <<data, enqueue_pos, pc, pos, calls, dequeue_pos, item, order, dropped>>
      /\ cpc = "release" /\ cpc' = "advance"
      /\ HeadPos = dequeue_pos /\ HeadPos' = dequeue_pos + 1
      /\ delivered' = Append(delivered, item)
  BY DEF PopRelease, producerVars, HeadPos
<1>2. /\ dequeue_pos \in Nat /\ enqueue_pos \in Nat /\ dequeue_pos < enqueue_pos
      /\ item = order[dequeue_pos + 1]
      /\ sequence[Slot(dequeue_pos)] = dequeue_pos + 1
      /\ Slot(dequeue_pos) \in Slots
  BY <1>1, SlotType DEF TypeOK, ConsumerInv
<1>3. /\ sequence'[Slot(dequeue_pos)] = dequeue_pos + Capacity
      /\ \A s \in Slots : s # Slot(dequeue_pos) => sequence'[s] = sequence[s]
  BY <1>2 DEF PopRelease, TypeOK
<1>4. LineInv'
  <2>1. Len(delivered) = dequeue_pos /\ delivered \in Seq(Items \cup {NoItem})
    BY <1>1 DEF LineInv, TypeOK
  <2>2. /\ Len(delivered') = dequeue_pos + 1
        /\ \A k \in 1 .. dequeue_pos : delivered'[k] = delivered[k]
        /\ delivered'[dequeue_pos + 1] = item
    BY <1>1, <1>2, <2>1 DEF TypeOK
  <2>3. QED BY <1>1, <1>2, <2>1, <2>2, QueueAssumption DEF LineInv
<1>5. SlotInv'
  <2> SUFFICES ASSUME NEW k \in dequeue_pos + 1 .. dequeue_pos + Capacity
               PROVE  \/ sequence'[Slot(k)] = k
                      \/ /\ sequence'[Slot(k)] = k + 1
                         /\ k < enqueue_pos
                         /\ data[Slot(k)] = order[k + 1]
    BY <1>1, <1>2, QueueAssumption DEF SlotInv
  <2>1. CASE k = dequeue_pos + Capacity
    BY <1>2, <1>3, <2>1, SlotWrap
  <2>2. CASE k # dequeue_pos + Capacity
    <3>1. k \in dequeue_pos .. dequeue_pos + Capacity - 1 /\ k \in Nat
      BY <1>2, <2>2, QueueAssumption
    <3>2. Slot(k) # Slot(dequeue_pos)
      BY <1>2, <3>1, SlotDistinct, QueueAssumption
    <3>3. Slot(k) \in Slots BY <3>1, SlotType
    <3>4. QED BY <1>1, <1>3, <3>1, <3>2, <3>3 DEF SlotInv
  <2>3. QED BY <2>1, <2>2
<1>6. ProducerInv'
  <2>1. ASSUME NEW q \in Producers, Owns(q)
        PROVE  dequeue_pos + 1 <= pos[q] /\ sequence'[Slot(pos[q])] = pos[q]
    <3>1. /\ pos[q] \in dequeue_pos .. dequeue_pos + Capacity - 1 /\ pos[q] \in Nat
          /\ sequence[Slot(pos[q])] = pos[q]
      BY <1>1, <2>1, OwnedInLap DEF ProducerInv, TypeOK
    <3>2. pos[q] # dequeue_pos BY <1>2, <3>1
    <3>3. Slot(pos[q]) # Slot(dequeue_pos)
      BY <1>2, <3>1, <3>2, SlotDistinct, QueueAssumption
    <3>4. Slot(pos[q]) \in Slots BY <3>1, SlotType
    <3>5. QED BY <1>2, <1>3, <3>1, <3>2, <3>3, <3>4
  <2>2. \A q \in Producers : pos[q] < HeadPos + Capacity => pos[q] < HeadPos' + Capacity
    BY <1>1, <1>2, QueueAssumption DEF TypeOK
  <2>3. \A q \in Producers : Owns(q)' = Owns(q) /\ Current(q)' = Current(q)
    BY <1>1 DEF Owns, Current
  <2>4. QED BY <1>1, <2>1, <2>2, <2>3 DEF ProducerInv
<1>7. ConsumerInv' BY <1>1 DEF ConsumerInv
<1>8. OrderInv' BY <1>1 DEF OrderInv, Settled
<1>9. QED BY <1>4, <1>5, <1>6, <1>7, <1>8

LEMMA InvStep == IndInv /\ [Next]_vars => IndInv'
<1> SUFFICES ASSUME IndInv, [Next]_vars PROVE IndInv'
  OBVIOUS
<1>1. TypeOK' BY TypeStep DEF IndInv
<1>2. ASSUME NEW p \in Producers, Push(p) PROVE IndInv'
  BY <1>1, <1>2, LocalStep, CasStep, OwnerStep DEF Push
<1>3. CASE PopCheck \/ PopMove \/ PopAdvance
  BY <1>1, <1>3, ReaderStep
<1>4. CASE PopRelease
  BY <1>1, <1>4, ReleaseStep
<1>5. CASE UNCHANGED vars
  BY <1>5 DEF vars, producerVars, consumerVars, IndInv, TypeOK, LineInv, SlotInv, ProducerInv,
     ConsumerInv, OrderInv, HeadPos, Owns, Current, Settled
<1>6. QED
  BY <1>2, <1>3, <1>4, <1>5 DEF Next, Pop, PopEmpty

\* The slot protocol of push() and pop() is an inductive invariant of the queue.
THEOREM Invariance == Spec => []IndInv
BY InitInv, InvStep, PTL DEF Spec

\* The plain accesses to Slot::data never race, whatever the number of producers
\* and the capacity: lines 105 and 125 are exclusive although the check of
\* sequence and the access are different steps.
THEOREM DataRaceFreedom == Spec => []NoSlotRace
<1>1. IndInv => NoSlotRace
  <2> SUFFICES ASSUME IndInv PROVE NoSlotRace
    OBVIOUS
  <2>1. ASSUME NEW p \in Producers, Owns(p), cpc \in {"move", "release"}
        PROVE  Slot(pos[p]) # Slot(dequeue_pos)
    <3>1. /\ pos[p] \in HeadPos .. HeadPos + Capacity - 1
          /\ HeadPos \in Nat /\ dequeue_pos = HeadPos
          /\ HeadPos \in HeadPos .. HeadPos + Capacity - 1
      BY <2>1, OwnedInLap, QueueAssumption DEF HeadPos
    <3>2. sequence[Slot(pos[p])] = pos[p] /\ sequence[Slot(dequeue_pos)] = dequeue_pos + 1
      BY <2>1 DEF IndInv, ProducerInv, ConsumerInv
    <3>3. pos[p] # dequeue_pos BY <3>1, <3>2
    <3>4. QED BY <3>1, <3>3, LapInjective
  <2>2. QED BY <2>1, OwnersDiffer DEF NoSlotRace
<1>2. QED BY <1>1, Invariance, PTL

\* The drain thread sees the ticks of each producer in the order they were
\* pushed, each at most once.
THEOREM PerProducerFifo == Spec => []ProducerOrder
<1>1. IndInv => ProducerOrder
  <2> SUFFICES ASSUME IndInv, NEW j \in 1 .. Len(delivered)
               PROVE  /\ delivered[j] # NoItem
                      /\ \A i \in 1 .. j - 1 : delivered[i][1] = delivered[j][1]
                                                   => delivered[i][2] < delivered[j][2]
    BY DEF ProducerOrder
  <2>1. /\ Len(delivered) \in Nat /\ Len(order) \in Nat
        /\ Len(delivered) <= Len(order)
    BY DEF IndInv, LineInv, TypeOK, HeadPos
  <2>2. /\ j \in 1 .. Len(order) /\ delivered[j] = order[j]
        /\ \A i \in 1 .. j - 1 : delivered[i] = order[i]
    BY <2>1 DEF IndInv, LineInv
  <2>3. order[j] \in Items BY <2>2 DEF IndInv, TypeOK
  <2>4. order[j] # NoItem
    <3>1. PICK a \in Producers, b \in 1 .. MaxPush : order[j] = <<a, b>>
      BY <2>3 DEF Items
    <3>2. Len(<<a, b>>) = 2 /\ Len(<<>>) = 0 OBVIOUS
    <3>3. QED BY <3>1, <3>2 DEF NoItem
  <2>5. \A i \in 1 .. j - 1 : order[i][1] = order[j][1] => order[i][2] < order[j][2]
    BY <2>2 DEF IndInv, OrderInv
  <2>6. QED BY <2>2, <2>4, <2>5
<1>2. QED BY <1>1, Invariance, PTL

-----------------------------------------------------------------------------
(***************************************************************************)
(* Nothing is lost                                                         *)
(***************************************************************************)
\* The fate of an item is known: refused, or with a position in the line.
Decided(i) == i \in dropped \/ \E k \in 1 .. Len(order) : order[k] = i

FateInv == \A p \in Producers : \A n \in 1 .. Settled(p) : Decided(<<p, n>>)

\* An item whose fate is known keeps it.
LEMMA FateStays ==
    ASSUME IndInv, [Next]_vars, NEW i, Decided(i)
    PROVE  Decided(i)'
<1>1. order \in Seq(Items) BY DEF IndInv, TypeOK
<1>2. UNCHANGED order \/ \E p \in Producers : order' = Append(order, Current(p))
  BY DEF Next, Pop, Push, PushCall, PushLoad, PushCheck, PushCas, PushCasFails, PushWrite,
         PushPublish, PopEmpty, PopCheck, PopMove, PopRelease, PopAdvance, vars
<1>3. dropped \subseteq dropped'
  BY DEF Next, Pop, Push, PushCall, PushLoad, PushCheck, PushCas, PushCasFails, PushWrite,
         PushPublish, PopEmpty, PopCheck, PopMove, PopRelease, PopAdvance, vars
<1>4. ASSUME NEW c, order' = Append(order, c), NEW k \in 1 .. Len(order)
      PROVE  k \in 1 .. Len(order') /\ order'[k] = order[k]
  BY <1>1, <1>4
<1>5. QED BY <1>2, <1>3, <1>4 DEF Decided

\* A step settles at most the call a producer is in, and decides its item.
LEMMA FateStep == IndInv /\ FateInv /\ [Next]_vars => FateInv'
<1> SUFFICES ASSUME IndInv, FateInv, [Next]_vars, NEW p \in Producers,
                    NEW n \in 1 .. Settled(p)'
             PROVE  Decided(<<p, n>>)'
  BY DEF FateInv
<1>1. /\ calls \in [Producers -> 0 .. MaxPush] /\ order \in Seq(Items)
      /\ pc \in [Producers -> {"idle", "load", "check", "cas", "write", "publish"}]
      /\ Settled(p) \in Int
  BY QueueAssumption DEF IndInv, TypeOK, Settled
<1>2. CASE Settled(p)' = Settled(p)
  BY <1>2, FateStays DEF FateInv
<1>3. CASE Settled(p)' # Settled(p)
  <2>1. \/ PushCheck(p) /\ dropped' = dropped \cup {Current(p)} /\ Settled(p)' = Settled(p) + 1
        \/ PushCas(p) /\ Settled(p)' = Settled(p) + 1
    <3>1. ~UNCHANGED <<pc, calls>> BY <1>3 DEF Settled
    <3>2. PICK q \in Producers : Push(q)
      BY <3>1 DEF Next, Pop, PopEmpty, PopCheck, PopMove, PopRelease, PopAdvance, vars,
                  producerVars, consumerVars
    <3>3. q = p
      <4> SUFFICES ASSUME q # p PROVE FALSE OBVIOUS
      <4>1. pc'[p] = pc[p] /\ calls'[p] = calls[p]
        BY <1>1, <3>2 DEF Push, PushCall, PushLoad, PushCheck, PushCas, PushCasFails, PushWrite,
                          PushPublish
      <4>2. QED BY <1>3, <4>1 DEF Settled
    <3>4. CASE PushCheck(p) BY <1>1, <1>3, <3>4 DEF PushCheck, Settled
    <3>5. CASE PushCas(p) BY <1>1, <1>3, <3>5 DEF PushCas, Settled
    <3>6. CASE PushCall(p)
      <4>1. calls'[p] = calls[p] + 1 /\ pc'[p] = "load" /\ pc[p] = "idle"
        BY <1>1, <3>6 DEF PushCall
      <4>2. QED BY <1>1, <1>3, <4>1 DEF Settled
    <3>7. CASE PushLoad(p) \/ PushCasFails(p) \/ PushWrite(p) \/ PushPublish(p)
      BY <1>1, <1>3, <3>7 DEF PushLoad, PushCasFails, PushWrite, PushPublish, Settled
    <3>8. QED BY <3>2, <3>3, <3>4, <3>5, <3>6, <3>7 DEF Push
  <2>2. CASE n \in 1 .. Settled(p) BY <2>2, FateStays DEF FateInv
  <2>3. CASE n \notin 1 .. Settled(p)
    <3>1. n = Settled(p) + 1 BY <1>1, <2>1, <2>3
    <3>2. pc[p] \in {"check", "cas"} BY <2>1 DEF PushCheck, PushCas
    <3>3. <<p, n>> = Current(p) BY <1>1, <3>1, <3>2 DEF Settled, Current
    <3>4. CASE dropped' = dropped \cup {Current(p)} BY <3>3, <3>4 DEF Decided
    <3>5. CASE PushCas(p)
      <4>1. order' = Append(order, Current(p)) BY <3>5 DEF PushCas
      <4>2. Len(order') \in 1 .. Len(order') /\ order'[Len(order')] = Current(p)
        BY <1>1, <4>1
      <4>3. QED BY <3>3, <4>2 DEF Decided
    <3>6. QED BY <2>1, <3>4, <3>5
  <2>4. QED BY <2>2, <2>3
<1>4. QED BY <1>2, <1>3

\* A push() that has returned either took a place in line or reported "full",
\* and never both: no tick disappears between the CAS and the slot.
THEOREM EveryPushDecided == Spec => []NothingLost
<1>1. Init => FateInv BY DEF Init, FateInv, Settled
<1>2. IndInv /\ FateInv => NothingLost
  <2> SUFFICES ASSUME IndInv, FateInv, NEW p \in Producers, pc[p] = "idle",
                      NEW n \in 1 .. calls[p]
               PROVE  (<<p, n>> \in dropped)
                         # (\E k \in 1 .. Len(order) : order[k] = <<p, n>>)
    BY DEF NothingLost
  <2>1. Decided(<<p, n>>) BY DEF FateInv, Settled
  <2>2. \A k \in 1 .. Len(order) : order[k] \notin dropped BY DEF IndInv, OrderInv
  <2>3. CASE <<p, n>> \in dropped BY <2>2, <2>3
  <2>4. CASE <<p, n>> \notin dropped BY <2>1, <2>4 DEF Decided
  <2>5. QED BY <2>3, <2>4
<1>3. QED BY <1>1, <1>2, InitInv, InvStep, FateStep, PTL DEF Spec

-----------------------------------------------------------------------------
(***************************************************************************)
(* The ring buffer implements the bounded queue                            *)
(***************************************************************************)
\* push() sees a sequence below its position only when Capacity positions are
\* claimed and not given back: "full" is definite, also for a stale pos.
LEMMA FullIsDefinite ==
    ASSUME IndInv, NEW p \in Producers, pc[p] = "check", sequence[Slot(pos[p])] < pos[p]
    PROVE  enqueue_pos = HeadPos + Capacity
<1>1. /\ pos[p] \in Nat /\ HeadPos \in Nat /\ enqueue_pos \in Nat
      /\ pos[p] <= enqueue_pos /\ enqueue_pos <= HeadPos + Capacity
  BY DEF IndInv, TypeOK, HeadPos, ProducerInv, LineInv
<1>2. PICK j \in HeadPos .. HeadPos + Capacity - 1 : Slot(j) = Slot(pos[p])
  BY <1>1, LapCovers
<1>3. sequence[Slot(pos[p])] \in {j, j + 1} /\ j \in Nat /\ HeadPos <= j
  BY <1>1, <1>2, QueueAssumption DEF IndInv, SlotInv
<1>4. HeadPos < pos[p]
  BY <1>1, <1>3
<1>5. ~(pos[p] < HeadPos + Capacity)
  <2> SUFFICES ASSUME pos[p] < HeadPos + Capacity PROVE FALSE
    OBVIOUS
  <2>1. pos[p] \in HeadPos .. HeadPos + Capacity - 1
    BY <1>1, <1>4, QueueAssumption
  <2>2. j = pos[p] BY <1>1, <1>2, <2>1, LapInjective
  <2>3. QED BY <1>1, <1>3, <2>2
<1>6. QED BY <1>1, <1>5, QueueAssumption

\* The item of a push() that has claimed no position is new to the line.
LEMMA CurrentIsFresh ==
    ASSUME IndInv, NEW p \in Producers, pc[p] \in {"check", "cas"}
    PROVE  /\ Current(p) \in Items
           /\ Fifo!Fresh(Current(p))
<1>1. Settled(p) = calls[p] - 1 /\ calls[p] \in 1 .. MaxPush
  <2>1. calls[p] \in 0 .. MaxPush /\ pc[p] # "idle" BY DEF IndInv, TypeOK
  <2>2. calls[p] > 0 BY <2>1 DEF IndInv, TypeOK
  <2>3. QED BY <2>1, <2>2, QueueAssumption DEF Settled
<1>2. Current(p)[1] = p /\ Current(p)[2] = calls[p] BY DEF Current
<1>3. Current(p) \in Items BY <1>1 DEF Current, Items
<1>4. ~(Current(p)[2] <= Settled(Current(p)[1])) BY <1>1, <1>2, QueueAssumption
<1>5. QED BY <1>3, <1>4 DEF IndInv, OrderInv, Fifo!Fresh

LEMMA FifoStep ==
    ASSUME IndInv, IndInv', [Next]_vars
    PROVE  [Fifo!Next]_(Fifo!fifoVars)
<1>0. /\ HeadPos \in Nat /\ enqueue_pos \in Nat /\ dequeue_pos \in Nat
      /\ order \in Seq(Items) /\ Len(order) = enqueue_pos
      /\ HeadPos <= enqueue_pos /\ enqueue_pos <= HeadPos + Capacity
  BY DEF IndInv, TypeOK, HeadPos, LineInv
<1>1. ASSUME UNCHANGED <<sequence, order, delivered, dropped>>, HeadPos' = HeadPos
      PROVE  UNCHANGED Fifo!fifoVars
  BY <1>1 DEF Fifo!fifoVars, Filled
<1>2. ASSUME NEW p \in Producers, PushCall(p) \/ PushLoad(p) \/ PushCasFails(p) \/ PushWrite(p)
      PROVE  UNCHANGED Fifo!fifoVars
  BY <1>1, <1>2 DEF PushCall, PushLoad, PushCasFails, PushWrite, consumerVars, HeadPos
<1>3. ASSUME NEW p \in Producers, PushCheck(p)
      PROVE  [Fifo!Next]_(Fifo!fifoVars)
  <2>1. UNCHANGED <<sequence, order, delivered>> /\ HeadPos' = HeadPos
    BY <1>3 DEF PushCheck, consumerVars, HeadPos
  <2>2. CASE dropped' = dropped BY <1>1, <2>1, <2>2
  <2>3. CASE dropped' # dropped
    <3>1. /\ pc[p] = "check" /\ sequence[Slot(pos[p])] < pos[p]
          /\ dropped' = dropped \cup {Current(p)}
      BY <1>3, <2>3 DEF PushCheck
    <3>2. enqueue_pos = HeadPos + Capacity BY <3>1, FullIsDefinite
    <3>3. Current(p) \in Items /\ Fifo!Fresh(Current(p)) BY <3>1, CurrentIsFresh
    <3>4. Len(order) - HeadPos = Capacity BY <1>0, <3>2, QueueAssumption
    <3>5. Filled' = Filled BY <2>1 DEF Filled
    <3>6. Fifo!Reject(Current(p))
      BY <2>1, <3>1, <3>3, <3>4, <3>5 DEF Fifo!Reject
    <3>7. QED BY <3>3, <3>6 DEF Fifo!Next
  <2>4. QED BY <2>2, <2>3
<1>4. ASSUME NEW p \in Producers, PushCas(p)
      PROVE  Fifo!Next
  <2>1. /\ UNCHANGED <<sequence, delivered, dropped>> /\ HeadPos' = HeadPos
        /\ order' = Append(order, Current(p))
        /\ pc[p] = "cas" /\ pos[p] = enqueue_pos
        /\ enqueue_pos < HeadPos + Capacity
    BY <1>4 DEF PushCas, consumerVars, HeadPos, IndInv, ProducerInv
  <2>2. Current(p) \in Items /\ Fifo!Fresh(Current(p)) BY <2>1, CurrentIsFresh
  <2>3. sequence[Slot(enqueue_pos)] = enqueue_pos
    <3>1. enqueue_pos \in HeadPos .. HeadPos + Capacity - 1
      BY <1>0, <2>1, QueueAssumption
    <3>2. QED BY <1>0, <3>1 DEF IndInv, SlotInv
  <2>4. Len(order') = enqueue_pos + 1 BY <1>0, <2>1, <2>2
  <2>5. Filled' = Filled
    <3>1. Filled' = {k \in 1 .. enqueue_pos + 1 : k <= HeadPos \/ sequence[Slot(k - 1)] = k}
      BY <2>1, <2>4 DEF Filled
    <3>2. ASSUME NEW k \in 1 .. enqueue_pos + 1, k <= HeadPos \/ sequence[Slot(k - 1)] = k
          PROVE  k \in 1 .. enqueue_pos
      <4>1. CASE k = enqueue_pos + 1 BY <1>0, <2>3, <3>2, <4>1
      <4>2. QED BY <1>0, <4>1
    <3>3. QED BY <1>0, <3>1, <3>2 DEF Filled
  <2>6. Len(order) - HeadPos < Capacity BY <1>0, <2>1, QueueAssumption
  <2>7. Fifo!Reserve(Current(p))
    BY <2>1, <2>2, <2>5, <2>6 DEF Fifo!Reserve
  <2>8. QED BY <2>2, <2>7 DEF Fifo!Next
<1>5. ASSUME NEW p \in Producers, PushPublish(p)
      PROVE  Fifo!Next
  <2>1. /\ UNCHANGED <<order, delivered, dropped>> /\ HeadPos' = HeadPos /\ Owns(p)
    BY <1>5 DEF PushPublish, consumerVars, HeadPos, Owns
  <2>2. /\ pos[p] \in HeadPos .. HeadPos + Capacity - 1 /\ pos[p] \in Nat
        /\ pos[p] < enqueue_pos
        /\ sequence[Slot(pos[p])] = pos[p] /\ Slot(pos[p]) \in Slots
    BY <2>1, OwnedInLap, SlotType DEF IndInv, ProducerInv, TypeOK
  <2>3. /\ sequence'[Slot(pos[p])] = pos[p] + 1
        /\ \A s \in Slots : s # Slot(pos[p]) => sequence'[s] = sequence[s]
    BY <1>5, <2>2 DEF PushPublish, IndInv, TypeOK
  <2>4. pos[p] + 1 \in HeadPos + 1 .. Len(order) /\ pos[p] + 1 \notin Filled
    BY <1>0, <2>2 DEF Filled
  <2>5. Filled' = Filled \cup {pos[p] + 1}
    <3>1. ASSUME NEW k \in 1 .. Len(order), k # pos[p] + 1, ~(k <= HeadPos)
          PROVE  sequence'[Slot(k - 1)] = sequence[Slot(k - 1)]
      <4>1. k - 1 \in HeadPos .. HeadPos + Capacity - 1 /\ k - 1 \in Nat /\ k - 1 # pos[p]
        BY <1>0, <2>2, <3>1, QueueAssumption
      <4>2. Slot(k - 1) # Slot(pos[p]) /\ Slot(k - 1) \in Slots
        BY <1>0, <2>2, <4>1, LapInjective, SlotType
      <4>3. QED BY <2>3, <4>2
    <3>2. pos[p] + 1 \in 1 .. Len(order) /\ (pos[p] + 1) - 1 = pos[p] BY <1>0, <2>2
    <3>3. QED BY <2>1, <2>3, <3>1, <3>2 DEF Filled
  <2>6. Fifo!Fill(pos[p] + 1) BY <2>1, <2>4, <2>5 DEF Fifo!Fill
  <2>7. QED BY <2>4, <2>6 DEF Fifo!Next
<1>6. CASE PopCheck \/ PopMove \/ PopAdvance
  <2>1. UNCHANGED <<sequence, order, delivered, dropped>> /\ HeadPos' = HeadPos
    BY <1>6 DEF PopCheck, PopMove, PopAdvance, HeadPos
  <2>2. QED BY <1>1, <2>1
<1>7. CASE PopRelease
  <2>1. /\ UNCHANGED <<order, dropped>> /\ delivered' = Append(delivered, item)
        /\ HeadPos = dequeue_pos /\ HeadPos' = dequeue_pos + 1
        /\ dequeue_pos < enqueue_pos
        /\ item = order[dequeue_pos + 1]
        /\ sequence[Slot(dequeue_pos)] = dequeue_pos + 1
    BY <1>7 DEF PopRelease, HeadPos, IndInv, ConsumerInv
  <2>2. \A s \in Slots : s # Slot(dequeue_pos) => sequence'[s] = sequence[s]
    BY <1>7 DEF PopRelease, IndInv, TypeOK
  <2>3. Filled' = Filled
    <3>1. ASSUME NEW k \in 1 .. Len(order), ~(k <= dequeue_pos + 1)
          PROVE  sequence'[Slot(k - 1)] = sequence[Slot(k - 1)]
      <4>1. k - 1 \in Nat /\ dequeue_pos < k - 1 /\ k - 1 < dequeue_pos + Capacity
        BY <1>0, <2>1, <3>1, QueueAssumption
      <4>2. Slot(k - 1) # Slot(dequeue_pos) /\ Slot(k - 1) \in Slots
        BY <1>0, <4>1, SlotDistinct, SlotType
      <4>3. QED BY <2>2, <4>2
    <3>2. (dequeue_pos + 1) - 1 = dequeue_pos BY <1>0
    <3>3. ASSUME NEW k \in 1 .. Len(order)
          PROVE  (k <= dequeue_pos \/ sequence[Slot(k - 1)] = k)
                    <=> (k <= dequeue_pos + 1 \/ sequence'[Slot(k - 1)] = k)
      <4>1. CASE k = dequeue_pos + 1 BY <1>0, <2>1, <3>2, <4>1
      <4>2. CASE k <= dequeue_pos BY <1>0, <4>2
      <4>3. CASE ~(k <= dequeue_pos + 1) BY <1>0, <3>1, <4>3
      <4>4. QED BY <1>0, <4>1, <4>2, <4>3
    <3>4. QED BY <2>1, <3>3 DEF Filled
  <2>4. HeadPos + 1 \in Filled BY <1>0, <2>1 DEF Filled
  <2>5. Fifo!Take BY <2>1, <2>3, <2>4 DEF Fifo!Take
  <2>6. QED BY <2>5 DEF Fifo!Next
<1>8. CASE UNCHANGED vars
  <2>1. UNCHANGED <<sequence, order, delivered, dropped>> /\ HeadPos' = HeadPos
    BY <1>8 DEF vars, consumerVars, HeadPos
  <2>2. QED BY <1>1, <2>1
<1>9. QED
  BY <1>2, <1>3, <1>4, <1>5, <1>6, <1>7, <1>8 DEF Next, Push, Pop, PopEmpty

\* The lock-free ring implements the bounded queue TickFifo: FIFO in CAS order,
\* nothing lost, nothing duplicated, and "full" only when it is full.
THEOREM Refinement == Spec => FifoSpec
<1>1. Init => Fifo!Init
  BY DEF Init, Fifo!Init, Filled, HeadPos
<1>2. QED
  BY <1>1, FifoStep, Invariance, PTL DEF Spec, FifoSpec, Fifo!Spec

=============================================================================
