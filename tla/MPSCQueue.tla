----------------------------- MODULE MPSCQueue -----------------------------
(***************************************************************************)
(* trading::MPSCQueue (trading-engine/src/core/lock_free_queue.hpp): the   *)
(* ring buffer between the threads that receive market ticks and the one   *)
(* drain thread of the tick aggregator.  Every atomic load, store and CAS, *)
(* and every plain access to a slot's data, is a step of its own, so the   *)
(* accesses of different threads interleave freely.                        *)
(*                                                                         *)
(* Memory orders are abstracted to sequential consistency: the acquire /   *)
(* release pair on Slot::sequence is the only synchronisation the          *)
(* algorithm relies on, and data races on Slot::data are stated as a       *)
(* property (NoSlotRace) instead.  Positions are naturals: a size_t does   *)
(* not wrap in any run of the engine.                                      *)
(***************************************************************************)
EXTENDS Naturals, Sequences, FiniteSets

CONSTANTS Producers,    \* threads that call push()
          Capacity,     \* the template parameter
          MaxPush       \* bound: calls of push() by one producer

\* Capacity > 1 is what static_assert demands of every instance (it also
\* demands a power of two, which is what makes pos & kMask the remainder).
ASSUME QueueAssumption == /\ Capacity \in Nat
                          /\ Capacity > 1
                          /\ MaxPush \in Nat

VARIABLES
    sequence,       \* slots_[i].sequence
    data,           \* slots_[i].data
    enqueue_pos,
    dequeue_pos,
    pc,             \* where each producer is inside push()
    pos,            \* push()'s local pos
    calls,          \* calls of push() each producer has made
    cpc,            \* where the consumer is inside pop()
    item,           \* pop()'s local item
    order,          \* history: the items in the order their CAS succeeded
    delivered,      \* history: the items pop() has handed out
    dropped         \* history: the items push() has refused

producerVars == <<pc, pos, calls>>
consumerVars == <<dequeue_pos, cpc, item, delivered>>
vars == <<sequence, data, enqueue_pos, producerVars, consumerVars, order, dropped>>

Slots == 0 .. Capacity - 1
Items == Producers \X (1 .. MaxPush)
NoItem == <<>>

\* pos & kMask
Slot(k) == k % Capacity

\* The argument of the push() a producer is executing.
Current(p) == <<p, calls[p]>>

TypeOK ==
    /\ sequence \in [Slots -> Nat]
    /\ data \in [Slots -> Items \cup {NoItem}]
    /\ enqueue_pos \in Nat
    /\ dequeue_pos \in Nat
    /\ pc \in [Producers -> {"idle", "load", "check", "cas", "write", "publish"}]
    /\ pos \in [Producers -> Nat]
    /\ calls \in [Producers -> 0 .. MaxPush]
    /\ \A p \in Producers : pc[p] # "idle" => calls[p] > 0
    /\ cpc \in {"idle", "move", "release", "advance"}
    /\ item \in Items \cup {NoItem}
    /\ order \in Seq(Items)
    /\ delivered \in Seq(Items \cup {NoItem})
    /\ dropped \subseteq Items

-----------------------------------------------------------------------------
\* MPSCQueue()
Init ==
    /\ sequence = [s \in Slots |-> s]
    /\ data = [s \in Slots |-> NoItem]
    /\ enqueue_pos = 0
    /\ dequeue_pos = 0
    /\ pc = [p \in Producers |-> "idle"]
    /\ pos = [p \in Producers |-> 0]
    /\ calls = [p \in Producers |-> 0]
    /\ cpc = "idle"
    /\ item = NoItem
    /\ order = <<>>
    /\ delivered = <<>>
    /\ dropped = {}

-----------------------------------------------------------------------------
(***************************************************************************)
(* push()                                                                  *)
(***************************************************************************)
\* A caller enters push() with its next tick.
PushCall(p) ==
    /\ pc[p] = "idle"
    /\ calls[p] < MaxPush
    /\ calls' = [calls EXCEPT ![p] = @ + 1]
    /\ pc' = [pc EXCEPT ![p] = "load"]
    /\ UNCHANGED <<sequence, data, enqueue_pos, pos, consumerVars, order, dropped>>

\* pos = enqueue_pos_.load(), on entry and when the position was taken (diff > 0).
PushLoad(p) ==
    /\ pc[p] = "load"
    /\ pos' = [pos EXCEPT ![p] = enqueue_pos]
    /\ pc' = [pc EXCEPT ![p] = "check"]
    /\ UNCHANGED <<sequence, data, enqueue_pos, calls, consumerVars, order, dropped>>

\* Mutant: a slot of the lap before (diff < 0) is taken as free.
PushCheckOverruns(p) ==
    /\ pc[p] = "check"
    /\ pc' = [pc EXCEPT ![p] = IF sequence[Slot(pos[p])] <= pos[p] THEN "cas" ELSE "load"]
    /\ UNCHANGED <<sequence, data, enqueue_pos, pos, calls, consumerVars, order, dropped>>

\* Mutant: any difference is reported as "full", a position taken meanwhile too.
PushCheckGivesUp(p) ==
    LET seq == sequence[Slot(pos[p])] IN
    /\ pc[p] = "check"
    /\ pc' = [pc EXCEPT ![p] = IF seq = pos[p] THEN "cas" ELSE "idle"]
    /\ dropped' = IF seq = pos[p] THEN dropped ELSE dropped \cup {Current(p)}
    /\ UNCHANGED <<sequence, data, enqueue_pos, pos, calls, consumerVars, order>>

\* The load of the slot's sequence and the three-way branch on diff.
PushCheck(p) ==
    LET seq == sequence[Slot(pos[p])] IN
    /\ pc[p] = "check"
    /\ \/ /\ seq = pos[p]
          /\ pc' = [pc EXCEPT ![p] = "cas"]
          /\ UNCHANGED dropped
       \/ /\ seq < pos[p]
          /\ pc' = [pc EXCEPT ![p] = "idle"]
          /\ dropped' = dropped \cup {Current(p)}
       \/ /\ seq > pos[p]
          /\ pc' = [pc EXCEPT ![p] = "load"]
          /\ UNCHANGED dropped
    /\ UNCHANGED <<sequence, data, enqueue_pos, pos, calls, consumerVars, order>>

\* compare_exchange_weak succeeds: the producer owns position pos[p].
PushCas(p) ==
    /\ pc[p] = "cas"
    /\ enqueue_pos = pos[p]
    /\ enqueue_pos' = pos[p] + 1
    /\ order' = Append(order, Current(p))
    /\ pc' = [pc EXCEPT ![p] = "write"]
    /\ UNCHANGED <<sequence, data, pos, calls, consumerVars, dropped>>

\* Mutant: the result of the CAS is ignored.
PushCasFailsUnnoticed(p) ==
    /\ pc[p] = "cas"
    /\ pc' = [pc EXCEPT ![p] = "write"]
    /\ UNCHANGED <<sequence, data, enqueue_pos, pos, calls, consumerVars, order, dropped>>

\* compare_exchange_weak fails, spuriously or not, and reloads pos.
PushCasFails(p) ==
    /\ pc[p] = "cas"
    /\ pos' = [pos EXCEPT ![p] = enqueue_pos]
    /\ pc' = [pc EXCEPT ![p] = "check"]
    /\ UNCHANGED <<sequence, data, enqueue_pos, calls, consumerVars, order, dropped>>

\* slot.data = data
PushWrite(p) ==
    /\ pc[p] = "write"
    /\ data' = [data EXCEPT ![Slot(pos[p])] = Current(p)]
    /\ pc' = [pc EXCEPT ![p] = "publish"]
    /\ UNCHANGED <<sequence, enqueue_pos, pos, calls, consumerVars, order, dropped>>

\* Mutant: the sequence stored is the one the slot already has.
PushPublishNothing(p) ==
    /\ pc[p] = "publish"
    /\ sequence' = [sequence EXCEPT ![Slot(pos[p])] = pos[p]]
    /\ pc' = [pc EXCEPT ![p] = "idle"]
    /\ UNCHANGED <<data, enqueue_pos, pos, calls, consumerVars, order, dropped>>

\* slot.sequence.store(pos + 1); return true
PushPublish(p) ==
    /\ pc[p] = "publish"
    /\ sequence' = [sequence EXCEPT ![Slot(pos[p])] = pos[p] + 1]
    /\ pc' = [pc EXCEPT ![p] = "idle"]
    /\ UNCHANGED <<data, enqueue_pos, pos, calls, consumerVars, order, dropped>>

-----------------------------------------------------------------------------
(***************************************************************************)
(* pop(), called over and over by the drain thread                         *)
(***************************************************************************)
\* pop() returns nullopt: the position is not published (the queue is empty, or
\* a producer ahead has claimed it and not published yet).  Nothing changes.
PopEmpty ==
    /\ cpc = "idle"
    /\ sequence[Slot(dequeue_pos)] # dequeue_pos + 1
    /\ UNCHANGED vars

\* Mutant: the + 1 is forgotten, and a claimed slot is read before it is published.
PopCheckUnpublished ==
    /\ cpc = "idle"
    /\ sequence[Slot(dequeue_pos)] >= dequeue_pos
    /\ cpc' = "move"
    /\ UNCHANGED <<sequence, data, enqueue_pos, producerVars, dequeue_pos, item,
                   delivered, order, dropped>>

\* The load of the slot's sequence finds the position published.
PopCheck ==
    /\ cpc = "idle"
    /\ sequence[Slot(dequeue_pos)] = dequeue_pos + 1
    /\ cpc' = "move"
    /\ UNCHANGED <<sequence, data, enqueue_pos, producerVars, dequeue_pos, item,
                   delivered, order, dropped>>

\* T item = std::move(slot.data): the ticks are trivially copied, the slot keeps
\* its old value.
PopMove ==
    /\ cpc = "move"
    /\ item' = data[Slot(dequeue_pos)]
    /\ cpc' = "release"
    /\ UNCHANGED <<sequence, data, enqueue_pos, producerVars, dequeue_pos,
                   delivered, order, dropped>>

\* Mutant: the slot is not prepared for the next lap.
PopReleaseSameLap ==
    /\ cpc = "release"
    /\ sequence' = [sequence EXCEPT ![Slot(dequeue_pos)] = dequeue_pos + 1]
    /\ delivered' = Append(delivered, item)
    /\ cpc' = "advance"
    /\ UNCHANGED <<data, enqueue_pos, producerVars, dequeue_pos, item, order, dropped>>

\* slot.sequence.store(pos + Capacity): the slot is free for the next lap.
PopRelease ==
    /\ cpc = "release"
    /\ sequence' = [sequence EXCEPT ![Slot(dequeue_pos)] = dequeue_pos + Capacity]
    /\ delivered' = Append(delivered, item)
    /\ cpc' = "advance"
    /\ UNCHANGED <<data, enqueue_pos, producerVars, dequeue_pos, item, order, dropped>>

\* dequeue_pos_.store(pos + 1); return item
PopAdvance ==
    /\ cpc = "advance"
    /\ dequeue_pos' = dequeue_pos + 1
    /\ item' = NoItem
    /\ cpc' = "idle"
    /\ UNCHANGED <<sequence, data, enqueue_pos, producerVars, delivered, order, dropped>>

-----------------------------------------------------------------------------
Push(p) ==
    \/ PushCall(p)
    \/ PushLoad(p)
    \/ PushCheck(p)
    \/ PushCas(p)
    \/ PushCasFails(p)
    \/ PushWrite(p)
    \/ PushPublish(p)

Pop == PopEmpty \/ PopCheck \/ PopMove \/ PopRelease \/ PopAdvance

Next == Pop \/ \E p \in Producers : Push(p)

Spec == Init /\ [][Next]_vars

\* A thread inside push() past its CAS is never stopped, and the drain thread
\* keeps polling; nothing is assumed of a producer that has claimed no slot.
Fairness ==
    /\ WF_vars(Pop)
    /\ \A p \in Producers : WF_vars(PushWrite(p) \/ PushPublish(p))

FairSpec == Spec /\ Fairness

-----------------------------------------------------------------------------
(***************************************************************************)
(* What the queue promises                                                 *)
(***************************************************************************)
\* The first position not yet given back: dequeue_pos, or the one after it when
\* the slot is released and the store of dequeue_pos is still to come.
HeadPos == IF cpc = "advance" THEN dequeue_pos + 1 ELSE dequeue_pos

\* A producer between its CAS and the store that publishes its slot.
Owns(p) == pc[p] \in {"write", "publish"}

(***************************************************************************)
(* The inductive invariant.  Positions HeadPos .. enqueue_pos - 1 are      *)
(* claimed and not given back; the Capacity positions from HeadPos on are  *)
(* the current lap, one per slot.                                          *)
(***************************************************************************)
LineInv ==
    /\ HeadPos <= enqueue_pos
    /\ enqueue_pos <= HeadPos + Capacity
    /\ Len(order) = enqueue_pos
    /\ Len(delivered) = HeadPos
    /\ \A k \in 1 .. Len(delivered) : delivered[k] = order[k]

\* A slot's sequence is its position until it is published, and one more from
\* then on; a published slot holds the item that claimed its position.
SlotInv ==
    \A k \in HeadPos .. HeadPos + Capacity - 1 :
        \/ sequence[Slot(k)] = k
        \/ /\ sequence[Slot(k)] = k + 1
           /\ k < enqueue_pos
           /\ data[Slot(k)] = order[k + 1]

ProducerInv ==
    \A p \in Producers :
        /\ pc[p] \in {"check", "cas"} => pos[p] <= enqueue_pos
        /\ pc[p] = "cas" => pos[p] < HeadPos + Capacity
        /\ Owns(p) => /\ HeadPos <= pos[p]
                      /\ pos[p] < enqueue_pos
                      /\ sequence[Slot(pos[p])] = pos[p]
                      /\ order[pos[p] + 1] = Current(p)
        /\ pc[p] = "publish" => data[Slot(pos[p])] = Current(p)

ConsumerInv ==
    /\ cpc \in {"move", "release"} =>
          /\ dequeue_pos < enqueue_pos
          /\ sequence[Slot(dequeue_pos)] = dequeue_pos + 1
    /\ cpc = "release" => item = order[dequeue_pos + 1]

\* The calls of push() whose fate is decided: refused, or a position claimed.
Settled(p) == IF pc[p] \in {"load", "check", "cas"} THEN calls[p] - 1 ELSE calls[p]

OrderInv ==
    /\ \A k \in 1 .. Len(order) : order[k][2] <= Settled(order[k][1])
    /\ \A j \in 1 .. Len(order) : \A i \in 1 .. j - 1 :
          order[i][1] = order[j][1] => order[i][2] < order[j][2]
    /\ \A i \in dropped : i[2] <= Settled(i[1])
    /\ \A k \in 1 .. Len(order) : order[k] \notin dropped

\* The strengthening of the properties below that every step of every thread
\* preserves: who may write a slot is settled by sequence alone, although it is
\* read, tested and stored in different steps.
IndInv == TypeOK /\ LineInv /\ SlotInv /\ ProducerInv /\ ConsumerInv /\ OrderInv

-----------------------------------------------------------------------------
\* No two threads touch the plain field data of one slot at the same time: two
\* producers never own the same slot, and none owns the slot the consumer is
\* moving out of (lines 105 and 125 are ordinary, unsynchronised accesses).
NoSlotRace ==
    /\ \A p, q \in Producers :
          p # q /\ Owns(p) /\ Owns(q) => Slot(pos[p]) # Slot(pos[q])
    /\ \A p \in Producers :
          Owns(p) /\ cpc \in {"move", "release"} => Slot(pos[p]) # Slot(dequeue_pos)

\* The ticks of one producer are handed out in the order it pushed them, and
\* none twice, however its CAS retries interleave with other producers.
ProducerOrder ==
    \A j \in 1 .. Len(delivered) :
        /\ delivered[j] # NoItem
        /\ \A i \in 1 .. j - 1 :
              delivered[i][1] = delivered[j][1] => delivered[i][2] < delivered[j][2]

\* A push() that has returned either took a place in line or reported "full":
\* no tick disappears between the CAS and the slot, and none is both.
NothingLost ==
    \A p \in Producers : pc[p] = "idle" =>
        \A n \in 1 .. calls[p] :
            (<<p, n>> \in dropped) # (\E k \in 1 .. Len(order) : order[k] = <<p, n>>)

\* The positions of the line whose slot is published, or was and is given back.
Filled == {k \in 1 .. Len(order) : k <= HeadPos \/ sequence[Slot(k - 1)] = k}

Fifo == INSTANCE TickFifo WITH ready <- Filled, taken <- HeadPos

\* The ring buffer implements the bounded queue: first in first out by CAS order,
\* nothing lost or duplicated, and "full" reported only when it is ("returns
\* false if definitely full").
FifoSpec == Fifo!Spec

\* A tick that won a position is handed to the drain thread in the end, even
\* when the producer ahead of it is slow to publish.
AcceptedIsDelivered ==
    \A k \in 1 .. MaxPush * Cardinality(Producers) :
        (Len(order) >= k) ~> (Len(delivered) >= k)

=============================================================================
