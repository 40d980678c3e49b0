------------------------------ MODULE TickFifo ------------------------------
(***************************************************************************)
(* What a bounded multi-producer queue promises its callers.  A producer   *)
(* reserves the next place in line, fills it later, and the consumer takes *)
(* the places strictly in line, waiting for one that is reserved and not   *)
(* yet filled.  A tick is refused only when all Capacity places are taken. *)
(***************************************************************************)
EXTENDS Naturals, Sequences

CONSTANTS Items, Capacity

VARIABLES order,        \* every accepted item, in line
          ready,        \* the places of the line that are filled
          taken,        \* how many places have been served
          delivered,    \* what the consumer has received
          dropped       \* what was refused

fifoVars == <<order, ready, taken, delivered, dropped>>

Fresh(i) == /\ i \notin dropped
            /\ \A k \in 1 .. Len(order) : order[k] # i

Init == /\ order = <<>>
        /\ ready = {}
        /\ taken = 0
        /\ delivered = <<>>
        /\ dropped = {}

Reserve(i) == /\ Fresh(i)
              /\ Len(order) - taken < Capacity
              /\ order' = Append(order, i)
              /\ UNCHANGED <<ready, taken, delivered, dropped>>

Reject(i) == /\ Fresh(i)
             /\ Len(order) - taken = Capacity
             /\ dropped' = dropped \cup {i}
             /\ UNCHANGED <<order, ready, taken, delivered>>

Fill(k) == /\ k \notin ready
           /\ ready' = ready \cup {k}
           /\ UNCHANGED <<order, taken, delivered, dropped>>

Take == /\ taken + 1 \in ready
        /\ taken' = taken + 1
        /\ delivered' = Append(delivered, order[taken + 1])
        /\ UNCHANGED <<order, ready, dropped>>

Next == \/ \E i \in Items : Reserve(i) \/ Reject(i)
        \/ \E k \in taken + 1 .. Len(order) : Fill(k)
        \/ Take

Spec == Init /\ [][Next]_fifoVars

=============================================================================
