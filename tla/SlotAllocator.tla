--------------------------- MODULE SlotAllocator ---------------------------
(***************************************************************************)
(* What a pool of slots promises the threads that share it: a thread is    *)
(* given one of the free slots, whichever it is, and refused only when at  *)
(* some moment of its call there is none.  A slot given back is free       *)
(* again; a slot taken for good never is.                                  *)
(***************************************************************************)
CONSTANTS Threads, Slots

VARIABLES free,     \* the slots to be had
          has,      \* the slots in each thread's hands
          kept,     \* the slots taken for good
          refused   \* the threads found without a slot and not told yet

poolVars == <<free, has, kept, refused>>

Init == /\ free = Slots
        /\ has = [t \in Threads |-> {}]
        /\ kept = {}
        /\ refused = {}

\* One slot at a time, and none while a refusal is on its way.
Wants(t) == has[t] = {} /\ t \notin refused

Take(t, s) == /\ Wants(t)
              /\ s \in free
              /\ free' = free \ {s}
              /\ has' = [has EXCEPT ![t] = {s}]
              /\ UNCHANGED <<kept, refused>>

Refuse(t) == /\ Wants(t)
             /\ free = {}
             /\ refused' = refused \cup {t}
             /\ UNCHANGED <<free, has, kept>>

Tell(t) == /\ t \in refused
           /\ refused' = refused \ {t}
           /\ UNCHANGED <<free, has, kept>>

GiveBack(t, s) == /\ s \in has[t]
                  /\ s \notin free
                  /\ free' = free \cup {s}
                  /\ has' = [has EXCEPT ![t] = {}]
                  /\ UNCHANGED <<kept, refused>>

Keep(t, s) == /\ s \in has[t]
              /\ kept' = kept \cup {s}
              /\ has' = [has EXCEPT ![t] = {}]
              /\ UNCHANGED <<free, refused>>

Next == \E t \in Threads :
            \/ Refuse(t) \/ Tell(t)
            \/ \E s \in Slots : Take(t, s) \/ GiveBack(t, s) \/ Keep(t, s)

Spec == Init /\ [][Next]_poolVars

=============================================================================
