---------------------------- MODULE MCMPSCQueue ----------------------------
(***************************************************************************)
(* Two producers, a ring of two slots and three pushes each: the ring is   *)
(* lapped three times, fills up, and a producer can be overtaken by a      *)
(* whole lap between any two of its steps.                                 *)
(***************************************************************************)
EXTENDS MPSCQueue

=============================================================================
