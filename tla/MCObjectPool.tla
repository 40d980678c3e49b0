---------------------------- MODULE MCObjectPool ----------------------------
(***************************************************************************)
(* The engine's own use of the pool: the two threads that publish, the     *)
(* scalping drain thread and the market consumer thread, over four slots;  *)
(* and the same pool shared by three threads.                              *)
(***************************************************************************)
EXTENDS ObjectPool

=============================================================================
