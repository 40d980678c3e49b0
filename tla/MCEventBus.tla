----------------------------- MODULE MCEventBus -----------------------------
(***************************************************************************)
(* The engine's three publishing threads: the drain thread publishes       *)
(* scalping events, the market and the AI consumer publish swing events.   *)
(***************************************************************************)
EXTENDS EventBus

CONSTANTS scalping, swing, drain, market, ai

MCTypeOf == [p \in Publishers |-> IF p = drain THEN scalping ELSE swing]

=============================================================================
