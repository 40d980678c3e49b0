---------------------------- MODULE MCSwingPath ----------------------------
(***************************************************************************)
(* Two consumer threads, three tickers and a pool of two state objects, so *)
(* that the pool is exhausted; the ticks of ticker A fall on both sides of *)
(* the quarter and of the hour and may arrive in any order.                *)
(***************************************************************************)
EXTENDS SwingPath

CONSTANTS A, B, C

Tick(k, p, v, t) == [ticker |-> k, price |-> p, volume |-> v, timestamp_ms |-> t]

MCTicks == {Tick(A, 1, 1, 14), Tick(A, 3, 2, 15), Tick(A, 2, 1, 59),
            Tick(A, 4, 1, 60), Tick(A, 2, 5, 130), Tick(B, 1, 1, 10),
            Tick(C, 1, 1, 10)}

=============================================================================
