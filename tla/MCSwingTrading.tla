--------------------------- MODULE MCSwingTrading ---------------------------
(***************************************************************************)
(* A quarter and an hour that close together at minute 60, as the candles  *)
(* of SwingPath do, then the quarter that closes at minute 75.  With one   *)
(* redelivery an answer is read twice; the TTL passes within the clock's   *)
(* bound.                                                                  *)
(***************************************************************************)
EXTENDS SwingTrading

MCBars == <<[close_time |-> 60, window |-> 15],
            [close_time |-> 60, window |-> 60],
            [close_time |-> 75, window |-> 15]>>

=============================================================================
