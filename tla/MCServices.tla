----------------------------- MODULE MCServices -----------------------------
(***************************************************************************)
(* Swing trading: a quarter and an hour that close together at minute 60,  *)
(* as the candles of SwingPath do, then the quarter that closes at minute  *)
(* 75.  With one redelivery an answer is read twice; the TTL passes within *)
(* the clock's bound.  Scalping: one ticker with a window of four samples, *)
(* in which all severities occur, and two signals on the bus.  The feed:   *)
(* two users, who may share an app key, two calls at a time, two sessions  *)
(* and a restart.  The streams: two users, three streams, two listeners.   *)
(***************************************************************************)
EXTENDS Services

MCBars == <<[close_time |-> 60, window |-> 15],
            [close_time |-> 60, window |-> 60],
            [close_time |-> 75, window |-> 15]>>

=============================================================================
