------------------------------ MODULE Scalping ------------------------------
(***************************************************************************)
(* The scalping path of the trading engine: the drain thread of            *)
(* TickAggregator with the rolling statistics of each ticker               *)
(* (aggregation/zscore_calculator.hpp), the signals it emits and their     *)
(* way over the event bus to ScalpingHandler (events/scalping_handler.hpp).*)
(*                                                                         *)
(* The doubles of ZScoreCalculator are kept as exact integers: n * mean_   *)
(* as the sum, n * m2_ as the deviation, n being the samples in the        *)
(* window; a z-score is compared with a threshold in its squared form.     *)
(* Rounding is left out.  The age of a signal and the price at which a     *)
(* position is looked at are any.                                          *)
(***************************************************************************)
EXTENDS Integers, SequencesExt

CONSTANTS
    Tickers,
    Window,                    \* the template argument of both calculators, above one
    Volumes, Prices,           \* what a tick may carry
    HighZ2, MediumZ2, LowZ2,   \* the z-score thresholds, squared
    HighPct, MediumPct,        \* the price thresholds, in tenths of a percent
    MaxQueue,                  \* bound of the model: signals on the bus
    MaxOrders,                 \* bound of the model: orders of a ticker
    NoEvent                    \* no signal, or no event being handled

VARIABLES
    volumes,    \* buffer_ of the z-score calculator, oldest sample first
    stats,      \* its running mean_ and m2_, as sum and dev
    prices,     \* buffer_ of the price tracker, oldest first
    signal,     \* what the last tick made the drain thread emit
    queue,      \* ScalpingEvents on the bus
    handling,   \* the event on_event() has let through
    positions,  \* tickers in positions_
    orders      \* the orders of each ticker the executor was given

calcVars == <<volumes, stats, prices, signal>>
handlerVars == <<handling, positions, orders>>
vars == <<calcVars, queue, handlerVars>>

-----------------------------------------------------------------------------
(* ZScoreCalculator and PriceChangeTracker.                                *)

\* A ring buffer, oldest first, after one more sample.
Pushed(buffer, x) == IF Len(buffer) < Window THEN Append(buffer, x) ELSE Append(Tail(buffer), x)

\* The forward step, while the window fills: delta is taken to the old mean and
\* delta2 to the new one.
ForwardStep(s, n, v) ==
    [sum |-> s.sum + v,
     dev |-> IF n = 0 THEN 0 ELSE ((n + 1) * s.dev + (n * v - s.sum) * (n * v - s.sum)) \div n]

\* Mutant: the old mean is used for both samples.
ReverseStepOldMean(s, old, v) ==
    [sum |-> s.sum + v - old,
     dev |-> s.dev + (v - old) * ((Window * v - s.sum) + (Window * old - s.sum))]

\* The reverse step, once it is full: the new sample replaces the oldest one.
ReverseStep(s, old, v) ==
    LET sum == s.sum + v - old
    IN [sum |-> sum,
        dev |-> s.dev + (v - old) * ((Window * v - sum) + (Window * old - s.sum))]

\* push() of ZScoreCalculator, up to the score.
PushVolume(t, v) ==
    /\ stats' = [stats EXCEPT ![t] = IF Len(volumes[t]) < Window THEN ForwardStep(@, Len(volumes[t]), v)
                                     ELSE ReverseStep(@, Head(volumes[t]), v)]
    /\ volumes' = [volumes EXCEPT ![t] = Pushed(@, v)]

\* The score that push() returns for the sample v is at least the root of z2.  No
\* spread gives the score 0.
ScoreAtLeast(s, n, v, z2) ==
    LET above == n * v - s.sum
    IN s.dev > 0 /\ above >= 0 /\ above * above * (n - 1) >= z2 * n * s.dev

\* |push()| of PriceChangeTracker is at least pct: the change from the price that
\* leaves the window, none before the ring has come round.
ChangeAtLeast(t, p, pct) ==
    /\ Len(prices[t]) = Window
    /\ LET oldest == Head(prices[t])
           change == IF p < oldest THEN oldest - p ELSE p - oldest
       IN oldest > 0 /\ 1000 * change >= pct * oldest

-----------------------------------------------------------------------------
(* The drain thread: scalping_drain_loop() and the callback of main().     *)

\* What the tick is worth once its volume is in the window.
Severity(t, v, p) ==
    LET scored(z2) == ScoreAtLeast(stats'[t], Window, v, z2)
    IN CASE Len(volumes'[t]) < Window                      -> "none"   \* not warmed_up()
         [] scored(HighZ2) /\ ChangeAtLeast(t, p, HighPct) -> "HIGH"
         [] scored(MediumZ2) /\ ChangeAtLeast(t, p, MediumPct) -> "MEDIUM"
         [] scored(LowZ2)                                  -> "LOW"
         [] OTHER                                          -> "none"

\* One tick off the queue.  Alerts go to Kafka, where the engine does not read
\* them; a HIGH one goes on the bus too.
Drain(t, v, p) ==
    /\ PushVolume(t, v)
    /\ prices' = [prices EXCEPT ![t] = Pushed(@, p)]
    /\ signal' = [ticker |-> t, severity |-> Severity(t, v, p)]
    /\ \/ signal'.severity # "HIGH" /\ UNCHANGED queue
       \/ signal'.severity = "HIGH" /\ Len(queue) < MaxQueue /\ queue' = Append(queue, t)
    /\ UNCHANGED handlerVars

-----------------------------------------------------------------------------
(* ScalpingHandler.                                                        *)

\* Mutant: a second signal is let through while the ticker is held.
HoldsNothing(t) == FALSE

Holds(t) == t \in positions

\* on_event() up to the end of its first critical section: stale signals and
\* tickers in a position are dropped.
TakeEvent ==
    /\ handling = NoEvent /\ queue # <<>>
    /\ queue' = Tail(queue)
    /\ handling' \in IF Holds(Head(queue)) THEN {NoEvent} ELSE {NoEvent, Head(queue)}
    /\ UNCHANGED <<calcVars, positions, orders>>

\* The executor, called without the lock, rejects the order ...
BuyRejected ==
    /\ handling \in Tickers
    /\ handling' = NoEvent
    /\ UNCHANGED <<calcVars, queue, positions, orders>>

\* ... or takes it ...
BuyAccepted ==
    LET t == handling
    IN /\ t \in Tickers /\ Len(orders[t]) < MaxOrders
       /\ orders' = [orders EXCEPT ![t] = Append(@, "buy")]
       /\ handling' = [bought |-> t]
       /\ UNCHANGED <<calcVars, queue, positions>>

\* ... and the position is entered under the lock.
RecordPosition ==
    /\ handling \in [bought : Tickers]
    /\ positions' = positions \cup {handling.bought}
    /\ handling' = NoEvent
    /\ UNCHANGED <<calcVars, queue, orders>>

\* check_exit() of any thread, at a price or a time that ends the position: the
\* answer of the executor is not looked at.
CheckExit(t) ==
    /\ t \in positions /\ Len(orders[t]) < MaxOrders
    /\ \E exit \in {"sell", "unsold"} : orders' = [orders EXCEPT ![t] = Append(@, exit)]
    /\ positions' = positions \ {t}
    /\ UNCHANGED <<calcVars, queue, handling>>

-----------------------------------------------------------------------------
Init ==
    /\ volumes = [t \in Tickers |-> <<>>]
    /\ stats = [t \in Tickers |-> [sum |-> 0, dev |-> 0]]
    /\ prices = [t \in Tickers |-> <<>>]
    /\ signal = NoEvent
    /\ queue = <<>>
    /\ handling = NoEvent
    /\ positions = {}
    /\ orders = [t \in Tickers |-> <<>>]

Next ==
    \/ \E t \in Tickers, v \in Volumes, p \in Prices : Drain(t, v, p)
    \/ TakeEvent \/ BuyRejected \/ BuyAccepted \/ RecordPosition
    \/ \E t \in Tickers : CheckExit(t)

Spec == Init /\ [][Next]_vars

-----------------------------------------------------------------------------
(* Properties.                                                             *)

Total(s) == FoldLeft(LAMBDA a, x : a + x, 0, s)
TotalOfSquares(s) == FoldLeft(LAMBDA a, x : a + x * x, 0, s)

\* The running mean and deviation, carried from sample to sample, are those of the
\* volumes in the window, through warm-up and any number of replaced samples: no
\* replaced sample leaves a trace.
StatsAreTheWindows ==
    \A t \in Tickers :
        LET w == volumes[t]
        IN stats[t] = [sum |-> Total(w), dev |-> Len(w) * TotalOfSquares(w) - Total(w) * Total(w)]

\* A ticker is bought and asked to be sold in turns, whatever signals queue up and
\* whenever another thread looks at the exit while the executor is called; and
\* between two events positions_ says which of the two comes next.
OrdersAlternate ==
    \A t \in Tickers :
        /\ \A i \in 1 .. Len(orders[t]) : orders[t][i] = "buy" <=> i % 2 = 1
        /\ handling # [bought |-> t] => (t \in positions <=> Len(orders[t]) % 2 = 1)

=============================================================================
