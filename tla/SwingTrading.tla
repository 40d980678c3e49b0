---------------------------- MODULE SwingTrading ----------------------------
(***************************************************************************)
(* How a closed candle becomes an order, for one ticker: the aggregator's  *)
(* callback publishes the bar to Kafka and then to the event bus           *)
(* (main.cpp:178-192), the AI service scores the bar and answers on        *)
(* "ai-signals" (ai-signal-service/src/main.py), the AI consumer puts the  *)
(* answer on the bus (main.cpp:235-260), and trading::SwingHandler         *)
(* (events/swing_handler.hpp) handles the bus events one at a time.        *)
(*                                                                         *)
(* The handler's states_ is keyed by ticker and every access is under      *)
(* states_mtx_, so one ticker shows all there is.  Kafka delivers at least *)
(* once: both consumers commit offsets once a second, so after a rebalance *)
(* or a restart of the AI service messages are read again.                 *)
(***************************************************************************)
EXTENDS Naturals, Sequences

CONSTANTS Bars,             \* the closed bars in emission order: close_time, window
          ArmedTTL,         \* kArmedTTLMs
          MaxTime,          \* bound: the clock
          MaxRedeliveries   \* bound: messages read again

ASSUME BarAssumption ==
    /\ Bars \in Seq([close_time : Nat, window : Nat])
    /\ ArmedTTL \in Nat
    /\ MaxTime \in Nat
    /\ MaxRedeliveries \in Nat

VARIABLES
    clock,          \* now_epoch_ms()
    closed,         \* bars whose aggregator callback has started
    callback,       \* the callback is between publish_candle() and bus.publish()
    candles,        \* topic candle-data: indices of Bars
    aiPos,          \* the AI service's offset in it
    signals,        \* topic ai-signals: the answers
    sigPos,         \* the engine's offset in it
    redelivered,    \* messages read again so far
    queue,          \* the swing queue of the event bus
    ts,             \* the handler's TickerState
    armings,        \* history: how often, and by which bar, the ticker was armed
    armedBar,
    seen,           \* history: the newest bar on_candle_closed() was called with
    orders,         \* history: the accepted buys and the exit orders, each of
                    \* these sold or, when the executor rejects it, unsold
    entries         \* history: the accepted buys, each with what led to it

feedVars == <<closed, callback, candles>>
aiVars == <<aiPos, signals, sigPos, redelivered>>
handlerVars == <<ts, armings, armedBar, seen, orders, entries>>
vars == <<clock, feedVars, aiVars, queue, handlerVars>>

NoBar == 0

\* What becomes of an exit order.
Exits == {"sell", "unsold"}

\* A TickerState as states_[ticker] default-constructs it.
Fresh == [known |-> FALSE, state |-> "Idle", armed_at |-> 0, close_time |-> 0,
          in_position |-> FALSE]

Init ==
    /\ clock = 0
    /\ closed = 0
    /\ callback = FALSE
    /\ candles = <<>>
    /\ aiPos = 0
    /\ signals = <<>>
    /\ sigPos = 0
    /\ redelivered = 0
    /\ queue = <<>>
    /\ ts = Fresh
    /\ armings = 0
    /\ armedBar = NoBar
    /\ seen = NoBar
    /\ orders = <<>>
    /\ entries = <<>>

-----------------------------------------------------------------------------
(***************************************************************************)
(* The aggregator's callback, on the market consumer thread                *)
(***************************************************************************)
\* publish_candle(): the bar goes to candle-data, or is dropped when no message
\* buffer is free or the producer refuses it; the callback goes on either way.
PublishCandle ==
    /\ ~callback
    /\ closed < Len(Bars)
    /\ closed' = closed + 1
    /\ callback' = TRUE
    /\ candles' \in {Append(candles, closed + 1), candles}
    /\ UNCHANGED <<clock, aiVars, queue, handlerVars>>

\* bus.publish(CandleClosed)
PublishClosed ==
    /\ callback
    /\ callback' = FALSE
    /\ queue' = Append(queue, [kind |-> "CandleClosed", bar |-> closed])
    /\ UNCHANGED <<clock, closed, candles, aiVars, handlerVars>>

-----------------------------------------------------------------------------
(***************************************************************************)
(* The AI service and the AI consumer thread                               *)
(***************************************************************************)
\* The service reads the next candle and answers, with a strong or a weak score,
\* or says nothing (buffer too short, scoring failed).  The answer carries the
\* close time of the bar, not its window.
Score ==
    /\ aiPos < Len(candles)
    /\ aiPos' = aiPos + 1
    /\ \/ \E strong \in BOOLEAN :
            signals' = Append(signals, [bar |-> candles[aiPos + 1], strong |-> strong])
       \/ UNCHANGED signals
    /\ UNCHANGED <<clock, feedVars, sigPos, redelivered, queue, handlerVars>>

\* The engine reads the next answer and puts it on the bus.
PublishAnswer ==
    /\ sigPos < Len(signals)
    /\ sigPos' = sigPos + 1
    /\ queue' = Append(queue, [kind |-> "AIConfirmed", bar |-> signals[sigPos + 1].bar,
                               strong |-> signals[sigPos + 1].strong])
    /\ UNCHANGED <<clock, feedVars, aiPos, signals, redelivered, handlerVars>>

\* One of the two consumers goes back to its last committed offset.
Redeliver ==
    /\ redelivered < MaxRedeliveries
    /\ redelivered' = redelivered + 1
    /\ \/ aiPos > 0 /\ aiPos' = aiPos - 1 /\ UNCHANGED sigPos
       \/ sigPos > 0 /\ sigPos' = sigPos - 1 /\ UNCHANGED aiPos
    /\ UNCHANGED <<clock, feedVars, signals, queue, handlerVars>>

-----------------------------------------------------------------------------
(***************************************************************************)
(* SwingHandler, called by the swing dispatch thread                       *)
(***************************************************************************)
\* on_candle_closed()
OnCandleClosed(b) ==
    /\ seen' = b
    /\ \/ /\ ts.in_position
          /\ UNCHANGED <<ts, armings, armedBar>>
       \/ /\ ~ts.in_position
          /\ ts' = [ts EXCEPT !.known = TRUE, !.state = "Armed", !.armed_at = clock,
                              !.close_time = Bars[b].close_time]
          /\ armings' = armings + 1
          /\ armedBar' = b
    /\ UNCHANGED <<orders, entries>>

\* Mutant: the answer's close time is not compared.
DiscardsAnyBar(b) == ~ts.known \/ ts.state # "Armed" \/ ts.in_position

\* The guards of on_ai_confirmed() that discard the event and leave the state alone.
Discards(b) == \/ ~ts.known
               \/ ts.state # "Armed"
               \/ ts.in_position
               \/ Bars[b].close_time # ts.close_time

\* The armed window has expired.
TTLPassed == clock - ts.armed_at > ArmedTTL

\* Mutant: the position is not recorded.
OnAIConfirmedNoPosition(b, strong) ==
    \/ Discards(b) /\ UNCHANGED handlerVars
    \/ /\ ~Discards(b) /\ strong
       /\ ts' = [ts EXCEPT !.state = "Idle"]
       /\ orders' = Append(orders, "buy")
       /\ entries' = Append(entries, [bar |-> b, arming |-> armings,
                                      armedBar |-> armedBar, seen |-> seen])
       /\ UNCHANGED <<armings, armedBar, seen>>

\* Mutant: the ticker stays armed after the entry.
OnAIConfirmedStaysArmed(b, strong) ==
    \/ Discards(b) /\ UNCHANGED handlerVars
    \/ /\ ~Discards(b) /\ strong
       /\ ts' = [ts EXCEPT !.in_position = TRUE]
       /\ orders' = Append(orders, "buy")
       /\ entries' = Append(entries, [bar |-> b, arming |-> armings,
                                      armedBar |-> armedBar, seen |-> seen])
       /\ UNCHANGED <<armings, armedBar, seen>>

\* on_ai_confirmed(): the executor may reject the order, and the ticker then
\* stays armed.
OnAIConfirmed(b, strong) ==
    \/ Discards(b) /\ UNCHANGED handlerVars
    \/ /\ ~Discards(b)
       /\ TTLPassed \/ ~strong
       /\ ts' = [ts EXCEPT !.state = "Idle"]
       /\ UNCHANGED <<armings, armedBar, seen, orders, entries>>
    \/ /\ ~Discards(b)
       /\ ~TTLPassed
       /\ strong
       /\ \/ UNCHANGED handlerVars
          \/ /\ ts' = [ts EXCEPT !.state = "Idle", !.in_position = TRUE]
             /\ orders' = Append(orders, "buy")
             /\ entries' = Append(entries, [bar |-> b, arming |-> armings,
                                            armedBar |-> armedBar, seen |-> seen])
             /\ UNCHANGED <<armings, armedBar, seen>>

\* on_event(), for the event at the head of the queue.
OnEvent ==
    /\ queue # <<>>
    /\ queue' = Tail(queue)
    /\ \/ /\ Head(queue).kind = "CandleClosed"
          /\ OnCandleClosed(Head(queue).bar)
       \/ /\ Head(queue).kind = "AIConfirmed"
          /\ OnAIConfirmed(Head(queue).bar, Head(queue).strong)
    /\ UNCHANGED <<clock, feedVars, aiVars>>

\* on_ttl_expired(), the handler of SwingState::TTLExpired.
OnTTLExpired ==
    /\ ts.known
    /\ ts' = [ts EXCEPT !.state = "Idle"]
    /\ UNCHANGED <<clock, feedVars, aiVars, queue, armings, armedBar, seen, orders, entries>>

\* check_exit() with a price at the stop or at the target: the sell order goes out,
\* the executor takes or rejects it, and the handler looks at neither answer: the
\* position counts as closed.
CheckExit ==
    /\ ts.known
    /\ ts.in_position
    /\ ts' = [ts EXCEPT !.in_position = FALSE]
    /\ \E exit \in Exits : orders' = Append(orders, exit)
    /\ UNCHANGED <<clock, feedVars, aiVars, queue, armings, armedBar, seen, entries>>

\* Time passes.
Tick ==
    /\ clock < MaxTime
    /\ clock' = clock + 1
    /\ UNCHANGED <<feedVars, aiVars, queue, handlerVars>>

-----------------------------------------------------------------------------
Next == \/ PublishCandle \/ PublishClosed
        \/ Score \/ PublishAnswer \/ Redeliver
        \/ OnEvent \/ OnTTLExpired \/ CheckExit
        \/ Tick

Spec == Init /\ [][Next]_vars

-----------------------------------------------------------------------------
BarIndices == 1 .. Len(Bars)

Events == [kind : {"CandleClosed"}, bar : BarIndices]
          \cup [kind : {"AIConfirmed"}, bar : BarIndices, strong : BOOLEAN]
Answers == [bar : BarIndices, strong : BOOLEAN]
TickerStates == [known : BOOLEAN, state : {"Idle", "Armed"}, armed_at : 0 .. MaxTime,
                 close_time : Nat, in_position : BOOLEAN]
Sides == {"buy"} \cup Exits
Entries == [bar : BarIndices, arming : Nat,
            armedBar : {NoBar} \cup BarIndices, seen : {NoBar} \cup BarIndices]

TypeOK ==
    /\ clock \in 0 .. MaxTime
    /\ closed \in 0 .. Len(Bars)
    /\ callback \in BOOLEAN
    /\ callback => closed > 0
    /\ candles \in Seq(BarIndices)
    /\ aiPos \in 0 .. Len(candles)
    /\ signals \in Seq(Answers)
    /\ sigPos \in 0 .. Len(signals)
    /\ redelivered \in 0 .. MaxRedeliveries
    /\ queue \in Seq(Events)
    /\ ts \in TickerStates
    /\ armings \in Nat
    /\ armedBar \in {NoBar} \cup BarIndices
    /\ seen \in {NoBar} \cup BarIndices
    /\ orders \in Seq(Sides)
    /\ entries \in Seq(Entries)

\* One exit order between any two accepted buys, and in_position says which comes
\* next: answers that come twice, rejected buys and overlapping exits never enter a
\* ticker again before its exit was asked for, nor ask for it twice.  So a position
\* the handler does not know of is one whose exit the executor rejected.
PositionMatchesOrders ==
    /\ \A i \in 1 .. Len(orders) : orders[i] = "buy" <=> i % 2 = 1
    /\ ts.in_position <=> Len(orders) % 2 = 1

\* A ticker that is armed once is entered at most once: an answer read again
\* after the position was closed does not open it anew.
OneEntryPerArming ==
    \A i, j \in 1 .. Len(entries) : entries[i].arming = entries[j].arming => i = j

\* No entry follows an answer to a bar older than the newest bar the handler has
\* been told of ("discard if AI signal is for a different (older) candle").
NeverAnOlderBar ==
    \A i \in 1 .. Len(entries) :
        LET e == entries[i] IN Bars[e.bar].close_time = Bars[e.seen].close_time

\* The inductive strengthening of the three properties above: a ticker in position
\* is never armed, and an armed ticker is armed by the newest bar, with an arming
\* no entry has used yet.
TradeInv ==
    /\ ts.in_position => ts.state = "Idle"
    /\ ts.state = "Armed" => /\ seen \in BarIndices
                             /\ ts.close_time = Bars[seen].close_time
                             /\ \A i \in 1 .. Len(entries) : entries[i].arming < armings
    /\ \A i \in 1 .. Len(entries) : entries[i].arming <= armings
    /\ PositionMatchesOrders
    /\ OneEntryPerArming
    /\ NeverAnOlderBar

\* "prevents stale AI results from triggering an entry on a different bar": the
\* bar the AI scored is the bar that armed the ticker.
EntryOnItsOwnBar ==
    \A i \in 1 .. Len(entries) : entries[i].bar = entries[i].armedBar

=============================================================================
