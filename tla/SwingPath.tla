----------------------------- MODULE SwingPath -----------------------------
(***************************************************************************)
(* The swing path of trading::TickAggregator                               *)
(* (trading-engine/src/aggregation/tick_aggregator.hpp) with the Candle it *)
(* keeps (candle.hpp): consumer threads look up or create the state object *)
(* of a ticker, lock it and fold the tick into a 15-minute and a 1-hour    *)
(* candle, emitting a candle when the first tick beyond its window comes.  *)
(*                                                                         *)
(* Timestamps are in minutes, the unit of window_minutes (the code keeps   *)
(* them in milliseconds).  They are inputs: ticks may come out of order.   *)
(***************************************************************************)
EXTENDS Integers, Sequences

CONSTANTS Threads,      \* Kafka consumer threads that call push_tick()
          States,       \* the SwingTickerState objects of state_pool_
          Ticks,        \* the ticks a thread may receive
          ShortWindow,  \* 15
          LongWindow,   \* 60
          MaxTicks,     \* bound: ticks received over all threads
          NoState,      \* a null SwingTickerState*
          NoThread      \* an unlocked mutex

Tickers == {t.ticker : t \in Ticks}

\* Several short windows make up a long one: four quarters, one hour.
ASSUME WindowAssumption ==
    /\ ShortWindow \in Nat \ {0}
    /\ LongWindow \in Nat \ {0}
    /\ \E n \in 2 .. LongWindow : LongWindow = n * ShortWindow

ASSUME TickAssumption ==
    /\ Ticks # {}
    /\ \A t \in Ticks : t.timestamp_ms \in Nat /\ t.price \in Int /\ t.volume \in Int
    /\ MaxTicks \in Nat
    /\ NoState \notin States
    /\ NoThread \notin Threads

VARIABLES
    registry,       \* registry_: ticker -> state object
    pool,           \* the objects of state_pool_ not yet acquired
    quarter,        \* state -> candle_15m, NoCandle while active_15m is false
    hour,           \* state -> candle_1h, NoCandle while active_1h is false
    mtx,            \* state -> the thread that holds state->mtx
    pc,             \* where each thread is inside update_swing_state()
    tick,           \* its argument
    received,       \* ticks received so far
    emitted,        \* history: ticker -> the candles emitted for it
    dropped         \* history: the tickers a tick was dropped for

candleVars == <<quarter, hour, mtx, emitted>>
registryVars == <<registry, pool, dropped>>
vars == <<candleVars, registryVars, pc, tick, received>>

NoCandle == <<>>

-----------------------------------------------------------------------------
(***************************************************************************)
(* struct Candle                                                           *)
(***************************************************************************)
\* The window of length w that contains the instant t.
OpenTime(t, w) == (t \div w) * w

\* Candle::reset
Reset(t, w) ==
    [ticker |-> t.ticker,
     open |-> t.price, high |-> t.price, low |-> t.price, close |-> t.price,
     volume |-> t.volume, tick_count |-> 1, window_minutes |-> w,
     open_time_ms |-> OpenTime(t.timestamp_ms, w),
     close_time_ms |-> OpenTime(t.timestamp_ms, w) + w]

\* Mutant: the volume of the last tick only.
UpdateLastVolume(c, t) ==
    [c EXCEPT !.high = IF t.price > @ THEN t.price ELSE @,
              !.low = IF t.price < @ THEN t.price ELSE @,
              !.close = t.price,
              !.volume = t.volume,
              !.tick_count = @ + 1]

\* Candle::update
Update(c, t) ==
    [c EXCEPT !.high = IF t.price > @ THEN t.price ELSE @,
              !.low = IF t.price < @ THEN t.price ELSE @,
              !.close = t.price,
              !.volume = @ + t.volume,
              !.tick_count = @ + 1]

\* Mutant: a tick of an earlier window ends the candle as well.
IsExpiredOtherWindow(c, t) == OpenTime(t.timestamp_ms, c.window_minutes) # c.open_time_ms

\* Candle::is_expired
IsExpired(c, t) == t.timestamp_ms >= c.close_time_ms

\* One of the two halves of update_swing_state(): the candle after tick t, ...
Fold(c, t, w) == IF c = NoCandle \/ IsExpired(c, t) THEN Reset(t, w) ELSE Update(c, t)

\* ... and the candles it hands to emit_swing_candle().
Closed(c, t) == IF c # NoCandle /\ IsExpired(c, t) THEN <<c>> ELSE <<>>

-----------------------------------------------------------------------------
Init ==
    /\ registry = [k \in Tickers |-> NoState]
    /\ pool = States
    /\ quarter = [s \in States |-> NoCandle]
    /\ hour = [s \in States |-> NoCandle]
    /\ mtx = [s \in States |-> NoThread]
    /\ pc = [th \in Threads |-> "idle"]
    /\ tick = [th \in Threads |-> CHOOSE t \in Ticks : TRUE]
    /\ received = 0
    /\ emitted = [k \in Tickers |-> <<>>]
    /\ dropped = {}

\* push_tick() reaches the swing path and looks the ticker up under the shared lock.
Lookup(th, t) ==
    /\ pc[th] = "idle"
    /\ received < MaxTicks
    /\ received' = received + 1
    /\ tick' = [tick EXCEPT ![th] = t]
    /\ pc' = [pc EXCEPT ![th] = IF registry[t.ticker] = NoState THEN "create" ELSE "update"]
    /\ UNCHANGED <<candleVars, registryVars>>

\* The second half of get_or_create_state(), under the unique lock: another
\* thread may have registered the ticker since the shared lock was released.
CreateFound(th) ==
    /\ pc[th] = "create"
    /\ registry[tick[th].ticker] # NoState
    /\ pc' = [pc EXCEPT ![th] = "update"]
    /\ UNCHANGED <<candleVars, registryVars, tick, received>>

\* Mutant: no second look at the registry under the unique lock.
CreateNewUnchecked(th) ==
    /\ pc[th] = "create"
    /\ \E s \in pool :
          /\ pool' = pool \ {s}
          /\ registry' = [registry EXCEPT ![tick[th].ticker] = s]
          /\ quarter' = [quarter EXCEPT ![s] = NoCandle]
          /\ hour' = [hour EXCEPT ![s] = NoCandle]
    /\ pc' = [pc EXCEPT ![th] = "update"]
    /\ UNCHANGED <<mtx, emitted, dropped, tick, received>>

CreateNew(th) ==
    /\ pc[th] = "create"
    /\ registry[tick[th].ticker] = NoState
    /\ \E s \in pool :
          /\ pool' = pool \ {s}
          /\ registry' = [registry EXCEPT ![tick[th].ticker] = s]
          /\ quarter' = [quarter EXCEPT ![s] = NoCandle]
          /\ hour' = [hour EXCEPT ![s] = NoCandle]
    /\ pc' = [pc EXCEPT ![th] = "update"]
    /\ UNCHANGED <<mtx, emitted, dropped, tick, received>>

\* Mutant: the pool is asked before the registry is looked at again.
CreateFailsUnchecked(th) ==
    /\ pc[th] = "create"
    /\ pool = {}
    /\ dropped' = dropped \cup {tick[th].ticker}
    /\ pc' = [pc EXCEPT ![th] = "idle"]
    /\ UNCHANGED <<candleVars, registry, pool, tick, received>>

\* The pool is exhausted: the tick is dropped.
CreateFails(th) ==
    /\ pc[th] = "create"
    /\ registry[tick[th].ticker] = NoState
    /\ pool = {}
    /\ dropped' = dropped \cup {tick[th].ticker}
    /\ pc' = [pc EXCEPT ![th] = "idle"]
    /\ UNCHANGED <<candleVars, registry, pool, tick, received>>

\* Mutant: state->mtx is not taken.
UpdateQuarterUnlocked(th) ==
    LET t == tick[th]
        s == registry[t.ticker] IN
    /\ pc[th] = "update"
    /\ quarter' = [quarter EXCEPT ![s] = Fold(@, t, ShortWindow)]
    /\ emitted' = [emitted EXCEPT ![t.ticker] = @ \o Closed(quarter[s], t)]
    /\ pc' = [pc EXCEPT ![th] = "hour"]
    /\ UNCHANGED <<mtx, hour, registryVars, tick, received>>

\* update_swing_state() locks the state and treats the 15-minute candle ...
UpdateQuarter(th) ==
    LET t == tick[th]
        s == registry[t.ticker] IN
    /\ pc[th] = "update"
    /\ mtx[s] = NoThread
    /\ mtx' = [mtx EXCEPT ![s] = th]
    /\ quarter' = [quarter EXCEPT ![s] = Fold(@, t, ShortWindow)]
    /\ emitted' = [emitted EXCEPT ![t.ticker] = @ \o Closed(quarter[s], t)]
    /\ pc' = [pc EXCEPT ![th] = "hour"]
    /\ UNCHANGED <<hour, registryVars, tick, received>>

\* ... then the 1-hour candle, and unlocks.
UpdateHour(th) ==
    LET t == tick[th]
        s == registry[t.ticker] IN
    /\ pc[th] = "hour"
    /\ hour' = [hour EXCEPT ![s] = Fold(@, t, LongWindow)]
    /\ emitted' = [emitted EXCEPT ![t.ticker] = @ \o Closed(hour[s], t)]
    /\ mtx' = [mtx EXCEPT ![s] = NoThread]
    /\ pc' = [pc EXCEPT ![th] = "idle"]
    /\ UNCHANGED <<quarter, registryVars, tick, received>>

Step(th) ==
    \/ \E t \in Ticks : Lookup(th, t)
    \/ CreateFound(th)
    \/ CreateNew(th)
    \/ CreateFails(th)
    \/ UpdateQuarter(th)
    \/ UpdateHour(th)

\* The bound is reached and every thread has finished: the run may end here.
Terminating ==
    /\ received = MaxTicks
    /\ \A th \in Threads : pc[th] = "idle"
    /\ UNCHANGED vars

Next == (\E th \in Threads : Step(th)) \/ Terminating

Spec == Init /\ [][Next]_vars

-----------------------------------------------------------------------------
Candles == [ticker : Tickers, open : Int, high : Int, low : Int, close : Int,
            volume : Int, tick_count : Nat, window_minutes : {ShortWindow, LongWindow},
            open_time_ms : Nat, close_time_ms : Nat]

TypeOK ==
    /\ registry \in [Tickers -> States \cup {NoState}]
    /\ pool \subseteq States
    /\ quarter \in [States -> Candles \cup {NoCandle}]
    /\ hour \in [States -> Candles \cup {NoCandle}]
    /\ mtx \in [States -> Threads \cup {NoThread}]
    /\ pc \in [Threads -> {"idle", "create", "update", "hour"}]
    /\ tick \in [Threads -> Ticks]
    /\ received \in 0 .. MaxTicks
    /\ emitted \in [Tickers -> Seq(Candles)]
    /\ dropped \subseteq Tickers

\* A state object serves one ticker for ever, and only ticks of that ticker reach
\* its candles; an acquired object is never lost although two threads may find
\* the same ticker missing under the shared lock (tick_aggregator.hpp:192-203).
StateOwnership ==
    /\ \A k \in Tickers : registry[k] # NoState =>
          /\ registry[k] \notin pool
          /\ \A j \in Tickers : registry[j] = registry[k] => j = k
          /\ quarter[registry[k]] # NoCandle => quarter[registry[k]].ticker = k
          /\ hour[registry[k]] # NoCandle => hour[registry[k]].ticker = k
    /\ \A s \in States : s \in pool \/ \E k \in Tickers : registry[k] = s

\* "pool exhausted - drop" befalls only tickers that never get a state: once a
\* ticker is registered none of its ticks is dropped, also not by a thread that
\* missed it under the shared lock.
DroppedNeverRegistered ==
    \A k \in dropped : registry[k] = NoState /\ pool = {}

\* Candle c lies inside candle d.
Inside(c, d) == /\ d.open_time_ms <= c.open_time_ms
                /\ c.close_time_ms <= d.close_time_ms

InOrder(e) ==
    \A j \in 1 .. Len(e) : \A i \in 1 .. j - 1 :
        e[i].window_minutes = e[j].window_minutes => e[i].close_time_ms <= e[j].open_time_ms

\* The candles of one window length are emitted in time order and never overlap,
\* also when ticks arrive late or two threads bring ticks of one ticker.
EmissionOrder == \A k \in Tickers : InOrder(emitted[k])

HoursFollow(e) ==
    \A j \in 1 .. Len(e) : e[j].window_minutes = LongWindow =>
        /\ j > 1
        /\ e[j - 1].window_minutes = ShortWindow
        /\ Inside(e[j - 1], e[j])

\* The tick that closes the hour has closed the last quarter of that hour just
\* before: a 1-hour candle directly follows a 15-minute candle inside it.
HourFollowsQuarter == \A k \in Tickers : HoursFollow(emitted[k])

\* The candle over the windows of two consecutive candles.
Merge(c, d) ==
    [c EXCEPT !.high = IF d.high > @ THEN d.high ELSE @,
              !.low = IF d.low < @ THEN d.low ELSE @,
              !.close = d.close,
              !.volume = @ + d.volume,
              !.tick_count = @ + d.tick_count]

\* The candles of e from the one after i on, put together one by one.
MergedFrom(e, i) ==
    LET m[n \in i + 1 .. Len(e)] == IF n = i + 1 THEN e[n] ELSE Merge(m[n - 1], e[n])
    IN  m

\* The prices, volume and tick count of a candle.
Ohlcv(c) == <<c.open, c.high, c.low, c.close, c.volume, c.tick_count>>

\* i is where the candles before the j-th begin that follow the hour before.
AfterHour(e, i, j) ==
    /\ i = 0 \/ e[i].window_minutes = LongWindow
    /\ \A n \in i + 1 .. j - 1 : e[n].window_minutes # LongWindow

HoursAreQuarters(e) ==
    \A j \in 1 .. Len(e) : e[j].window_minutes = LongWindow =>
        \E i \in 0 .. j - 2 :
            AfterHour(e, i, j) /\ Ohlcv(MergedFrom(e, i)[j - 1]) = Ohlcv(e[j])

\* An emitted hour is exactly its quarters put together: no tick is counted in
\* one and missed in the other, although the two candles of a state expire
\* independently and the two updates are separate.
HourIsItsQuarters == \A k \in Tickers : HoursAreQuarters(emitted[k])

-----------------------------------------------------------------------------
(***************************************************************************)
(* The inductive invariant                                                 *)
(***************************************************************************)
\* A thread holds the mutex of a state exactly between the two halves of its
\* update, and updates registered states only.
LockInv ==
    /\ \A th \in Threads :
          /\ pc[th] \in {"update", "hour"} => registry[tick[th].ticker] # NoState
          /\ pc[th] = "hour" => mtx[registry[tick[th].ticker]] = th
    /\ \A s \in States : mtx[s] # NoThread =>
          pc[mtx[s]] = "hour" /\ registry[tick[mtx[s]].ticker] = s

\* Candle c of window length w covers exactly one window.
Aligned(c, w) == /\ c.window_minutes = w
                 /\ c.open_time_ms = OpenTime(c.open_time_ms, w)
                 /\ c.close_time_ms = c.open_time_ms + w

\* Candle c, of window length w, is younger than all candles of that length in e.
Newest(c, w, e) ==
    /\ c # NoCandle => Aligned(c, w)
    /\ \A i \in 1 .. Len(e) : e[i].window_minutes = w =>
          c # NoCandle /\ e[i].close_time_ms <= c.open_time_ms

\* The two candles of a state that no thread is updating: the current quarter is
\* one of the current hour.
Resting(q, h) == /\ q = NoCandle <=> h = NoCandle
                 /\ q # NoCandle => Inside(q, h)

\* The same between the two halves of the update with tick t: a tick that is to
\* start a new hour has started its first quarter, and closed the old one.
Halfway(q, h, t, e) ==
    /\ q # NoCandle
    /\ h # NoCandle /\ ~IsExpired(h, t) => Inside(q, h)
    /\ h = NoCandle \/ IsExpired(h, t) =>
          /\ q.open_time_ms = OpenTime(t.timestamp_ms, ShortWindow)
          /\ q.close_time_ms = q.open_time_ms + ShortWindow
    /\ h # NoCandle /\ IsExpired(h, t) =>
          /\ Len(e) > 0
          /\ e[Len(e)].window_minutes = ShortWindow
          /\ Inside(e[Len(e)], h)

\* What is true of the candles of ticker k.
CandleInv(k) ==
    LET q == quarter[registry[k]]
        h == hour[registry[k]]
        m == mtx[registry[k]] IN
    /\ registry[k] = NoState => emitted[k] = <<>>
    /\ registry[k] # NoState =>
          /\ Newest(q, ShortWindow, emitted[k])
          /\ Newest(h, LongWindow, emitted[k])
          /\ m = NoThread => Resting(q, h)
          /\ m # NoThread => Halfway(q, h, tick[m], emitted[k])

\* The strengthening of the properties above that every step preserves.
PathInv == /\ TypeOK
           /\ StateOwnership
           /\ LockInv
           /\ \A k \in Tickers : CandleInv(k)
           /\ EmissionOrder
           /\ HourFollowsQuarter

\* The candle of the quarters of e after the i-th candle and of the current one, q.
Together(e, i, q) == IF i = Len(e) THEN q ELSE Merge(MergedFrom(e, i)[Len(e)], q)

\* The current hour h is its quarters so far.
Gathered(q, h, e) ==
    q # NoCandle =>
        \E i \in 0 .. Len(e) : /\ AfterHour(e, i, Len(e) + 1)
                               /\ Ohlcv(h) = Ohlcv(Together(e, i, q))

\* Between the two halves of the update with tick t: h with t added is its quarters
\* so far or, when t starts a new hour, q is t alone and the quarters emitted are h.
Gathering(q, h, t, e) ==
    \E i \in 0 .. Len(e) :
        /\ AfterHour(e, i, Len(e) + 1)
        /\ h # NoCandle /\ ~IsExpired(h, t) =>
              Ohlcv(Update(h, t)) = Ohlcv(Together(e, i, q))
        /\ h = NoCandle \/ IsExpired(h, t) => Ohlcv(q) = Ohlcv(Reset(t, LongWindow))
        /\ h = NoCandle => i = Len(e)
        /\ h # NoCandle /\ IsExpired(h, t) =>
              i < Len(e) /\ Ohlcv(MergedFrom(e, i)[Len(e)]) = Ohlcv(h)

\* What is true of the prices, volumes and tick counts of ticker k.
GatherInv(k) ==
    LET q == quarter[registry[k]]
        h == hour[registry[k]]
        m == mtx[registry[k]] IN
    /\ HoursAreQuarters(emitted[k])
    /\ registry[k] # NoState =>
          /\ m = NoThread => Gathered(q, h, emitted[k])
          /\ m # NoThread => Gathering(q, h, tick[m], emitted[k])

\* The whole of it, with what makes an hour the sum of its quarters.
SwingInv == PathInv /\ \A k \in Tickers : GatherInv(k)

=============================================================================
