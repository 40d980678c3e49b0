-------------------------- MODULE SwingPathProofs --------------------------
(***************************************************************************)
(* Proofs about SwingPath, for any number of threads, state objects and    *)
(* ticks, and any two windows of which the long one is a multiple of the   *)
(* short one.                                                              *)
(***************************************************************************)
EXTENDS SwingPath, FiniteSetTheorems, TLAPS

-----------------------------------------------------------------------------
(***************************************************************************)
(* Arithmetic of the windows                                               *)
(***************************************************************************)
Multiple(a, w) == \E m \in Nat : a = m * w

LEMMA WindowType ==
    /\ ShortWindow \in Nat /\ ShortWindow > 0
    /\ LongWindow \in Nat /\ LongWindow > 0
    /\ ShortWindow # LongWindow
<1>1. ShortWindow \in Nat /\ ShortWindow > 0 /\ LongWindow \in Nat /\ LongWindow > 0
  BY WindowAssumption
<1>2. PICK n \in 2 .. LongWindow : LongWindow = n * ShortWindow
  BY WindowAssumption
<1>3. n * ShortWindow = ShortWindow + (n - 1) * ShortWindow BY <1>1
<1>4. (n - 1) * ShortWindow > 0 BY <1>1
<1>5. QED BY <1>1, <1>2, <1>3, <1>4

\* The start of a window is the last multiple of its length not after t.
LEMMA OpenTimeBounds ==
    ASSUME NEW t \in Nat, NEW w \in Nat, w > 0
    PROVE  /\ OpenTime(t, w) \in Nat
           /\ OpenTime(t, w) <= t
           /\ t < OpenTime(t, w) + w
           /\ Multiple(OpenTime(t, w), w)
<1> DEFINE d == t \div w
<1>1. d \in Int /\ t % w \in 0 .. w - 1 /\ t = w * d + (t % w) OBVIOUS
<1>2. OpenTime(t, w) = d * w BY DEF OpenTime
<1> HIDE DEF d
<1>3. w * d = d * w BY <1>1
<1>4. d >= 0
  <2>1. SUFFICES ASSUME d <= -1 PROVE FALSE BY <1>1
  <2>2. (d + 1) * w <= 0 BY <1>1, <2>1
  <2>3. (d + 1) * w = d * w + w BY <1>1
  <2>4. QED BY <1>1, <1>3, <2>2, <2>3
<1>5. d * w \in Nat BY <1>1, <1>4
<1>6. Multiple(d * w, w) BY <1>1, <1>4 DEF Multiple
<1>7. QED BY <1>1, <1>2, <1>3, <1>5, <1>6

\* A multiple of the window length is before the start of the window of t or
\* after its end.
LEMMA MultipleBelow ==
    ASSUME NEW t \in Nat, NEW w \in Nat, w > 0, NEW a \in Nat, Multiple(a, w), a <= t
    PROVE  a <= OpenTime(t, w)
<1>1. PICK m \in Nat : a = m * w BY DEF Multiple
<1>2. PICK n \in Nat : OpenTime(t, w) = n * w BY OpenTimeBounds DEF Multiple
<1>3. t < n * w + w BY <1>2, OpenTimeBounds
<1>4. SUFFICES ASSUME m >= n + 1 PROVE FALSE
  <2>1. SUFFICES ASSUME m <= n PROVE m * w <= n * w BY <1>1, <1>2
  <2>2. (n - m) * w >= 0 BY <2>1
  <2>3. (n - m) * w = n * w - m * w OBVIOUS
  <2>4. QED BY <2>2, <2>3
<1>5. (m - n - 1) * w >= 0 BY <1>4
<1>6. (m - n - 1) * w = m * w - n * w - w OBVIOUS
<1>7. QED BY <1>1, <1>3, <1>5, <1>6

LEMMA MultipleAbove ==
    ASSUME NEW t \in Nat, NEW w \in Nat, w > 0, NEW a \in Nat, Multiple(a, w), t < a
    PROVE  OpenTime(t, w) + w <= a
<1>1. PICK m \in Nat : a = m * w BY DEF Multiple
<1>2. PICK n \in Nat : OpenTime(t, w) = n * w BY OpenTimeBounds DEF Multiple
<1>3. n * w <= t BY <1>2, OpenTimeBounds
<1>4. m >= n + 1
  <2>1. SUFFICES ASSUME m <= n PROVE FALSE OBVIOUS
  <2>2. (n - m) * w >= 0 BY <2>1
  <2>3. (n - m) * w = n * w - m * w OBVIOUS
  <2>4. QED BY <1>1, <1>3, <2>2, <2>3
<1>5. (m - n - 1) * w >= 0 BY <1>4
<1>6. (m - n - 1) * w = m * w - n * w - w OBVIOUS
<1>7. QED BY <1>1, <1>2, <1>5, <1>6

\* A multiple of the window length starts its own window.
LEMMA MultipleOpens ==
    ASSUME NEW a \in Nat, NEW w \in Nat, w > 0
    PROVE  Multiple(a, w) <=> a = OpenTime(a, w)
<1>1. ASSUME Multiple(a, w) PROVE a = OpenTime(a, w)
  <2>1. a <= a OBVIOUS
  <2>2. a <= OpenTime(a, w) BY <1>1, <2>1, MultipleBelow
  <2>3. OpenTime(a, w) \in Nat /\ OpenTime(a, w) <= a BY OpenTimeBounds
  <2>4. QED BY <2>2, <2>3
<1>2. QED BY <1>1, OpenTimeBounds

LEMMA MultipleNext ==
    ASSUME NEW a \in Nat, NEW w \in Nat, w > 0, Multiple(a, w)
    PROVE  Multiple(a + w, w)
<1>1. PICK m \in Nat : a = m * w BY DEF Multiple
<1>2. a + w = (m + 1) * w BY <1>1
<1>3. QED BY <1>2 DEF Multiple

\* Every hour starts with a quarter.
LEMMA MultipleShort ==
    ASSUME NEW a \in Nat, Multiple(a, LongWindow)
    PROVE  Multiple(a, ShortWindow)
<1>1. PICK m \in Nat : a = m * LongWindow BY DEF Multiple
<1>2. PICK n \in 2 .. LongWindow : LongWindow = n * ShortWindow BY WindowAssumption
<1>3. n \in Nat /\ ShortWindow \in Nat BY WindowType
<1>4. a = (m * n) * ShortWindow BY <1>1, <1>2, <1>3
<1>5. m * n \in Nat BY <1>3
<1>6. QED BY <1>4, <1>5 DEF Multiple


-----------------------------------------------------------------------------
(***************************************************************************)
(* Ticks and candles                                                       *)
(***************************************************************************)
LEMMA TickType ==
    ASSUME NEW t \in Ticks
    PROVE  /\ t.ticker \in Tickers
           /\ t.timestamp_ms \in Nat /\ t.price \in Int /\ t.volume \in Int
BY TickAssumption DEF Tickers

LEMMA CandleType ==
    ASSUME NEW c \in Candles
    PROVE  /\ c.open_time_ms \in Nat /\ c.close_time_ms \in Nat
           /\ c.window_minutes \in {ShortWindow, LongWindow}
BY DEF Candles

LEMMA CandleIsThere == ASSUME NEW c \in Candles PROVE c # NoCandle
<1>1. "open" \in DOMAIN c BY DEF Candles
<1>2. DOMAIN NoCandle = {} BY DEF NoCandle
<1>3. QED BY <1>1, <1>2

LEMMA ResetType ==
    ASSUME NEW t \in Ticks, NEW w \in {ShortWindow, LongWindow}
    PROVE  /\ Reset(t, w) \in Candles
           /\ Reset(t, w).ticker = t.ticker
           /\ Aligned(Reset(t, w), w)
           /\ Reset(t, w).open_time_ms = OpenTime(t.timestamp_ms, w)
           /\ Reset(t, w).close_time_ms = OpenTime(t.timestamp_ms, w) + w
<1> DEFINE o == OpenTime(t.timestamp_ms, w)
<1>1. w \in Nat /\ w > 0 BY WindowType
<1>2. o \in Nat /\ Multiple(o, w) BY <1>1, TickType, OpenTimeBounds
<1>3. o = OpenTime(o, w) BY <1>1, <1>2, MultipleOpens
<1>4. o + w \in Nat BY <1>1, <1>2
<1> HIDE DEF o
<1>5. Reset(t, w) = [ticker |-> t.ticker,
                     open |-> t.price, high |-> t.price, low |-> t.price, close |-> t.price,
                     volume |-> t.volume, tick_count |-> 1, window_minutes |-> w,
                     open_time_ms |-> o, close_time_ms |-> o + w]
  BY DEF Reset, o
<1>6. Reset(t, w) \in Candles BY <1>2, <1>4, <1>5, TickType DEF Candles
<1>7. QED BY <1>3, <1>5, <1>6 DEF Aligned, o

LEMMA UpdateType ==
    ASSUME NEW t \in Ticks, NEW c \in Candles
    PROVE  /\ Update(c, t) \in Candles
           /\ Update(c, t).ticker = c.ticker
           /\ Update(c, t).window_minutes = c.window_minutes
           /\ Update(c, t).open_time_ms = c.open_time_ms
           /\ Update(c, t).close_time_ms = c.close_time_ms
<1> DEFINE hi == IF t.price > c.high THEN t.price ELSE c.high
<1> DEFINE lo == IF t.price < c.low THEN t.price ELSE c.low
<1>1. /\ t.price \in Int /\ t.volume \in Int
  BY TickType
<1>2. /\ c = [ticker |-> c.ticker, open |-> c.open, high |-> c.high, low |-> c.low,
              close |-> c.close, volume |-> c.volume, tick_count |-> c.tick_count,
              window_minutes |-> c.window_minutes, open_time_ms |-> c.open_time_ms,
              close_time_ms |-> c.close_time_ms]
      /\ c.ticker \in Tickers /\ c.open \in Int /\ c.high \in Int /\ c.low \in Int
      /\ c.volume \in Int /\ c.tick_count \in Nat
      /\ c.window_minutes \in {ShortWindow, LongWindow}
      /\ c.open_time_ms \in Nat /\ c.close_time_ms \in Nat
  BY DEF Candles
<1>3. /\ hi \in Int /\ lo \in Int /\ c.volume + t.volume \in Int /\ c.tick_count + 1 \in Nat
  BY <1>1, <1>2
<1>4. Update(c, t) = [c EXCEPT !.high = hi, !.low = lo, !.close = t.price,
                               !.volume = c.volume + t.volume, !.tick_count = c.tick_count + 1]
  BY DEF Update
<1> HIDE DEF hi, lo
<1>5. Update(c, t) = [ticker |-> c.ticker, open |-> c.open, high |-> hi, low |-> lo,
                      close |-> t.price, volume |-> c.volume + t.volume,
                      tick_count |-> c.tick_count + 1,
                      window_minutes |-> c.window_minutes, open_time_ms |-> c.open_time_ms,
                      close_time_ms |-> c.close_time_ms]
  BY <1>2, <1>4
<1>6. Update(c, t) \in Candles BY <1>1, <1>2, <1>3, <1>5 DEF Candles
<1>7. QED BY <1>5, <1>6

\* One half of update_swing_state(): what becomes of the candle of a window.
LEMMA FoldStep ==
    ASSUME NEW t \in Ticks, NEW w \in {ShortWindow, LongWindow},
           NEW c \in Candles \cup {NoCandle}, c # NoCandle => Aligned(c, w)
    PROVE  /\ Fold(c, t, w) \in Candles
           /\ Aligned(Fold(c, t, w), w)
           /\ c = NoCandle \/ c.ticker = t.ticker => Fold(c, t, w).ticker = t.ticker
           /\ c # NoCandle /\ IsExpired(c, t) => c.close_time_ms <= Fold(c, t, w).open_time_ms
           /\ c = NoCandle \/ IsExpired(c, t) => Fold(c, t, w) = Reset(t, w)
           /\ c # NoCandle /\ ~IsExpired(c, t) =>
                 /\ Fold(c, t, w).open_time_ms = c.open_time_ms
                 /\ Fold(c, t, w).close_time_ms = c.close_time_ms
<1>1. CASE c = NoCandle
  BY <1>1, ResetType DEF Fold
<1>2. CASE c # NoCandle /\ ~IsExpired(c, t)
  <2>1. c \in Candles /\ Aligned(c, w) BY <1>2
  <2>2. Fold(c, t, w) = Update(c, t) BY <1>2 DEF Fold
  <2>3. Aligned(Update(c, t), w) BY <2>1, UpdateType DEF Aligned
  <2>4. QED BY <1>2, <2>1, <2>2, <2>3, UpdateType
<1>3. CASE c # NoCandle /\ IsExpired(c, t)
  <2>1. c \in Candles /\ Aligned(c, w) BY <1>3
  <2>2. Fold(c, t, w) = Reset(t, w) BY <1>3 DEF Fold
  <2>3. /\ w \in Nat /\ w > 0 /\ t.timestamp_ms \in Nat
        /\ c.open_time_ms \in Nat /\ c.close_time_ms \in Nat
        /\ c.close_time_ms <= t.timestamp_ms
    BY <1>3, <2>1, WindowType, TickType, CandleType DEF IsExpired
  <2>4. Multiple(c.open_time_ms, w) BY <2>1, <2>3, MultipleOpens DEF Aligned
  <2>5. Multiple(c.close_time_ms, w) BY <2>1, <2>3, <2>4, MultipleNext DEF Aligned
  <2>6. c.close_time_ms <= OpenTime(t.timestamp_ms, w) BY <2>3, <2>5, MultipleBelow
  <2>7. QED BY <1>3, <2>1, <2>2, <2>6, ResetType
<1>4. QED BY <1>1, <1>2, <1>3

\* What the same half emits.
LEMMA ClosedCases ==
    ASSUME NEW t \in Ticks, NEW c \in Candles \cup {NoCandle}, NEW e \in Seq(Candles)
    PROVE  /\ c # NoCandle /\ IsExpired(c, t) => e \o Closed(c, t) = Append(e, c)
           /\ ~(c # NoCandle /\ IsExpired(c, t)) => e \o Closed(c, t) = e
           /\ e \o Closed(c, t) \in Seq(Candles)
<1>1. CASE c # NoCandle /\ IsExpired(c, t)
  <2>1. c \in Candles /\ Closed(c, t) = <<c>> BY <1>1 DEF Closed
  <2>2. e \o <<c>> = Append(e, c) BY <2>1
  <2>3. Append(e, c) \in Seq(Candles) BY <2>1
  <2>4. QED BY <1>1, <2>1, <2>2, <2>3
<1>2. CASE ~(c # NoCandle /\ IsExpired(c, t))
  <2>1. Closed(c, t) = <<>> BY <1>2 DEF Closed
  <2>2. e \o <<>> = e OBVIOUS
  <2>3. QED BY <1>2, <2>1, <2>2
<1>3. QED BY <1>1, <1>2

-----------------------------------------------------------------------------
(***************************************************************************)
(* The candles of one ticker                                               *)
(***************************************************************************)
\* The times of an aligned candle.
LEMMA AlignedTimes ==
    ASSUME NEW w \in {ShortWindow, LongWindow}, NEW c \in Candles, Aligned(c, w)
    PROVE  /\ w \in Nat /\ w > 0
           /\ c.open_time_ms \in Nat /\ c.close_time_ms \in Nat
           /\ c.close_time_ms = c.open_time_ms + w
           /\ Multiple(c.open_time_ms, w) /\ Multiple(c.close_time_ms, w)
<1>1. w \in Nat /\ w > 0 BY WindowType
<1>2. /\ c.open_time_ms \in Nat /\ c.close_time_ms \in Nat
      /\ c.close_time_ms = c.open_time_ms + w /\ c.open_time_ms = OpenTime(c.open_time_ms, w)
  BY CandleType DEF Aligned
<1>3. Multiple(c.open_time_ms, w) BY <1>1, <1>2, MultipleOpens
<1>4. Multiple(c.close_time_ms, w) BY <1>1, <1>2, <1>3, MultipleNext
<1>5. QED BY <1>1, <1>2, <1>3, <1>4

\* Appending to a sequence of candles.
LEMMA AppendCandle ==
    ASSUME NEW e \in Seq(Candles), NEW c \in Candles
    PROVE  /\ Len(e) \in Nat
           /\ Len(Append(e, c)) = Len(e) + 1
           /\ \A i \in 1 .. Len(e) : e[i] \in Candles /\ Append(e, c)[i] = e[i]
           /\ Append(e, c)[Len(e) + 1] = c
OBVIOUS

\* After its half of the update the candle is still the newest of its length.
LEMMA FoldNewest ==
    ASSUME NEW t \in Ticks, NEW w \in {ShortWindow, LongWindow},
           NEW c \in Candles \cup {NoCandle}, NEW e \in Seq(Candles), Newest(c, w, e)
    PROVE  Newest(Fold(c, t, w), w, e \o Closed(c, t))
<1> DEFINE d == Fold(c, t, w)
<1>1. d \in Candles /\ Aligned(d, w) /\ d # NoCandle
  BY FoldStep, CandleIsThere DEF Newest
<1>2. CASE c # NoCandle /\ IsExpired(c, t)
  <2>1. /\ c \in Candles /\ Aligned(c, w) /\ e \o Closed(c, t) = Append(e, c)
        /\ c.close_time_ms <= d.open_time_ms
    BY <1>2, FoldStep, ClosedCases DEF Newest
  <2>2. /\ c.open_time_ms \in Nat /\ c.close_time_ms \in Nat /\ w \in Nat
        /\ c.close_time_ms = c.open_time_ms + w /\ d.open_time_ms \in Nat
    BY <1>1, <2>1, AlignedTimes
  <2>3. ASSUME NEW i \in 1 .. Len(e) + 1, Append(e, c)[i].window_minutes = w
        PROVE  Append(e, c)[i].close_time_ms <= d.open_time_ms
    <3>1. CASE i = Len(e) + 1 BY <2>1, <3>1, AppendCandle
    <3>2. CASE i \in 1 .. Len(e)
      <4>1. Append(e, c)[i] = e[i] /\ e[i] \in Candles BY <2>1, <3>2, AppendCandle
      <4>2. e[i].close_time_ms <= c.open_time_ms BY <2>3, <3>2, <4>1 DEF Newest
      <4>3. e[i].close_time_ms \in Nat BY <4>1, CandleType
      <4>4. QED BY <2>1, <2>2, <4>1, <4>2, <4>3
    <3>3. QED BY <3>1, <3>2
  <2>4. Len(Append(e, c)) = Len(e) + 1 BY <2>1, AppendCandle
  <2>5. QED BY <1>1, <2>1, <2>3, <2>4 DEF Newest
<1>3. CASE c # NoCandle /\ ~IsExpired(c, t)
  <2>1. e \o Closed(c, t) = e /\ d.open_time_ms = c.open_time_ms
    BY <1>3, FoldStep, ClosedCases DEF Newest
  <2>2. QED BY <1>1, <2>1 DEF Newest
<1>4. CASE c = NoCandle
  <2>1. e \o Closed(c, t) = e BY <1>4, ClosedCases
  <2>2. QED BY <1>1, <1>4, <2>1 DEF Newest
<1>5. QED BY <1>2, <1>3, <1>4

\* Emitting a candle of one length does not concern the other length.
LEMMA OtherNewest ==
    ASSUME NEW t \in Ticks, NEW w \in {ShortWindow, LongWindow},
           NEW v \in {ShortWindow, LongWindow}, w # v,
           NEW c \in Candles \cup {NoCandle}, NEW e \in Seq(Candles), NEW d,
           c # NoCandle => Aligned(c, w), Newest(d, v, e)
    PROVE  Newest(d, v, e \o Closed(c, t))
<1>1. CASE c # NoCandle /\ IsExpired(c, t)
  <2>1. c \in Candles /\ c.window_minutes = w /\ e \o Closed(c, t) = Append(e, c)
    BY <1>1, ClosedCases DEF Aligned
  <2>2. \A i \in 1 .. Len(e) + 1 : Append(e, c)[i].window_minutes = v =>
            i \in 1 .. Len(e) /\ Append(e, c)[i] = e[i]
    BY <2>1, AppendCandle
  <2>3. Len(Append(e, c)) = Len(e) + 1 BY <2>1, AppendCandle
  <2>4. QED BY <2>1, <2>2, <2>3 DEF Newest
<1>2. CASE ~(c # NoCandle /\ IsExpired(c, t))
  BY <1>2, ClosedCases
<1>3. QED BY <1>1, <1>2

LEMMA EmitInOrder ==
    ASSUME NEW t \in Ticks, NEW w \in {ShortWindow, LongWindow},
           NEW c \in Candles \cup {NoCandle}, NEW e \in Seq(Candles),
           Newest(c, w, e), InOrder(e)
    PROVE  InOrder(e \o Closed(c, t))
<1>1. CASE c # NoCandle /\ IsExpired(c, t)
  <2>1. c \in Candles /\ c.window_minutes = w /\ e \o Closed(c, t) = Append(e, c)
    BY <1>1, ClosedCases DEF Newest, Aligned
  <2>2. Len(e) \in Nat /\ Len(Append(e, c)) = Len(e) + 1 BY <2>1, AppendCandle
  <2>3. ASSUME NEW j \in 1 .. Len(e) + 1, NEW i \in 1 .. j - 1,
               Append(e, c)[i].window_minutes = Append(e, c)[j].window_minutes
        PROVE  Append(e, c)[i].close_time_ms <= Append(e, c)[j].open_time_ms
    <3>1. i \in 1 .. Len(e) /\ Append(e, c)[i] = e[i] BY <2>1, <2>2, AppendCandle
    <3>2. CASE j = Len(e) + 1
      <4>1. Append(e, c)[j] = c BY <2>1, <3>2, AppendCandle
      <4>2. QED BY <2>1, <2>3, <3>1, <4>1 DEF Newest
    <3>3. CASE j \in 1 .. Len(e)
      <4>1. Append(e, c)[j] = e[j] BY <2>1, <3>3, AppendCandle
      <4>2. QED BY <2>3, <3>1, <3>3, <4>1 DEF InOrder
    <3>4. QED BY <2>2, <3>2, <3>3
  <2>4. QED BY <2>1, <2>2, <2>3 DEF InOrder
<1>2. CASE ~(c # NoCandle /\ IsExpired(c, t))
  BY <1>2, ClosedCases
<1>3. QED BY <1>1, <1>2

\* A candle put after e keeps HoursFollow if it is a quarter, or an hour after
\* one of its quarters.
LEMMA EmitHoursFollow ==
    ASSUME NEW t \in Ticks, NEW c \in Candles \cup {NoCandle}, NEW e \in Seq(Candles),
           HoursFollow(e),
           c # NoCandle /\ IsExpired(c, t) =>
               \/ c.window_minutes = ShortWindow
               \/ /\ Len(e) > 0 /\ e[Len(e)].window_minutes = ShortWindow
                  /\ Inside(e[Len(e)], c)
    PROVE  HoursFollow(e \o Closed(c, t))
<1>1. CASE c # NoCandle /\ IsExpired(c, t)
  <2>1. c \in Candles /\ e \o Closed(c, t) = Append(e, c)
    BY <1>1, ClosedCases
  <2>2. Len(e) \in Nat /\ Len(Append(e, c)) = Len(e) + 1 BY <2>1, AppendCandle
  <2>3. ASSUME NEW j \in 1 .. Len(e) + 1, Append(e, c)[j].window_minutes = LongWindow
        PROVE  /\ j > 1
               /\ Append(e, c)[j - 1].window_minutes = ShortWindow
               /\ Inside(Append(e, c)[j - 1], Append(e, c)[j])
    <3>1. CASE j = Len(e) + 1
      <4>1. Append(e, c)[j] = c BY <2>1, <3>1, AppendCandle
      <4>2. /\ Len(e) > 0 /\ e[Len(e)].window_minutes = ShortWindow
            /\ Inside(e[Len(e)], c)
        BY <1>1, <2>3, <4>1, WindowType
      <4>3. j - 1 = Len(e) /\ j > 1 BY <2>2, <3>1, <4>2
      <4>4. Append(e, c)[j - 1] = e[Len(e)] BY <2>1, <2>2, <4>2, <4>3, AppendCandle
      <4>5. QED BY <4>1, <4>2, <4>3, <4>4
    <3>2. CASE j \in 1 .. Len(e)
      <4>1. Append(e, c)[j] = e[j] BY <2>1, <3>2, AppendCandle
      <4>2. j > 1 /\ e[j - 1].window_minutes = ShortWindow /\ Inside(e[j - 1], e[j])
        BY <2>3, <3>2, <4>1 DEF HoursFollow
      <4>3. j - 1 \in 1 .. Len(e) BY <2>2, <3>2, <4>2
      <4>4. Append(e, c)[j - 1] = e[j - 1] BY <2>1, <4>3, AppendCandle
      <4>5. QED BY <4>1, <4>2, <4>4
    <3>3. QED BY <2>2, <3>1, <3>2
  <2>4. QED BY <2>1, <2>2, <2>3 DEF HoursFollow
<1>2. CASE ~(c # NoCandle /\ IsExpired(c, t))
  BY <1>2, ClosedCases
<1>3. QED BY <1>1, <1>2

\* The first half leaves the pair of candles halfway.
LEMMA QuarterHalf ==
    ASSUME NEW t \in Ticks, NEW e \in Seq(Candles),
           NEW q \in Candles \cup {NoCandle}, NEW h \in Candles \cup {NoCandle},
           q # NoCandle => Aligned(q, ShortWindow), h # NoCandle => Aligned(h, LongWindow),
           Resting(q, h)
    PROVE  Halfway(Fold(q, t, ShortWindow), h, t, e \o Closed(q, t))
<1> DEFINE d == Fold(q, t, ShortWindow)
<1>0. d \in Candles /\ d # NoCandle /\ Aligned(d, ShortWindow)
  BY FoldStep, CandleIsThere
<1>a. t.timestamp_ms \in Nat BY TickType
<1>1. CASE h = NoCandle
  <2>1. q = NoCandle BY <1>1 DEF Resting
  <2>2. d = Reset(t, ShortWindow) BY <2>1, FoldStep
  <2>3. QED BY <1>0, <1>1, <2>2, ResetType DEF Halfway
<1>2. CASE h # NoCandle
  <2>1. /\ q # NoCandle /\ q \in Candles /\ h \in Candles
        /\ Aligned(q, ShortWindow) /\ Aligned(h, LongWindow) /\ Inside(q, h)
    BY <1>2 DEF Resting
  <2>2. /\ q.open_time_ms \in Nat /\ q.close_time_ms \in Nat
        /\ ShortWindow \in Nat /\ ShortWindow > 0
        /\ q.close_time_ms = q.open_time_ms + ShortWindow
    BY <2>1, AlignedTimes
  <2>3. /\ h.open_time_ms \in Nat /\ h.close_time_ms \in Nat
        /\ Multiple(h.close_time_ms, ShortWindow)
    BY <2>1, AlignedTimes, MultipleShort
  <2>4. h.open_time_ms <= q.open_time_ms /\ q.close_time_ms <= h.close_time_ms
    BY <2>1 DEF Inside
  <2>5. CASE IsExpired(h, t)
    <3>1. IsExpired(q, t) BY <1>a, <2>2, <2>3, <2>4, <2>5 DEF IsExpired
    <3>2. d = Reset(t, ShortWindow) BY <2>1, <3>1, FoldStep
    <3>3. e \o Closed(q, t) = Append(e, q) BY <2>1, <3>1, ClosedCases
    <3>4. /\ Len(Append(e, q)) = Len(e) + 1 /\ Len(e) \in Nat
          /\ Append(e, q)[Len(e) + 1] = q
      BY <2>1, AppendCandle
    <3>5. q.window_minutes = ShortWindow BY <2>1 DEF Aligned
    <3>6. QED BY <1>0, <2>1, <2>5, <3>2, <3>3, <3>4, <3>5, ResetType DEF Halfway
  <2>6. CASE ~IsExpired(h, t)
    <3>1. Inside(d, h)
      <4>1. CASE IsExpired(q, t)
        <5>1. /\ d.open_time_ms = OpenTime(t.timestamp_ms, ShortWindow)
              /\ d.close_time_ms = OpenTime(t.timestamp_ms, ShortWindow) + ShortWindow
              /\ q.close_time_ms <= d.open_time_ms
          BY <2>1, <4>1, FoldStep, ResetType
        <5>2. t.timestamp_ms < h.close_time_ms BY <1>a, <2>3, <2>6 DEF IsExpired
        <5>3. OpenTime(t.timestamp_ms, ShortWindow) + ShortWindow <= h.close_time_ms
          BY <1>a, <2>2, <2>3, <5>2, MultipleAbove
        <5>4. d.open_time_ms \in Nat BY <1>0, CandleType
        <5>5. QED BY <2>2, <2>3, <2>4, <5>1, <5>3, <5>4 DEF Inside
      <4>2. CASE ~IsExpired(q, t)
        <5>1. d.open_time_ms = q.open_time_ms /\ d.close_time_ms = q.close_time_ms
          BY <2>1, <4>2, FoldStep
        <5>2. QED BY <2>4, <5>1 DEF Inside
      <4>3. QED BY <4>1, <4>2
    <3>2. QED BY <1>0, <1>2, <2>1, <2>6, <3>1 DEF Halfway
  <2>7. QED BY <2>5, <2>6
<1>3. QED BY <1>1, <1>2

\* The second half leaves them at rest.
LEMMA HourHalf ==
    ASSUME NEW t \in Ticks, NEW e,
           NEW q \in Candles \cup {NoCandle}, NEW h \in Candles \cup {NoCandle},
           h # NoCandle => Aligned(h, LongWindow),
           Halfway(q, h, t, e)
    PROVE  Resting(q, Fold(h, t, LongWindow))
<1> DEFINE d == Fold(h, t, LongWindow)
<1>1. d \in Candles /\ d # NoCandle /\ q # NoCandle
  BY FoldStep, CandleIsThere DEF Halfway
<1>2. CASE h # NoCandle /\ ~IsExpired(h, t)
  <2>1. d.open_time_ms = h.open_time_ms /\ d.close_time_ms = h.close_time_ms
    BY <1>2, FoldStep
  <2>2. Inside(q, h) BY <1>2 DEF Halfway
  <2>3. QED BY <1>1, <2>1, <2>2 DEF Resting, Inside
<1>3. CASE h = NoCandle \/ IsExpired(h, t)
  <2> DEFINE o == OpenTime(t.timestamp_ms, LongWindow)
  <2> DEFINE u == OpenTime(t.timestamp_ms, ShortWindow)
  <2>1. d.open_time_ms = o /\ d.close_time_ms = o + LongWindow
    BY <1>3, FoldStep, ResetType
  <2>2. q.open_time_ms = u /\ q.close_time_ms = u + ShortWindow
    BY <1>3 DEF Halfway
  <2>3. t.timestamp_ms \in Nat BY TickType
  <2>4. /\ o \in Nat /\ o <= t.timestamp_ms /\ t.timestamp_ms < o + LongWindow
        /\ Multiple(o, LongWindow)
    BY <2>3, WindowType, OpenTimeBounds
  <2>5. Multiple(o, ShortWindow) BY <2>4, MultipleShort
  <2>6. o + LongWindow \in Nat /\ Multiple(o + LongWindow, LongWindow)
    BY <2>4, WindowType, MultipleNext
  <2>7. Multiple(o + LongWindow, ShortWindow) BY <2>6, MultipleShort
  <2> HIDE DEF o
  <2>8. o <= u BY <2>3, <2>4, <2>5, WindowType, MultipleBelow
  <2>9. u + ShortWindow <= o + LongWindow
    BY <2>3, <2>4, <2>6, <2>7, WindowType, MultipleAbove
  <2>10. QED BY <1>1, <2>1, <2>2, <2>8, <2>9 DEF Resting, Inside
<1>4. QED BY <1>2, <1>3

-----------------------------------------------------------------------------
(***************************************************************************)
(* Types                                                                   *)
(***************************************************************************)
LEMMA InitType == Init => TypeOK
<1> SUFFICES ASSUME Init PROVE TypeOK
  OBVIOUS
<1>1. (CHOOSE t \in Ticks : TRUE) \in Ticks BY TickAssumption
<1>2. <<>> \in Seq(Candles) OBVIOUS
<1>3. 0 \in 0 .. MaxTicks BY TickAssumption
<1>4. QED BY <1>1, <1>2, <1>3 DEF Init, TypeOK

\* A thread that updates a state has one.
LEMMA Updating ==
    ASSUME TypeOK, LockInv, NEW th \in Threads, pc[th] \in {"update", "hour"}
    PROVE  /\ tick[th] \in Ticks /\ tick[th].ticker \in Tickers
           /\ registry[tick[th].ticker] \in States
<1>1. tick[th] \in Ticks /\ tick[th].ticker \in Tickers BY TickType DEF TypeOK
<1>2. QED BY <1>1 DEF TypeOK, LockInv

LEMMA TypeStep ==
    ASSUME PathInv, [Next]_vars
    PROVE  TypeOK'
<1> USE DEF PathInv
<1>1. ASSUME NEW th \in Threads, NEW t \in Ticks, Lookup(th, t) PROVE TypeOK'
  <2>1. received' \in 0 .. MaxTicks BY <1>1, TickAssumption DEF Lookup, TypeOK
  <2>2. tick' \in [Threads -> Ticks] BY <1>1 DEF Lookup, TypeOK
  <2>3. pc' \in [Threads -> {"idle", "create", "update", "hour"}]
    BY <1>1 DEF Lookup, TypeOK
  <2>4. QED BY <1>1, <2>1, <2>2, <2>3 DEF Lookup, TypeOK, candleVars, registryVars
<1>2. ASSUME NEW th \in Threads, CreateFound(th) PROVE TypeOK'
  BY <1>2 DEF CreateFound, TypeOK, candleVars, registryVars
<1>3. ASSUME NEW th \in Threads, CreateNew(th) PROVE TypeOK'
  <2>1. PICK s \in pool : /\ pool' = pool \ {s}
                          /\ registry' = [registry EXCEPT ![tick[th].ticker] = s]
                          /\ quarter' = [quarter EXCEPT ![s] = NoCandle]
                          /\ hour' = [hour EXCEPT ![s] = NoCandle]
    BY <1>3 DEF CreateNew
  <2>2. s \in States BY DEF TypeOK
  <2>3. pool' \subseteq States /\ registry' \in [Tickers -> States \cup {NoState}]
    BY <2>1, <2>2 DEF TypeOK
  <2>4. /\ quarter' \in [States -> Candles \cup {NoCandle}]
        /\ hour' \in [States -> Candles \cup {NoCandle}]
    BY <2>1, <2>2 DEF TypeOK
  <2>5. pc' \in [Threads -> {"idle", "create", "update", "hour"}]
    BY <1>3 DEF CreateNew, TypeOK
  <2>6. QED BY <1>3, <2>3, <2>4, <2>5 DEF CreateNew, TypeOK
<1>4. ASSUME NEW th \in Threads, CreateFails(th) PROVE TypeOK'
  <2>1. tick[th].ticker \in Tickers BY TickType DEF TypeOK
  <2>2. QED BY <1>4, <2>1 DEF CreateFails, TypeOK, candleVars
<1>5. ASSUME NEW th \in Threads, UpdateQuarter(th) PROVE TypeOK'
  <2> DEFINE t == tick[th]
  <2> DEFINE s == registry[t.ticker]
  <2>1. t \in Ticks /\ t.ticker \in Tickers /\ s \in States
    BY <1>5, Updating DEF UpdateQuarter
  <2>2. /\ quarter[s] \in Candles \cup {NoCandle} /\ emitted[t.ticker] \in Seq(Candles)
        /\ quarter[s] # NoCandle => Aligned(quarter[s], ShortWindow)
    BY <2>1, TickAssumption DEF TypeOK, CandleInv, Newest
  <2>3. Fold(quarter[s], t, ShortWindow) \in Candles BY <2>1, <2>2, FoldStep
  <2>4. emitted[t.ticker] \o Closed(quarter[s], t) \in Seq(Candles)
    BY <2>1, <2>2, ClosedCases
  <2>5. quarter' \in [States -> Candles \cup {NoCandle}]
    BY <1>5, <2>3 DEF UpdateQuarter, TypeOK
  <2>6. emitted' \in [Tickers -> Seq(Candles)]
    BY <1>5, <2>4 DEF UpdateQuarter, TypeOK
  <2>7. QED BY <1>5, <2>5, <2>6 DEF UpdateQuarter, TypeOK, registryVars
<1>6. ASSUME NEW th \in Threads, UpdateHour(th) PROVE TypeOK'
  <2> DEFINE t == tick[th]
  <2> DEFINE s == registry[t.ticker]
  <2>1. t \in Ticks /\ t.ticker \in Tickers /\ s \in States
    BY <1>6, Updating DEF UpdateHour
  <2>2. /\ hour[s] \in Candles \cup {NoCandle} /\ emitted[t.ticker] \in Seq(Candles)
        /\ hour[s] # NoCandle => Aligned(hour[s], LongWindow)
    BY <2>1, TickAssumption DEF TypeOK, CandleInv, Newest
  <2>3. Fold(hour[s], t, LongWindow) \in Candles BY <2>1, <2>2, FoldStep
  <2>4. emitted[t.ticker] \o Closed(hour[s], t) \in Seq(Candles)
    BY <2>1, <2>2, ClosedCases
  <2>5. hour' \in [States -> Candles \cup {NoCandle}]
    BY <1>6, <2>3 DEF UpdateHour, TypeOK
  <2>6. emitted' \in [Tickers -> Seq(Candles)]
    BY <1>6, <2>4 DEF UpdateHour, TypeOK
  <2>7. QED BY <1>6, <2>5, <2>6 DEF UpdateHour, TypeOK, registryVars
<1>7. ASSUME UNCHANGED vars PROVE TypeOK'
  BY <1>7 DEF vars, candleVars, registryVars, TypeOK
<1>8. QED
  BY <1>1, <1>2, <1>3, <1>4, <1>5, <1>6, <1>7 DEF Next, Step, Terminating

-----------------------------------------------------------------------------
(***************************************************************************)
(* States and locks                                                        *)
(***************************************************************************)
LEMMA LockStep ==
    ASSUME PathInv, TypeOK', [Next]_vars
    PROVE  LockInv'
<1> USE DEF PathInv
<1>0. NoThread \notin Threads /\ NoState \notin States BY TickAssumption
<1>1. ASSUME NEW th \in Threads, NEW t \in Ticks, Lookup(th, t) PROVE LockInv'
  <2>1. /\ pc[th] = "idle" /\ pc' = [pc EXCEPT ![th] = pc'[th]]
        /\ pc'[th] \in {"create", "update"}
        /\ pc'[th] = "update" => registry[t.ticker] # NoState
        /\ tick' = [tick EXCEPT ![th] = t] /\ UNCHANGED <<registry, mtx>>
    BY <1>1 DEF Lookup, TypeOK, candleVars, registryVars
  <2>2. \A s \in States : mtx[s] # th
    BY <1>0, <2>1 DEF LockInv
  <2>3. QED BY <2>1, <2>2 DEF LockInv, TypeOK
<1>2. ASSUME NEW th \in Threads, CreateFound(th) PROVE LockInv'
  BY <1>0, <1>2 DEF CreateFound, LockInv, TypeOK, candleVars, registryVars
<1>3. ASSUME NEW th \in Threads, CreateNew(th) PROVE LockInv'
  <2>1. PICK s \in pool : registry' = [registry EXCEPT ![tick[th].ticker] = s]
    BY <1>3 DEF CreateNew
  <2>2. /\ s \in States /\ s # NoState /\ registry[tick[th].ticker] = NoState
        /\ pc[th] = "create" /\ pc' = [pc EXCEPT ![th] = "update"]
        /\ UNCHANGED <<mtx, tick>> /\ tick[th].ticker \in Tickers
    BY <1>0, <1>3, TickType DEF CreateNew, TypeOK
  <2>3. /\ \A k \in Tickers : registry[k] # NoState => registry'[k] = registry[k]
        /\ registry'[tick[th].ticker] = s
    BY <2>1, <2>2 DEF TypeOK
  <2>4. \A x \in Threads : tick[x].ticker \in Tickers BY TickType DEF TypeOK
  <2>5. ASSUME NEW x \in Threads
        PROVE  /\ pc'[x] \in {"update", "hour"} => registry'[tick[x].ticker] # NoState
               /\ pc'[x] = "hour" => mtx[registry'[tick[x].ticker]] = x
    <3>1. CASE x = th BY <2>2, <2>3, <3>1 DEF TypeOK
    <3>2. CASE x # th
      <4>1. pc'[x] = pc[x] BY <2>2, <3>2 DEF TypeOK
      <4>2. QED BY <2>3, <2>4, <4>1 DEF LockInv
    <3>3. QED BY <3>1, <3>2
  <2>6. ASSUME NEW z \in States, mtx[z] # NoThread
        PROVE  pc'[mtx[z]] = "hour" /\ registry'[tick[mtx[z]].ticker] = z
    <3>1. mtx[z] \in Threads /\ pc[mtx[z]] = "hour" /\ registry[tick[mtx[z]].ticker] = z
      BY <2>6 DEF LockInv, TypeOK
    <3>2. mtx[z] # th BY <2>2, <3>1
    <3>3. pc'[mtx[z]] = "hour" BY <2>2, <3>1, <3>2 DEF TypeOK
    <3>4. z # NoState BY <1>0
    <3>5. QED BY <2>3, <2>4, <3>1, <3>3, <3>4
  <2>7. QED BY <2>2, <2>5, <2>6 DEF LockInv
<1>4. ASSUME NEW th \in Threads, CreateFails(th) PROVE LockInv'
  BY <1>0, <1>4 DEF CreateFails, LockInv, TypeOK, candleVars
<1>5. ASSUME NEW th \in Threads, UpdateQuarter(th) PROVE LockInv'
  <2> DEFINE s == registry[tick[th].ticker]
  <2>1. s \in States /\ s # NoState BY <1>0, <1>5, Updating DEF UpdateQuarter
  <2>2. /\ mtx[s] = NoThread /\ mtx' = [mtx EXCEPT ![s] = th]
        /\ pc[th] = "update" /\ pc' = [pc EXCEPT ![th] = "hour"]
        /\ UNCHANGED <<registry, tick>>
    BY <1>5 DEF UpdateQuarter, registryVars
  <2>3. \A x \in Threads : pc[x] = "hour" => registry[tick[x].ticker] # s
    BY <1>0, <2>2 DEF LockInv
  <2>4. mtx'[s] = th /\ pc'[th] = "hour" BY <2>1, <2>2 DEF TypeOK
  <2> HIDE DEF s
  <2>5. ASSUME NEW x \in Threads
        PROVE  /\ pc'[x] \in {"update", "hour"} => registry[tick[x].ticker] # NoState
               /\ pc'[x] = "hour" => mtx'[registry[tick[x].ticker]] = x
    <3>1. CASE x = th BY <2>1, <2>4, <3>1 DEF s
    <3>2. CASE x # th
      <4>1. pc'[x] = pc[x] BY <2>2, <3>2 DEF TypeOK
      <4>2. ASSUME pc[x] = "hour" PROVE mtx'[registry[tick[x].ticker]] = x
        <5>1. registry[tick[x].ticker] \in States BY <4>2, Updating
        <5>2. QED BY <2>2, <2>3, <4>2, <5>1 DEF LockInv, TypeOK
      <4>3. QED BY <4>1, <4>2 DEF LockInv
    <3>3. QED BY <3>1, <3>2
  <2>6. ASSUME NEW z \in States, mtx'[z] # NoThread
        PROVE  pc'[mtx'[z]] = "hour" /\ registry[tick[mtx'[z]].ticker] = z
    <3>1. CASE z = s BY <2>4, <3>1 DEF s
    <3>2. CASE z # s
      <4>1. mtx'[z] = mtx[z] /\ mtx[z] \in Threads BY <2>2, <2>6, <3>2 DEF TypeOK
      <4>2. pc[mtx[z]] = "hour" /\ registry[tick[mtx[z]].ticker] = z
        BY <2>6, <4>1 DEF LockInv
      <4>3. pc'[mtx[z]] = "hour" BY <2>2, <4>1, <4>2 DEF TypeOK
      <4>4. QED BY <4>1, <4>2, <4>3
    <3>3. QED BY <3>1, <3>2
  <2>7. QED BY <2>2, <2>5, <2>6 DEF LockInv
<1>6. ASSUME NEW th \in Threads, UpdateHour(th) PROVE LockInv'
  <2> DEFINE s == registry[tick[th].ticker]
  <2>1. s \in States BY <1>6, Updating DEF UpdateHour
  <2>2. /\ mtx' = [mtx EXCEPT ![s] = NoThread]
        /\ pc[th] = "hour" /\ pc' = [pc EXCEPT ![th] = "idle"]
        /\ UNCHANGED <<registry, tick>>
    BY <1>6 DEF UpdateHour, registryVars
  <2>3. mtx[s] = th BY <2>2 DEF LockInv
  <2> HIDE DEF s
  <2>4. ASSUME NEW x \in Threads
        PROVE  /\ pc'[x] \in {"update", "hour"} => registry[tick[x].ticker] # NoState
               /\ pc'[x] = "hour" => mtx'[registry[tick[x].ticker]] = x
    <3>1. CASE x = th BY <2>2, <3>1 DEF TypeOK
    <3>2. CASE x # th
      <4>1. pc'[x] = pc[x] BY <2>2, <3>2 DEF TypeOK
      <4>2. ASSUME pc[x] = "hour" PROVE mtx'[registry[tick[x].ticker]] = x
        <5>1. registry[tick[x].ticker] \in States BY <4>2, Updating
        <5>2. mtx[registry[tick[x].ticker]] = x BY <4>2 DEF LockInv
        <5>3. registry[tick[x].ticker] # s BY <2>3, <3>2, <5>2
        <5>4. QED BY <2>2, <5>1, <5>2, <5>3 DEF TypeOK
      <4>3. QED BY <4>1, <4>2 DEF LockInv
    <3>3. QED BY <3>1, <3>2
  <2>5. ASSUME NEW z \in States, mtx'[z] # NoThread
        PROVE  pc'[mtx'[z]] = "hour" /\ registry[tick[mtx'[z]].ticker] = z
    <3>1. z # s BY <2>1, <2>2, <2>5 DEF TypeOK
    <3>2. mtx'[z] = mtx[z] /\ mtx[z] \in Threads BY <2>2, <2>5, <3>1 DEF TypeOK
    <3>3. pc[mtx[z]] = "hour" /\ registry[tick[mtx[z]].ticker] = z
      BY <2>5, <3>2 DEF LockInv
    <3>4. mtx[z] # th BY <3>1, <3>3 DEF s
    <3>5. QED BY <2>2, <3>2, <3>3, <3>4 DEF TypeOK
  <2>6. QED BY <2>2, <2>4, <2>5 DEF LockInv
<1>7. ASSUME UNCHANGED vars PROVE LockInv'
  BY <1>7 DEF vars, candleVars, registryVars, LockInv
<1>8. QED
  BY <1>1, <1>2, <1>3, <1>4, <1>5, <1>6, <1>7 DEF Next, Step, Terminating

\* The candles of a state carry its ticker, before and after a half of the update.
LEMMA OwnershipStep ==
    ASSUME PathInv, [Next]_vars
    PROVE  StateOwnership'
<1> USE DEF PathInv
<1>0. NoState \notin States BY TickAssumption
<1>1. ASSUME UNCHANGED <<registry, pool, quarter, hour>> PROVE StateOwnership'
  BY <1>1 DEF StateOwnership
<1>2. ASSUME NEW th \in Threads, CreateNew(th) PROVE StateOwnership'
  <2> DEFINE n == tick[th].ticker
  <2>1. PICK s \in pool : /\ pool' = pool \ {s}
                          /\ registry' = [registry EXCEPT ![n] = s]
                          /\ quarter' = [quarter EXCEPT ![s] = NoCandle]
                          /\ hour' = [hour EXCEPT ![s] = NoCandle]
    BY <1>2 DEF CreateNew
  <2>2. n \in Tickers /\ s \in States /\ registry[n] = NoState
    BY <1>2, TickType DEF CreateNew, TypeOK
  <2>3. /\ registry'[n] = s /\ quarter'[s] = NoCandle /\ hour'[s] = NoCandle
        /\ \A k \in Tickers \ {n} : registry'[k] = registry[k]
        /\ \A z \in States \ {s} : quarter'[z] = quarter[z] /\ hour'[z] = hour[z]
    BY <2>1, <2>2 DEF TypeOK
  <2>4. \A k \in Tickers : registry[k] # s BY <1>0, <2>2 DEF StateOwnership
  <2>5. \A k \in Tickers : registry[k] # NoState => registry[k] \in States
    BY DEF TypeOK
  <2> HIDE DEF n
  <2>6. ASSUME NEW k \in Tickers, registry'[k] # NoState
        PROVE  /\ registry'[k] \notin pool'
               /\ \A j \in Tickers : registry'[j] = registry'[k] => j = k
               /\ quarter'[registry'[k]] # NoCandle => quarter'[registry'[k]].ticker = k
               /\ hour'[registry'[k]] # NoCandle => hour'[registry'[k]].ticker = k
    <3>1. CASE k = n BY <2>1, <2>3, <2>4, <3>1
    <3>2. CASE k # n
      <4>1. registry'[k] = registry[k] /\ registry[k] \in States \ {s}
        BY <2>3, <2>4, <2>5, <2>6, <3>2
      <4>2. registry[k] \notin pool BY <1>0, <4>1 DEF StateOwnership
      <4>3. \A j \in Tickers : registry'[j] = registry'[k] => j = k
        BY <1>0, <2>3, <4>1 DEF StateOwnership
      <4>4. QED BY <1>0, <2>1, <2>3, <4>1, <4>2, <4>3 DEF StateOwnership
    <3>3. QED BY <3>1, <3>2
  <2>7. ASSUME NEW z \in States
        PROVE  z \in pool' \/ \E k \in Tickers : registry'[k] = z
    <3>1. CASE z = s BY <2>2, <2>3, <3>1
    <3>2. CASE z # s /\ z \in pool BY <2>1, <3>2
    <3>3. CASE z \notin pool
      <4>1. PICK k \in Tickers : registry[k] = z BY <3>3 DEF StateOwnership
      <4>2. k # n BY <1>0, <2>2, <4>1
      <4>3. QED BY <2>3, <4>1, <4>2
    <3>4. QED BY <3>1, <3>2, <3>3
  <2>8. QED BY <2>6, <2>7 DEF StateOwnership
<1>3. ASSUME NEW th \in Threads, UpdateQuarter(th) PROVE StateOwnership'
  <2> DEFINE t == tick[th]
  <2> DEFINE s == registry[t.ticker]
  <2>1. t \in Ticks /\ t.ticker \in Tickers /\ s \in States
    BY <1>3, Updating DEF UpdateQuarter
  <2>2. /\ quarter[s] \in Candles \cup {NoCandle}
        /\ quarter[s] # NoCandle => Aligned(quarter[s], ShortWindow)
    BY <1>0, <2>1 DEF TypeOK, CandleInv, Newest
  <2>3. quarter[s] # NoCandle => quarter[s].ticker = t.ticker
    BY <1>0, <2>1 DEF StateOwnership
  <2>4. Fold(quarter[s], t, ShortWindow).ticker = t.ticker BY <2>1, <2>2, <2>3, FoldStep
  <2>5. /\ quarter'[s].ticker = t.ticker
        /\ \A z \in States : z # s => quarter'[z] = quarter[z]
        /\ UNCHANGED <<registry, pool, hour>>
    BY <1>3, <2>1, <2>4 DEF UpdateQuarter, TypeOK, registryVars
  <2>6. \A k \in Tickers : registry[k] # NoState => registry[k] \in States
    BY DEF TypeOK
  <2>7. \A k \in Tickers : registry[k] = s => k = t.ticker
    BY <1>0, <2>1 DEF StateOwnership
  <2> HIDE DEF t, s
  <2>8. ASSUME NEW k \in Tickers, registry[k] # NoState, quarter'[registry[k]] # NoCandle
        PROVE  quarter'[registry[k]].ticker = k
    <3>1. CASE registry[k] = s BY <2>5, <2>7, <3>1
    <3>2. CASE registry[k] # s BY <2>5, <2>6, <2>8, <3>2 DEF StateOwnership
    <3>3. QED BY <3>1, <3>2
  <2>9. QED BY <2>5, <2>8 DEF StateOwnership
<1>4. ASSUME NEW th \in Threads, UpdateHour(th) PROVE StateOwnership'
  <2> DEFINE t == tick[th]
  <2> DEFINE s == registry[t.ticker]
  <2>1. t \in Ticks /\ t.ticker \in Tickers /\ s \in States
    BY <1>4, Updating DEF UpdateHour
  <2>2. /\ hour[s] \in Candles \cup {NoCandle}
        /\ hour[s] # NoCandle => Aligned(hour[s], LongWindow)
    BY <1>0, <2>1 DEF TypeOK, CandleInv, Newest
  <2>3. hour[s] # NoCandle => hour[s].ticker = t.ticker
    BY <1>0, <2>1 DEF StateOwnership
  <2>4. Fold(hour[s], t, LongWindow).ticker = t.ticker BY <2>1, <2>2, <2>3, FoldStep
  <2>5. /\ hour'[s].ticker = t.ticker
        /\ \A z \in States : z # s => hour'[z] = hour[z]
        /\ UNCHANGED <<registry, pool, quarter>>
    BY <1>4, <2>1, <2>4 DEF UpdateHour, TypeOK, registryVars
  <2>6. \A k \in Tickers : registry[k] # NoState => registry[k] \in States
    BY DEF TypeOK
  <2>7. \A k \in Tickers : registry[k] = s => k = t.ticker
    BY <1>0, <2>1 DEF StateOwnership
  <2> HIDE DEF t, s
  <2>8. ASSUME NEW k \in Tickers, registry[k] # NoState, hour'[registry[k]] # NoCandle
        PROVE  hour'[registry[k]].ticker = k
    <3>1. CASE registry[k] = s BY <2>5, <2>7, <3>1
    <3>2. CASE registry[k] # s BY <2>5, <2>6, <2>8, <3>2 DEF StateOwnership
    <3>3. QED BY <3>1, <3>2
  <2>9. QED BY <2>5, <2>8 DEF StateOwnership
<1>5. ASSUME NEW th \in Threads, \/ \E t \in Ticks : Lookup(th, t)
                                 \/ CreateFound(th) \/ CreateFails(th)
      PROVE  StateOwnership'
  BY <1>1, <1>5 DEF Lookup, CreateFound, CreateFails, candleVars, registryVars
<1>6. ASSUME UNCHANGED vars PROVE StateOwnership'
  BY <1>1, <1>6 DEF vars, candleVars, registryVars
<1>7. QED
  BY <1>2, <1>3, <1>4, <1>5, <1>6 DEF Next, Step, Terminating

-----------------------------------------------------------------------------
(***************************************************************************)
(* Candles                                                                 *)
(***************************************************************************)
CandlesOf(k) == CandleInv(k) /\ InOrder(emitted[k]) /\ HoursFollow(emitted[k])

\* A step that touches neither the state nor the emissions of k.
LEMMA CandleFrame ==
    ASSUME PathInv, NEW k \in Tickers,
           registry'[k] = registry[k], emitted'[k] = emitted[k],
           registry[k] # NoState =>
              /\ quarter'[registry[k]] = quarter[registry[k]]
              /\ hour'[registry[k]] = hour[registry[k]]
              /\ mtx'[registry[k]] = mtx[registry[k]]
              /\ mtx[registry[k]] # NoThread =>
                    tick'[mtx[registry[k]]] = tick[mtx[registry[k]]]
    PROVE  CandlesOf(k)'
<1>1. CandleInv(k)
  BY DEF PathInv
<1>2. InOrder(emitted[k]) /\ HoursFollow(emitted[k])
  BY DEF PathInv, EmissionOrder, HourFollowsQuarter
<1>3. InOrder(emitted'[k]) /\ HoursFollow(emitted'[k])
  BY <1>2
<1>4. CandleInv(k)'
  BY <1>1 DEF CandleInv
<1>5. QED BY <1>3, <1>4 DEF CandlesOf

LEMMA CandleStep ==
    ASSUME PathInv, [Next]_vars, NEW k \in Tickers
    PROVE  CandlesOf(k)'
<1> USE DEF PathInv
<1>0. NoState \notin States /\ NoThread \notin Threads BY TickAssumption
<1>a. registry[k] # NoState => registry[k] \in States BY DEF TypeOK
<1>1. ASSUME NEW th \in Threads, NEW t \in Ticks, Lookup(th, t) PROVE CandlesOf(k)'
  <2>1. /\ pc[th] = "idle" /\ tick' = [tick EXCEPT ![th] = t]
        /\ UNCHANGED <<registry, quarter, hour, mtx, emitted>>
    BY <1>1 DEF Lookup, candleVars, registryVars
  <2>2. ASSUME registry[k] # NoState, mtx[registry[k]] # NoThread
        PROVE  tick'[mtx[registry[k]]] = tick[mtx[registry[k]]]
    <3>1. mtx[registry[k]] \in Threads /\ pc[mtx[registry[k]]] = "hour"
      BY <1>a, <2>2 DEF LockInv, TypeOK
    <3>2. QED BY <2>1, <3>1 DEF TypeOK
  <2>3. QED BY <2>1, <2>2, CandleFrame
<1>2. ASSUME NEW th \in Threads, CreateNew(th) PROVE CandlesOf(k)'
  <2> DEFINE n == tick[th].ticker
  <2>1. PICK s \in pool : /\ pool' = pool \ {s}
                          /\ registry' = [registry EXCEPT ![n] = s]
                          /\ quarter' = [quarter EXCEPT ![s] = NoCandle]
                          /\ hour' = [hour EXCEPT ![s] = NoCandle]
    BY <1>2 DEF CreateNew
  <2>2. /\ n \in Tickers /\ s \in States /\ registry[n] = NoState
        /\ UNCHANGED <<mtx, emitted, tick>>
    BY <1>2, TickType DEF CreateNew, TypeOK
  <2>3. \A j \in Tickers : registry[j] # s BY <1>0, <2>2 DEF StateOwnership
  <2>4. CASE k # n
    <3>1. registry'[k] = registry[k] BY <2>1, <2>4 DEF TypeOK
    <3>2. registry[k] # NoState => /\ quarter'[registry[k]] = quarter[registry[k]]
                                   /\ hour'[registry[k]] = hour[registry[k]]
      BY <1>a, <2>1, <2>3 DEF TypeOK
    <3>3. QED BY <2>2, <3>1, <3>2, CandleFrame
  <2>5. CASE k = n
    <3>1. emitted'[k] = <<>> BY <2>2, <2>5 DEF CandleInv
    <3>2. mtx[s] = NoThread
      <4>1. SUFFICES ASSUME mtx[s] # NoThread PROVE FALSE OBVIOUS
      <4>2. mtx[s] \in Threads /\ registry[tick[mtx[s]].ticker] = s
        BY <2>2, <4>1 DEF LockInv, TypeOK
      <4>3. tick[mtx[s]].ticker \in Tickers BY <4>2, TickType DEF TypeOK
      <4>4. QED BY <2>3, <4>2, <4>3
    <3>3. /\ registry'[k] = s /\ quarter'[s] = NoCandle /\ hour'[s] = NoCandle
          /\ mtx'[s] = NoThread /\ s # NoState
      BY <1>0, <2>1, <2>2, <2>5, <3>2 DEF TypeOK
    <3>4. CandleInv(k)' BY <3>1, <3>3 DEF CandleInv, Newest, Resting
    <3>5. InOrder(emitted'[k]) /\ HoursFollow(emitted'[k])
      BY <3>1 DEF InOrder, HoursFollow
    <3>6. QED BY <3>4, <3>5 DEF CandlesOf
  <2>6. QED BY <2>4, <2>5
<1>3. ASSUME NEW th \in Threads, UpdateQuarter(th) PROVE CandlesOf(k)'
  <2> DEFINE t == tick[th]
  <2> DEFINE s == registry[t.ticker]
  <2>1. t \in Ticks /\ t.ticker \in Tickers /\ s \in States
    BY <1>3, Updating DEF UpdateQuarter
  <2>2. /\ mtx[s] = NoThread /\ mtx' = [mtx EXCEPT ![s] = th]
        /\ quarter' = [quarter EXCEPT ![s] = Fold(quarter[s], t, ShortWindow)]
        /\ emitted' = [emitted EXCEPT ![t.ticker] = emitted[t.ticker] \o Closed(quarter[s], t)]
        /\ UNCHANGED <<hour, registry, tick>>
    BY <1>3 DEF UpdateQuarter, registryVars
  <2>3. CASE k # t.ticker
    <3>1. registry[k] # s BY <1>0, <2>1, <2>3 DEF StateOwnership
    <3>2. registry[k] # NoState => /\ quarter'[registry[k]] = quarter[registry[k]]
                                   /\ mtx'[registry[k]] = mtx[registry[k]]
      BY <1>a, <2>2, <3>1 DEF TypeOK
    <3>3. emitted'[k] = emitted[k] BY <2>2, <2>3 DEF TypeOK
    <3>4. QED BY <2>2, <3>2, <3>3, CandleFrame
  <2>4. CASE k = t.ticker
    <3> DEFINE q == quarter[s]
    <3> DEFINE h == hour[s]
    <3> DEFINE e == emitted[k]
    <3>1. registry[k] = s /\ s # NoState BY <1>0, <2>1, <2>4
    <3>2. /\ Newest(q, ShortWindow, e) /\ Newest(h, LongWindow, e) /\ Resting(q, h)
          /\ InOrder(e) /\ HoursFollow(e)
      BY <2>2, <3>1 DEF CandleInv, EmissionOrder, HourFollowsQuarter
    <3>3. /\ q \in Candles \cup {NoCandle} /\ h \in Candles \cup {NoCandle}
          /\ e \in Seq(Candles)
      BY <2>1 DEF TypeOK
    <3>4. /\ q # NoCandle => Aligned(q, ShortWindow)
          /\ h # NoCandle => Aligned(h, LongWindow)
      BY <3>2 DEF Newest
    <3>5. /\ quarter'[s] = Fold(q, t, ShortWindow) /\ hour'[s] = h
          /\ mtx'[s] = th /\ th # NoThread /\ tick'[th] = t
          /\ emitted'[k] = e \o Closed(q, t) /\ registry'[k] = s
      BY <1>0, <2>1, <2>2, <2>4 DEF TypeOK
    <3> HIDE DEF t, s, q, h, e
    <3>6. Newest(Fold(q, t, ShortWindow), ShortWindow, e \o Closed(q, t))
      BY <2>1, <3>2, <3>3, FoldNewest
    <3>7. Newest(h, LongWindow, e \o Closed(q, t))
      BY <2>1, <3>2, <3>3, <3>4, WindowType, OtherNewest
    <3>8. Halfway(Fold(q, t, ShortWindow), h, t, e \o Closed(q, t))
      BY <2>1, <3>2, <3>3, <3>4, QuarterHalf
    <3>9. CandleInv(k)' BY <3>1, <3>5, <3>6, <3>7, <3>8 DEF CandleInv
    <3>10. InOrder(e \o Closed(q, t)) BY <2>1, <3>2, <3>3, EmitInOrder
    <3>11. q # NoCandle => q.window_minutes = ShortWindow BY <3>4 DEF Aligned
    <3>12. HoursFollow(e \o Closed(q, t)) BY <2>1, <3>2, <3>3, <3>11, EmitHoursFollow
    <3>13. QED BY <3>5, <3>9, <3>10, <3>12 DEF CandlesOf
  <2>5. QED BY <2>3, <2>4
<1>4. ASSUME NEW th \in Threads, UpdateHour(th) PROVE CandlesOf(k)'
  <2> DEFINE t == tick[th]
  <2> DEFINE s == registry[t.ticker]
  <2>1. t \in Ticks /\ t.ticker \in Tickers /\ s \in States
    BY <1>4, Updating DEF UpdateHour
  <2>2. /\ mtx[s] = th /\ mtx' = [mtx EXCEPT ![s] = NoThread]
        /\ hour' = [hour EXCEPT ![s] = Fold(hour[s], t, LongWindow)]
        /\ emitted' = [emitted EXCEPT ![t.ticker] = emitted[t.ticker] \o Closed(hour[s], t)]
        /\ UNCHANGED <<quarter, registry, tick>>
    BY <1>4 DEF UpdateHour, registryVars, LockInv
  <2>3. CASE k # t.ticker
    <3>1. registry[k] # s BY <1>0, <2>1, <2>3 DEF StateOwnership
    <3>2. registry[k] # NoState => /\ hour'[registry[k]] = hour[registry[k]]
                                   /\ mtx'[registry[k]] = mtx[registry[k]]
      BY <1>a, <2>2, <3>1 DEF TypeOK
    <3>3. emitted'[k] = emitted[k] BY <2>2, <2>3 DEF TypeOK
    <3>4. QED BY <2>2, <3>2, <3>3, CandleFrame
  <2>4. CASE k = t.ticker
    <3> DEFINE q == quarter[s]
    <3> DEFINE h == hour[s]
    <3> DEFINE e == emitted[k]
    <3>1. registry[k] = s /\ s # NoState /\ th # NoThread BY <1>0, <2>1, <2>4
    <3>2. /\ Newest(q, ShortWindow, e) /\ Newest(h, LongWindow, e) /\ Halfway(q, h, t, e)
          /\ InOrder(e) /\ HoursFollow(e)
      BY <2>2, <3>1 DEF CandleInv, EmissionOrder, HourFollowsQuarter
    <3>3. /\ q \in Candles \cup {NoCandle} /\ h \in Candles \cup {NoCandle}
          /\ e \in Seq(Candles)
      BY <2>1 DEF TypeOK
    <3>4. /\ q # NoCandle => Aligned(q, ShortWindow)
          /\ h # NoCandle => Aligned(h, LongWindow)
      BY <3>2 DEF Newest
    <3>5. /\ hour'[s] = Fold(h, t, LongWindow) /\ quarter'[s] = q /\ mtx'[s] = NoThread
          /\ emitted'[k] = e \o Closed(h, t) /\ registry'[k] = s
      BY <2>1, <2>2, <2>4 DEF TypeOK
    <3> HIDE DEF t, s, q, h, e
    <3>6. Newest(Fold(h, t, LongWindow), LongWindow, e \o Closed(h, t))
      BY <2>1, <3>2, <3>3, FoldNewest
    <3>7. Newest(q, ShortWindow, e \o Closed(h, t))
      BY <2>1, <3>2, <3>3, <3>4, WindowType, OtherNewest
    <3>8. Resting(q, Fold(h, t, LongWindow))
      BY <2>1, <3>2, <3>3, <3>4, HourHalf
    <3>9. CandleInv(k)' BY <3>1, <3>5, <3>6, <3>7, <3>8 DEF CandleInv
    <3>10. InOrder(e \o Closed(h, t)) BY <2>1, <3>2, <3>3, EmitInOrder
    <3>11. h # NoCandle /\ IsExpired(h, t) =>
               /\ Len(e) > 0 /\ e[Len(e)].window_minutes = ShortWindow
               /\ Inside(e[Len(e)], h)
      BY <3>2 DEF Halfway
    <3>12. HoursFollow(e \o Closed(h, t)) BY <2>1, <3>2, <3>3, <3>11, EmitHoursFollow
    <3>13. QED BY <3>5, <3>9, <3>10, <3>12 DEF CandlesOf
  <2>5. QED BY <2>3, <2>4
<1>5. ASSUME NEW th \in Threads, CreateFound(th) \/ CreateFails(th)
      PROVE  CandlesOf(k)'
  BY <1>5, CandleFrame DEF CreateFound, CreateFails, candleVars, registryVars
<1>6. ASSUME UNCHANGED vars PROVE CandlesOf(k)'
  BY <1>6, CandleFrame DEF vars, candleVars, registryVars
<1>7. QED
  BY <1>1, <1>2, <1>3, <1>4, <1>5, <1>6 DEF Next, Step, Terminating

-----------------------------------------------------------------------------
(***************************************************************************)
(* Theorems                                                                *)
(***************************************************************************)
LEMMA PathInit == Init => PathInv
<1> SUFFICES ASSUME Init PROVE PathInv
  OBVIOUS
<1>0. NoState \notin States BY TickAssumption
<1>1. TypeOK BY InitType
<1>2. StateOwnership BY DEF Init, StateOwnership
<1>3. LockInv BY DEF Init, LockInv
<1>4. \A k \in Tickers : CandleInv(k) BY DEF Init, CandleInv
<1>5. EmissionOrder /\ HourFollowsQuarter
  BY DEF Init, EmissionOrder, HourFollowsQuarter, InOrder, HoursFollow
<1>6. QED BY <1>1, <1>2, <1>3, <1>4, <1>5 DEF PathInv

LEMMA PathStep == PathInv /\ [Next]_vars => PathInv'
<1> SUFFICES ASSUME PathInv, [Next]_vars PROVE PathInv'
  OBVIOUS
<1>1. TypeOK' BY TypeStep
<1>2. LockInv' BY <1>1, LockStep
<1>3. StateOwnership' BY OwnershipStep
<1>4. \A k \in Tickers : CandlesOf(k)' BY CandleStep
<1>5. \A k \in Tickers : CandleInv(k)' /\ InOrder(emitted'[k]) /\ HoursFollow(emitted'[k])
  BY <1>4 DEF CandlesOf
<1>6. EmissionOrder' /\ HourFollowsQuarter'
  BY <1>5 DEF EmissionOrder, HourFollowsQuarter
<1>7. QED BY <1>1, <1>2, <1>3, <1>5, <1>6 DEF PathInv

\* The inductive invariant of update_swing_state() and get_or_create_state()
\* holds in every state of every behaviour.
THEOREM PathInvariance == Spec => []PathInv
BY PathInit, PathStep, PTL DEF Spec

\* Every state object has one ticker for ever and its candles hold ticks of that
\* ticker only, whatever threads race in get_or_create_state().
THEOREM StatesOwned == Spec => []StateOwnership
<1>1. PathInv => StateOwnership BY DEF PathInv
<1>2. QED BY <1>1, PathInvariance, PTL

\* However late and by whatever threads the ticks come, the candles of one window
\* length that update_swing_state() emits for a ticker are in time order and
\* disjoint.
THEOREM CandlesInOrder == Spec => []EmissionOrder
<1>1. PathInv => EmissionOrder BY DEF PathInv
<1>2. QED BY <1>1, PathInvariance, PTL

\* Every 1-hour candle update_swing_state() emits comes directly after a
\* 15-minute candle of that hour.
THEOREM HoursAfterQuarters == Spec => []HourFollowsQuarter
<1>1. PathInv => HourFollowsQuarter BY DEF PathInv
<1>2. QED BY <1>1, PathInvariance, PTL

\* A ticker for which get_or_create_state() has given up a tick because the pool
\* is exhausted has no state and never gets one.
THEOREM DroppedStayOut == Spec => []DroppedNeverRegistered
<1>1. Init => DroppedNeverRegistered BY DEF Init, DroppedNeverRegistered
<1>2. ASSUME PathInv, DroppedNeverRegistered, [Next]_vars
      PROVE  DroppedNeverRegistered'
  <2>1. ASSUME NEW th \in Threads, CreateNew(th) PROVE DroppedNeverRegistered'
    <3>1. pool # {} /\ dropped' = dropped BY <2>1 DEF CreateNew
    <3>2. QED BY <1>2, <3>1 DEF DroppedNeverRegistered
  <2>2. ASSUME NEW th \in Threads, CreateFails(th) PROVE DroppedNeverRegistered'
    BY <1>2, <2>2 DEF CreateFails, DroppedNeverRegistered
  <2>3. ASSUME UNCHANGED <<registry, pool, dropped>> PROVE DroppedNeverRegistered'
    BY <1>2, <2>3 DEF DroppedNeverRegistered
  <2>4. ASSUME NEW th \in Threads, \/ \E t \in Ticks : Lookup(th, t)
                                   \/ CreateFound(th) \/ UpdateQuarter(th) \/ UpdateHour(th)
        PROVE  DroppedNeverRegistered'
    BY <2>3, <2>4 DEF Lookup, CreateFound, UpdateQuarter, UpdateHour, registryVars
  <2>5. ASSUME UNCHANGED vars PROVE DroppedNeverRegistered'
    BY <2>3, <2>5 DEF vars, registryVars
  <2>6. QED BY <1>2, <2>1, <2>2, <2>4, <2>5 DEF Next, Step, Terminating
<1>3. QED BY <1>1, <1>2, PathInvariance, PTL DEF Spec

-----------------------------------------------------------------------------
(***************************************************************************)
(* Induction on the natural numbers, in the form of a set that contains    *)
(* all of them, from the well-foundedness of finite subsets                *)
(***************************************************************************)
LEMMA LeastElement ==
    ASSUME NEW S \in SUBSET Nat, S # {}
    PROVE  \E n \in S : \A m \in S : n <= m
<1> DEFINE C == {0 .. m : m \in S}
<1>1. C \subseteq FiniteSubsetsOf(Nat)
  <2> SUFFICES ASSUME NEW m \in S PROVE 0 .. m \in FiniteSubsetsOf(Nat)
    OBVIOUS
  <2>1. IsFiniteSet(0 .. m)
    BY FS_Interval
  <2>2. 0 .. m \in SUBSET Nat
    OBVIOUS
  <2> QED BY <2>1, <2>2 DEF FiniteSubsetsOf
<1>2. C # {}
  OBVIOUS
<1>3. PICK x \in C : \A y \in C : ~ (<<y, x>> \in StrictSubsetOrdering(Nat))
  <2>1. IsWellFoundedOn(StrictSubsetOrdering(Nat), FiniteSubsetsOf(Nat))
    BY FS_StrictSubsetOrderingWellFounded
  <2> HIDE DEF C
  <2> QED BY <1>1, <1>2, <2>1, WFMin
<1>4. PICK n \in S : x = 0 .. n
  OBVIOUS
<1>5. ASSUME NEW m \in S, ~ (n <= m) PROVE FALSE
  <2>1. 0 .. m \in C /\ 0 .. m \in SUBSET Nat /\ 0 .. n \in SUBSET Nat
    OBVIOUS
  <2>2. 0 .. m \subseteq 0 .. n /\ n \in 0 .. n /\ n \notin 0 .. m
    BY <1>5
  <2>3. <<0 .. m, 0 .. n>> \in StrictSubsetOrdering(Nat)
    BY <2>1, <2>2, Zenon DEF StrictSubsetOrdering
  <2> QED BY <2>1, <2>3, <1>3, <1>4
<1> QED BY <1>5

LEMMA Induction ==
    ASSUME NEW S \in SUBSET Nat, 0 \in S, \A n \in S : n + 1 \in S
    PROVE  S = Nat
<1>1. SUFFICES ASSUME Nat \ S # {} PROVE FALSE
  OBVIOUS
<1>2. PICK n \in Nat \ S : \A m \in Nat \ S : n <= m
  BY <1>1, LeastElement
<1>3. n # 0 /\ n - 1 \in Nat /\ n - 1 \in S
  BY <1>2
<1> QED BY <1>3

-----------------------------------------------------------------------------
(***************************************************************************)
(* Candles put together                                                    *)
(***************************************************************************)
\* The running merge of the candles of e after i is what its recursion says.
MergesTo(g, e, i, n) ==
    g = [x \in i + 1 .. n |-> IF x = i + 1 THEN e[x] ELSE Merge(g[x - 1], e[x])]

LEMMA MergeExists ==
    ASSUME NEW e, NEW i \in Nat
    PROVE  \A k \in Nat : \E g : MergesTo(g, e, i, i + 1 + k)
<1> DEFINE S == {k \in Nat : \E g : MergesTo(g, e, i, i + 1 + k)}
<1>1. S \in SUBSET Nat
  OBVIOUS
<1>2. 0 \in S
  <2> DEFINE g == [x \in i + 1 .. i + 1 + 0 |-> e[x]]
  <2>1. ASSUME NEW x \in i + 1 .. i + 1 + 0 PROVE x = i + 1
    OBVIOUS
  <2>2. g = [x \in i + 1 .. i + 1 + 0 |-> IF x = i + 1 THEN e[x] ELSE Merge(g[x - 1], e[x])]
    BY <2>1
  <2>3. MergesTo(g, e, i, i + 1 + 0)
    BY <2>2 DEF MergesTo
  <2> QED BY <2>3
<1>3. ASSUME NEW k \in S PROVE k + 1 \in S
  <2> DEFINE n == i + 1 + k
             m == i + 1 + (k + 1)
  <2>1. PICK g : MergesTo(g, e, i, n)
    OBVIOUS
  <2> DEFINE h == [x \in i + 1 .. m |-> IF x = m THEN Merge(g[n], e[m]) ELSE g[x]]
  <2>2. n \in Nat /\ m = n + 1 /\ n >= i + 1 /\ k \in Nat
    OBVIOUS
  <2> HIDE DEF n, m
  <2>3. ASSUME NEW x \in i + 1 .. m
        PROVE  h[x] = IF x = i + 1 THEN e[x] ELSE Merge(h[x - 1], e[x])
    <3>1. CASE x = m
      BY <3>1, <2>2
    <3>2. CASE x # m /\ x = i + 1
      <4>1. x \in i + 1 .. n BY <3>2, <2>2
      <4>2. g[x] = e[x] BY <2>1, <3>2, <4>1 DEF MergesTo
      <4> QED BY <3>2, <4>2
    <3>3. CASE x # m /\ x # i + 1
      <4>1. x \in i + 1 .. n /\ x - 1 \in i + 1 .. m /\ x - 1 # m BY <3>3, <2>2
      <4>2. g[x] = Merge(g[x - 1], e[x]) BY <2>1, <3>3, <4>1 DEF MergesTo
      <4>3. h[x] = g[x] /\ h[x - 1] = g[x - 1] BY <3>3, <4>1
      <4> QED BY <3>3, <4>2, <4>3
    <3> QED BY <3>1, <3>2, <3>3
  <2>4. h = [x \in i + 1 .. m |-> IF x = i + 1 THEN e[x] ELSE Merge(h[x - 1], e[x])]
    <3>1. h = [x \in i + 1 .. m |-> h[x]] OBVIOUS
    <3> HIDE DEF h
    <3> QED BY <2>3, <3>1
  <2>5. MergesTo(h, e, i, m)
    BY <2>4 DEF MergesTo
  <2> HIDE DEF h
  <2>6. \E f : MergesTo(f, e, i, i + 1 + (k + 1))
    BY <2>5 DEF m
  <2> QED BY <2>2, <2>6
<1>4. S = Nat
  <2> HIDE DEF S
  <2> QED BY <1>1, <1>2, <1>3, Induction
<1> QED BY <1>4

LEMMA MergedDef ==
    ASSUME NEW e \in Seq(Candles), NEW i \in Nat, i < Len(e), NEW n \in i + 1 .. Len(e)
    PROVE  MergedFrom(e, i)[n] = IF n = i + 1 THEN e[n]
                                              ELSE Merge(MergedFrom(e, i)[n - 1], e[n])
<1>1. \E g : MergesTo(g, e, i, Len(e))
  <2>1. Len(e) - i - 1 \in Nat /\ Len(e) = i + 1 + (Len(e) - i - 1)
    OBVIOUS
  <2> QED BY <2>1, MergeExists
<1>2. MergedFrom(e, i) = CHOOSE g : MergesTo(g, e, i, Len(e))
  BY DEF MergedFrom, MergesTo
<1>3. MergesTo(MergedFrom(e, i), e, i, Len(e))
  BY <1>1, <1>2, Zenon
<1> DEFINE M == MergedFrom(e, i)
<1> HIDE DEF M
<1>4. M = [x \in i + 1 .. Len(e) |-> IF x = i + 1 THEN e[x] ELSE Merge(M[x - 1], e[x])]
  BY <1>3 DEF MergesTo, M
<1>5. M[n] = IF n = i + 1 THEN e[n] ELSE Merge(M[n - 1], e[n])
  BY <1>4, Zenon
<1> QED BY <1>5 DEF M

\* What a candle is made of.
LEMMA CandleFields ==
    ASSUME NEW c \in Candles
    PROVE  /\ c = [ticker |-> c.ticker, open |-> c.open, high |-> c.high, low |-> c.low,
                   close |-> c.close, volume |-> c.volume, tick_count |-> c.tick_count,
                   window_minutes |-> c.window_minutes, open_time_ms |-> c.open_time_ms,
                   close_time_ms |-> c.close_time_ms]
           /\ c.ticker \in Tickers /\ c.open \in Int /\ c.high \in Int /\ c.low \in Int
           /\ c.close \in Int /\ c.volume \in Int /\ c.tick_count \in Nat
           /\ c.window_minutes \in {ShortWindow, LongWindow}
           /\ c.open_time_ms \in Nat /\ c.close_time_ms \in Nat
BY DEF Candles

Higher(a, b) == IF b > a THEN b ELSE a
Lower(a, b) == IF b < a THEN b ELSE a

LEMMA MergeFields ==
    ASSUME NEW c \in Candles, NEW d \in Candles
    PROVE  /\ Merge(c, d) \in Candles
           /\ Ohlcv(Merge(c, d)) = <<c.open, Higher(c.high, d.high), Lower(c.low, d.low), d.close,
                                     c.volume + d.volume, c.tick_count + d.tick_count>>
<1> DEFINE hi == Higher(c.high, d.high)
           lo == Lower(c.low, d.low)
           vol == c.volume + d.volume
           cnt == c.tick_count + d.tick_count
<1>1. /\ d.high \in Int /\ d.low \in Int /\ d.close \in Int /\ d.volume \in Int /\ d.tick_count \in Nat
  BY CandleFields
<1>2. /\ c = [ticker |-> c.ticker, open |-> c.open, high |-> c.high, low |-> c.low,
              close |-> c.close, volume |-> c.volume, tick_count |-> c.tick_count,
              window_minutes |-> c.window_minutes, open_time_ms |-> c.open_time_ms,
              close_time_ms |-> c.close_time_ms]
      /\ c.ticker \in Tickers /\ c.open \in Int /\ c.high \in Int /\ c.low \in Int
      /\ c.volume \in Int /\ c.tick_count \in Nat
      /\ c.window_minutes \in {ShortWindow, LongWindow}
      /\ c.open_time_ms \in Nat /\ c.close_time_ms \in Nat
  BY CandleFields
<1>3. hi \in Int /\ lo \in Int /\ vol \in Int /\ cnt \in Nat
  BY <1>1, <1>2 DEF Higher, Lower
<1>4. Merge(c, d) = [c EXCEPT !.high = hi, !.low = lo, !.close = d.close,
                              !.volume = vol, !.tick_count = cnt]
  BY DEF Merge, Higher, Lower
<1> HIDE DEF hi, lo, vol, cnt
<1>5. Merge(c, d) = [ticker |-> c.ticker, open |-> c.open, high |-> hi, low |-> lo,
                     close |-> d.close, volume |-> vol, tick_count |-> cnt,
                     window_minutes |-> c.window_minutes, open_time_ms |-> c.open_time_ms,
                     close_time_ms |-> c.close_time_ms]
  BY <1>2, <1>4
<1>6. Merge(c, d) \in Candles BY <1>1, <1>2, <1>3, <1>5 DEF Candles
<1>7. QED BY <1>5, <1>6 DEF Ohlcv, hi, lo, vol, cnt

LEMMA UpdateFields ==
    ASSUME NEW c \in Candles, NEW t \in Ticks
    PROVE  Ohlcv(Update(c, t)) = <<c.open, Higher(c.high, t.price), Lower(c.low, t.price), t.price,
                                   c.volume + t.volume, c.tick_count + 1>>
<1> DEFINE hi == Higher(c.high, t.price)
           lo == Lower(c.low, t.price)
           vol == c.volume + t.volume
           cnt == c.tick_count + 1
<1>1. c = [ticker |-> c.ticker, open |-> c.open, high |-> c.high, low |-> c.low,
           close |-> c.close, volume |-> c.volume, tick_count |-> c.tick_count,
           window_minutes |-> c.window_minutes, open_time_ms |-> c.open_time_ms,
           close_time_ms |-> c.close_time_ms]
  BY CandleFields
<1>2. Update(c, t) = [c EXCEPT !.high = hi, !.low = lo, !.close = t.price,
                               !.volume = vol, !.tick_count = cnt]
  BY DEF Update, Higher, Lower
<1> HIDE DEF hi, lo, vol, cnt
<1>3. Update(c, t) = [ticker |-> c.ticker, open |-> c.open, high |-> hi, low |-> lo,
                      close |-> t.price, volume |-> vol, tick_count |-> cnt,
                      window_minutes |-> c.window_minutes, open_time_ms |-> c.open_time_ms,
                      close_time_ms |-> c.close_time_ms]
  BY <1>1, <1>2
<1>4. QED BY <1>3 DEF Ohlcv, hi, lo, vol, cnt

LEMMA ResetFields ==
    ASSUME NEW t \in Ticks, NEW w
    PROVE  /\ Ohlcv(Reset(t, w)) = <<t.price, t.price, t.price, t.price, t.volume, 1>>
           /\ Reset(t, w).high = t.price /\ Reset(t, w).low = t.price
           /\ Reset(t, w).close = t.price /\ Reset(t, w).volume = t.volume
           /\ Reset(t, w).tick_count = 1
BY DEF Reset, Ohlcv

\* A candle grows by a tick as it grows by the candle of that tick alone.
LEMMA UpdateIsMerge ==
    ASSUME NEW c \in Candles, NEW t \in Ticks, NEW w \in {ShortWindow, LongWindow}
    PROVE  Ohlcv(Merge(c, Reset(t, w))) = Ohlcv(Update(c, t))
<1> DEFINE r == Reset(t, w)
<1>1. /\ r \in Candles
      /\ r.high = t.price /\ r.low = t.price /\ r.close = t.price /\ r.volume = t.volume
      /\ r.tick_count = 1
  BY ResetType, ResetFields
<1> HIDE DEF r
<1>2. Ohlcv(Merge(c, r)) = <<c.open, Higher(c.high, r.high), Lower(c.low, r.low), r.close,
                             c.volume + r.volume, c.tick_count + r.tick_count>>
  BY <1>1, MergeFields
<1>3. Ohlcv(Merge(c, r)) = Ohlcv(Update(c, t))
  BY <1>1, <1>2, UpdateFields
<1> QED BY <1>3 DEF r

\* What a tick adds to a candle depends on its prices, volume and count only.
LEMMA UpdateCongruent ==
    ASSUME NEW c \in Candles, NEW d \in Candles, NEW t \in Ticks, Ohlcv(c) = Ohlcv(d)
    PROVE  Ohlcv(Update(c, t)) = Ohlcv(Update(d, t))
<1>1. /\ c.open = d.open /\ c.high = d.high /\ c.low = d.low
      /\ c.volume = d.volume /\ c.tick_count = d.tick_count
  BY DEF Ohlcv
<1> QED BY <1>1, UpdateFields

\* It is the same to add a tick to the last of two candles or to the two together.
LEMMA MergeUpdate ==
    ASSUME NEW c \in Candles, NEW d \in Candles, NEW t \in Ticks
    PROVE  Ohlcv(Merge(c, Update(d, t))) = Ohlcv(Update(Merge(c, d), t))
<1> DEFINE u == Update(d, t)
           m == Merge(c, d)
<1>1. u \in Candles /\ m \in Candles
  BY UpdateType, MergeFields
<1>2. /\ u.high = Higher(d.high, t.price) /\ u.low = Lower(d.low, t.price) /\ u.close = t.price
      /\ u.volume = d.volume + t.volume /\ u.tick_count = d.tick_count + 1
  <2>1. Ohlcv(u) = <<d.open, Higher(d.high, t.price), Lower(d.low, t.price), t.price,
                     d.volume + t.volume, d.tick_count + 1>>
    BY UpdateFields
  <2> HIDE DEF u
  <2> QED BY <2>1 DEF Ohlcv
<1>3. /\ m.open = c.open /\ m.high = Higher(c.high, d.high) /\ m.low = Lower(c.low, d.low)
      /\ m.volume = c.volume + d.volume /\ m.tick_count = c.tick_count + d.tick_count
  <2>1. Ohlcv(m) = <<c.open, Higher(c.high, d.high), Lower(c.low, d.low), d.close,
                     c.volume + d.volume, c.tick_count + d.tick_count>>
    BY MergeFields
  <2> HIDE DEF m
  <2> QED BY <2>1 DEF Ohlcv
<1> HIDE DEF u, m
<1>4. Ohlcv(Merge(c, u)) = <<c.open, Higher(c.high, u.high), Lower(c.low, u.low), u.close,
                             c.volume + u.volume, c.tick_count + u.tick_count>>
  BY <1>1, MergeFields
<1>5. Ohlcv(Update(m, t)) = <<m.open, Higher(m.high, t.price), Lower(m.low, t.price), t.price,
                              m.volume + t.volume, m.tick_count + 1>>
  BY <1>1, UpdateFields
<1>6. /\ c.high \in Int /\ c.low \in Int /\ c.volume \in Int /\ c.tick_count \in Nat
      /\ d.high \in Int /\ d.low \in Int /\ d.volume \in Int /\ d.tick_count \in Nat
      /\ t.price \in Int /\ t.volume \in Int
  BY CandleFields, TickType
<1>7. /\ Higher(c.high, Higher(d.high, t.price)) = Higher(Higher(c.high, d.high), t.price)
      /\ Lower(c.low, Lower(d.low, t.price)) = Lower(Lower(c.low, d.low), t.price)
  BY <1>6 DEF Higher, Lower
<1>8. /\ c.volume + (d.volume + t.volume) = (c.volume + d.volume) + t.volume
      /\ c.tick_count + (d.tick_count + 1) = (c.tick_count + d.tick_count) + 1
  BY <1>6
<1> QED BY <1>2, <1>3, <1>4, <1>5, <1>7, <1>8 DEF u, m

\* The running merge of candles is a candle.
LEMMA MergedType ==
    ASSUME NEW e \in Seq(Candles), NEW i \in Nat, i < Len(e)
    PROVE  \A n \in i + 1 .. Len(e) : MergedFrom(e, i)[n] \in Candles
<1> DEFINE S == {k \in Nat : i + 1 + k <= Len(e) => MergedFrom(e, i)[i + 1 + k] \in Candles}
<1>1. 0 \in S
  <2>1. i + 1 + 0 = i + 1 /\ i + 1 \in i + 1 .. Len(e) /\ i + 1 \in 1 .. Len(e)
    OBVIOUS
  <2>2. MergedFrom(e, i)[i + 1] = e[i + 1]
    BY <2>1, MergedDef
  <2>3. e[i + 1] \in Candles
    BY <2>1
  <2> QED BY <2>1, <2>2, <2>3
<1>2. ASSUME NEW k \in S PROVE k + 1 \in S
  <2> DEFINE n == i + 1 + (k + 1)
  <2>1. SUFFICES ASSUME n <= Len(e) PROVE MergedFrom(e, i)[n] \in Candles
    OBVIOUS
  <2>2. /\ n \in i + 1 .. Len(e) /\ n # i + 1 /\ n - 1 = i + 1 + k /\ n \in 1 .. Len(e)
        /\ i + 1 + k <= Len(e)
    BY <2>1
  <2>3. MergedFrom(e, i)[n - 1] \in Candles
    BY <2>2
  <2> HIDE DEF n, S
  <2>4. MergedFrom(e, i)[n] = Merge(MergedFrom(e, i)[n - 1], e[n])
    BY <2>2, MergedDef
  <2>5. e[n] \in Candles
    BY <2>2
  <2> QED BY <2>3, <2>4, <2>5, MergeFields
<1>3. S = Nat
  <2>1. S \in SUBSET Nat OBVIOUS
  <2> HIDE DEF S
  <2> QED BY <1>1, <1>2, <2>1, Induction
<1>4. ASSUME NEW n \in i + 1 .. Len(e) PROVE MergedFrom(e, i)[n] \in Candles
  <2>1. n - (i + 1) \in Nat /\ i + 1 + (n - (i + 1)) = n /\ n <= Len(e)
    OBVIOUS
  <2> QED BY <1>3, <2>1
<1> QED BY <1>4

\* A candle emitted later does not change it.
LEMMA MergedPrefix ==
    ASSUME NEW e \in Seq(Candles), NEW c \in Candles, NEW i \in Nat, i < Len(e)
    PROVE  \A n \in i + 1 .. Len(e) : MergedFrom(Append(e, c), i)[n] = MergedFrom(e, i)[n]
<1> DEFINE f == Append(e, c)
           S == {k \in Nat : i + 1 + k <= Len(e) =>
                     MergedFrom(f, i)[i + 1 + k] = MergedFrom(e, i)[i + 1 + k]}
<1>0. /\ f \in Seq(Candles) /\ Len(f) = Len(e) + 1 /\ Len(e) \in Nat
      /\ \A n \in 1 .. Len(e) : f[n] = e[n]
  OBVIOUS
<1> HIDE DEF f
<1>1. 0 \in S
  <2>1. /\ i + 1 + 0 = i + 1 /\ i + 1 \in i + 1 .. Len(e) /\ i + 1 \in 1 .. Len(e)
        /\ i + 1 \in i + 1 .. Len(f) /\ i < Len(f)
    BY <1>0
  <2>2. MergedFrom(e, i)[i + 1] = e[i + 1] /\ MergedFrom(f, i)[i + 1] = f[i + 1]
    BY <1>0, <2>1, MergedDef
  <2> QED BY <1>0, <2>1, <2>2
<1>2. ASSUME NEW k \in S PROVE k + 1 \in S
  <2> DEFINE n == i + 1 + (k + 1)
  <2>1. SUFFICES ASSUME n <= Len(e) PROVE MergedFrom(f, i)[n] = MergedFrom(e, i)[n]
    OBVIOUS
  <2>2. /\ n \in i + 1 .. Len(e) /\ n # i + 1 /\ n - 1 = i + 1 + k /\ n \in 1 .. Len(e)
        /\ i + 1 + k <= Len(e) /\ n \in i + 1 .. Len(f) /\ i < Len(f)
    BY <1>0, <2>1
  <2>3. MergedFrom(f, i)[n - 1] = MergedFrom(e, i)[n - 1]
    BY <2>2
  <2> HIDE DEF n, S
  <2>4. MergedFrom(e, i)[n] = Merge(MergedFrom(e, i)[n - 1], e[n])
    BY <2>2, MergedDef
  <2>5. MergedFrom(f, i)[n] = Merge(MergedFrom(f, i)[n - 1], f[n])
    BY <1>0, <2>2, MergedDef
  <2> QED BY <1>0, <2>2, <2>3, <2>4, <2>5
<1>3. S = Nat
  <2>1. S \in SUBSET Nat OBVIOUS
  <2> HIDE DEF S
  <2> QED BY <1>1, <1>2, <2>1, Induction
<1>4. ASSUME NEW n \in i + 1 .. Len(e) PROVE MergedFrom(f, i)[n] = MergedFrom(e, i)[n]
  <2>1. n - (i + 1) \in Nat /\ i + 1 + (n - (i + 1)) = n /\ n <= Len(e)
    OBVIOUS
  <2> QED BY <1>3, <2>1
<1> QED BY <1>4 DEF f

-----------------------------------------------------------------------------
(***************************************************************************)
(* The hour in the making                                                  *)
(***************************************************************************)
\* The current quarter is put after the emitted ones.
LEMMA TogetherType ==
    ASSUME NEW e \in Seq(Candles), NEW i \in 0 .. Len(e), NEW q \in Candles
    PROVE  /\ Together(e, i, q) \in Candles
           /\ i = Len(e) => Together(e, i, q) = q
           /\ i # Len(e) => /\ MergedFrom(e, i)[Len(e)] \in Candles
                            /\ Together(e, i, q) = Merge(MergedFrom(e, i)[Len(e)], q)
<1>1. CASE i = Len(e)
  BY <1>1 DEF Together
<1>2. CASE i # Len(e)
  <2>1. i \in Nat /\ i < Len(e) /\ Len(e) \in i + 1 .. Len(e)
    BY <1>2
  <2>2. MergedFrom(e, i)[Len(e)] \in Candles
    BY <2>1, MergedType
  <2> QED BY <1>2, <2>2, MergeFields DEF Together
<1> QED BY <1>1, <1>2

\* Once it is emitted itself, the running merge ends with what they were together.
LEMMA MergedAppend ==
    ASSUME NEW e \in Seq(Candles), NEW i \in 0 .. Len(e), NEW q \in Candles
    PROVE  MergedFrom(Append(e, q), i)[Len(e) + 1] = Together(e, i, q)
<1> DEFINE f == Append(e, q)
<1>1. /\ f \in Seq(Candles) /\ Len(f) = Len(e) + 1 /\ Len(e) \in Nat /\ f[Len(e) + 1] = q
      /\ i \in Nat /\ i < Len(f)
  OBVIOUS
<1>2. Len(e) + 1 \in i + 1 .. Len(f)
  BY <1>1
<1> HIDE DEF f
<1>3. MergedFrom(f, i)[Len(e) + 1] =
          IF Len(e) + 1 = i + 1 THEN f[Len(e) + 1]
          ELSE Merge(MergedFrom(f, i)[Len(e) + 1 - 1], f[Len(e) + 1])
  BY <1>1, <1>2, MergedDef
<1>4. CASE i = Len(e)
  BY <1>1, <1>3, <1>4 DEF Together, f
<1>5. CASE i # Len(e)
  <2>1. Len(e) + 1 # i + 1 /\ Len(e) + 1 - 1 = Len(e) /\ Len(e) \in i + 1 .. Len(e) /\ i < Len(e)
    BY <1>1, <1>5
  <2>2. MergedFrom(f, i)[Len(e)] = MergedFrom(e, i)[Len(e)]
    BY <1>1, <2>1, MergedPrefix DEF f
  <2> QED BY <1>1, <1>3, <1>5, <2>1, <2>2 DEF Together, f
<1> QED BY <1>4, <1>5

\* What is known of the emitted candles stays so when another one follows them.
LEMMA AfterHourAppend ==
    ASSUME NEW e \in Seq(Candles), NEW c \in Candles,
           NEW j \in 1 .. Len(e) + 1, NEW i \in 0 .. Len(e), i < j, AfterHour(e, i, j)
    PROVE  AfterHour(Append(e, c), i, j)
<1>1. /\ Len(e) \in Nat
      /\ \A n \in 1 .. Len(e) : Append(e, c)[n] = e[n]
  OBVIOUS
<1>2. i = 0 \/ i \in 1 .. Len(e)
  BY <1>1
<1>3. \A n \in i + 1 .. j - 1 : n \in 1 .. Len(e)
  BY <1>1
<1> HIDE DEF AfterHour
<1> QED BY <1>1, <1>2, <1>3 DEF AfterHour

\* A quarter, or an hour that is the quarters since the hour before.
LEMMA HoursAppend ==
    ASSUME NEW e \in Seq(Candles), NEW c \in Candles, HoursAreQuarters(e),
           c.window_minutes = LongWindow =>
               \E i \in 0 .. Len(e) - 1 : /\ AfterHour(e, i, Len(e) + 1)
                                          /\ Ohlcv(MergedFrom(e, i)[Len(e)]) = Ohlcv(c)
    PROVE  HoursAreQuarters(Append(e, c))
<1> DEFINE f == Append(e, c)
<1>1. /\ Len(f) = Len(e) + 1 /\ Len(e) \in Nat /\ f[Len(e) + 1] = c
      /\ \A n \in 1 .. Len(e) : f[n] = e[n]
  OBVIOUS
<1> HIDE DEF f
<1>2. ASSUME NEW j \in 1 .. Len(f), f[j].window_minutes = LongWindow
      PROVE  \E i \in 0 .. j - 2 :
                 AfterHour(f, i, j) /\ Ohlcv(MergedFrom(f, i)[j - 1]) = Ohlcv(f[j])
  <2>1. \E i \in 0 .. j - 2 :
            AfterHour(e, i, j) /\ Ohlcv(MergedFrom(e, i)[j - 1]) = Ohlcv(f[j])
    <3>1. CASE j = Len(e) + 1
      <4>1. PICK i \in 0 .. Len(e) - 1 : /\ AfterHour(e, i, Len(e) + 1)
                                         /\ Ohlcv(MergedFrom(e, i)[Len(e)]) = Ohlcv(c)
        BY <1>1, <1>2, <3>1
      <4>2. j - 1 = Len(e) /\ i \in 0 .. j - 2
        BY <1>1, <3>1
      <4> QED BY <1>1, <3>1, <4>1, <4>2
    <3>2. CASE j \in 1 .. Len(e)
      BY <1>1, <1>2, <3>2 DEF HoursAreQuarters
    <3> QED BY <1>1, <3>1, <3>2
  <2>2. PICK i \in 0 .. j - 2 :
            AfterHour(e, i, j) /\ Ohlcv(MergedFrom(e, i)[j - 1]) = Ohlcv(f[j])
    BY <2>1
  <2>3. /\ j \in 1 .. Len(e) + 1 /\ i \in 0 .. Len(e) /\ i < j /\ i \in Nat /\ i < Len(e)
        /\ j - 1 \in i + 1 .. Len(e)
    BY <1>1
  <2>4. AfterHour(f, i, j)
    BY <2>2, <2>3, AfterHourAppend DEF f
  <2>5. MergedFrom(f, i)[j - 1] = MergedFrom(e, i)[j - 1]
    BY <2>3, MergedPrefix DEF f
  <2> QED BY <2>2, <2>4, <2>5
<1> QED BY <1>2 DEF HoursAreQuarters, f

\* The first half of the update, at rest before it.
LEMMA QuarterGather ==
    ASSUME NEW t \in Ticks, NEW e \in Seq(Candles),
           NEW q \in Candles \cup {NoCandle}, NEW h \in Candles \cup {NoCandle},
           Newest(q, ShortWindow, e), Newest(h, LongWindow, e), Resting(q, h), Gathered(q, h, e)
    PROVE  Gathering(Fold(q, t, ShortWindow), h, t, e \o Closed(q, t))
<1>0. Len(e) \in Nat /\ t.timestamp_ms \in Nat
  BY TickType
<1>1. CASE q = NoCandle
  <2>1. h = NoCandle
    BY <1>1 DEF Resting
  <2>2. \A n \in 1 .. Len(e) : FALSE
    <3>1. SUFFICES ASSUME NEW n \in 1 .. Len(e) PROVE FALSE OBVIOUS
    <3>2. e[n] \in Candles OBVIOUS
    <3> QED BY <1>1, <2>1, <3>2, CandleType DEF Newest
  <2>3. Len(e) = 0
    BY <1>0, <2>2
  <2>4. e \o Closed(q, t) = e /\ Fold(q, t, ShortWindow) = Reset(t, ShortWindow)
    BY <1>1, ClosedCases DEF Fold
  <2>5. AfterHour(e, 0, Len(e) + 1)
    BY <2>3 DEF AfterHour
  <2>6. Ohlcv(Reset(t, ShortWindow)) = Ohlcv(Reset(t, LongWindow))
    BY ResetFields
  <2> QED BY <2>1, <2>3, <2>4, <2>5, <2>6 DEF Gathering
<1>2. CASE q # NoCandle
  <2>1. /\ q \in Candles /\ h \in Candles /\ h # NoCandle
        /\ Aligned(q, ShortWindow) /\ Aligned(h, LongWindow) /\ Inside(q, h)
    BY <1>2 DEF Resting, Newest
  <2>2. PICK i \in 0 .. Len(e) : /\ AfterHour(e, i, Len(e) + 1)
                                 /\ Ohlcv(h) = Ohlcv(Together(e, i, q))
    BY <1>2 DEF Gathered
  <2>3. Together(e, i, q) \in Candles
    BY <2>1, TogetherType
  <2>4. Ohlcv(Update(h, t)) = Ohlcv(Update(Together(e, i, q), t))
    BY <2>1, <2>2, <2>3, UpdateCongruent
  <2>5. CASE ~IsExpired(q, t)
    <3>1. ~IsExpired(h, t)
      <4>1. /\ q.close_time_ms \in Nat /\ h.close_time_ms \in Nat
            /\ q.close_time_ms <= h.close_time_ms
        BY <2>1, CandleType DEF Inside
      <4> QED BY <1>0, <2>5, <4>1 DEF IsExpired
    <3>2. e \o Closed(q, t) = e /\ Fold(q, t, ShortWindow) = Update(q, t)
      BY <1>2, <2>5, ClosedCases DEF Fold
    <3>3. Update(q, t) \in Candles
      BY <2>1, UpdateType
    <3>4. Ohlcv(Update(Together(e, i, q), t)) = Ohlcv(Together(e, i, Update(q, t)))
      <4>1. CASE i = Len(e)
        BY <2>1, <3>3, <4>1, TogetherType
      <4>2. CASE i # Len(e)
        <5>1. /\ MergedFrom(e, i)[Len(e)] \in Candles
              /\ Together(e, i, q) = Merge(MergedFrom(e, i)[Len(e)], q)
              /\ Together(e, i, Update(q, t)) = Merge(MergedFrom(e, i)[Len(e)], Update(q, t))
          BY <2>1, <3>3, <4>2, TogetherType
        <5> QED BY <2>1, <5>1, MergeUpdate
      <4> QED BY <4>1, <4>2
    <3> QED BY <2>1, <2>2, <2>4, <3>1, <3>2, <3>4 DEF Gathering
  <2>6. CASE IsExpired(q, t)
    <3> DEFINE f == Append(e, q)
               r == Reset(t, ShortWindow)
    <3>1. e \o Closed(q, t) = f /\ Fold(q, t, ShortWindow) = r
      BY <1>2, <2>6, ClosedCases DEF Fold
    <3>2. /\ Len(f) = Len(e) + 1 /\ f \in Seq(Candles) /\ f[Len(e) + 1] = q /\ r \in Candles
          /\ i \in 0 .. Len(f) /\ i < Len(f) /\ i # Len(f)
      BY <1>0, <2>1, ResetType
    <3>3. MergedFrom(f, i)[Len(f)] = Together(e, i, q)
      BY <2>1, <3>2, MergedAppend
    <3>4. AfterHour(f, i, Len(f) + 1)
      <4>1. AfterHour(f, i, Len(e) + 1)
        <5>1. Len(e) + 1 \in 1 .. Len(e) + 1 /\ i < Len(e) + 1
          BY <1>0
        <5> QED BY <2>1, <2>2, <5>1, AfterHourAppend
      <4>2. f[Len(f)].window_minutes # LongWindow
        BY <2>1, <3>2, WindowType DEF Aligned
      <4>3. \A n \in i + 1 .. Len(f) + 1 - 1 : n = Len(f) \/ n \in i + 1 .. Len(e) + 1 - 1
        BY <1>0, <3>2
      <4> HIDE DEF f
      <4> QED BY <4>1, <4>2, <4>3 DEF AfterHour
    <3> HIDE DEF f, r
    <3>5. Together(f, i, r) = Merge(MergedFrom(f, i)[Len(f)], r)
      BY <3>2, TogetherType
    <3>6. Ohlcv(Merge(Together(e, i, q), r)) = Ohlcv(Update(Together(e, i, q), t))
      BY <2>3, UpdateIsMerge DEF r
    <3>7. Ohlcv(Update(h, t)) = Ohlcv(Together(f, i, r))
      BY <2>4, <3>3, <3>5, <3>6
    <3>8. Ohlcv(r) = Ohlcv(Reset(t, LongWindow))
      BY ResetFields DEF r
    <3>9. Ohlcv(MergedFrom(f, i)[Len(f)]) = Ohlcv(h)
      BY <2>2, <3>3
    <3>10. Gathering(r, h, t, f)
      BY <2>1, <3>2, <3>4, <3>7, <3>8, <3>9 DEF Gathering
    <3> QED BY <3>1, <3>10
  <2> QED BY <2>5, <2>6
<1> QED BY <1>1, <1>2

\* The second half.
LEMMA HourGather ==
    ASSUME NEW t \in Ticks, NEW e \in Seq(Candles),
           NEW q \in Candles, NEW h \in Candles \cup {NoCandle},
           h # NoCandle => Aligned(h, LongWindow), Gathering(q, h, t, e), HoursAreQuarters(e)
    PROVE  /\ Gathered(q, Fold(h, t, LongWindow), e \o Closed(h, t))
           /\ HoursAreQuarters(e \o Closed(h, t))
<1>0. Len(e) \in Nat
  OBVIOUS
<1>1. PICK i \in 0 .. Len(e) :
          /\ AfterHour(e, i, Len(e) + 1)
          /\ h # NoCandle /\ ~IsExpired(h, t) => Ohlcv(Update(h, t)) = Ohlcv(Together(e, i, q))
          /\ h = NoCandle \/ IsExpired(h, t) => Ohlcv(q) = Ohlcv(Reset(t, LongWindow))
          /\ h = NoCandle => i = Len(e)
          /\ h # NoCandle /\ IsExpired(h, t) =>
                i < Len(e) /\ Ohlcv(MergedFrom(e, i)[Len(e)]) = Ohlcv(h)
  BY DEF Gathering
<1>2. CASE h # NoCandle /\ ~IsExpired(h, t)
  <2>1. e \o Closed(h, t) = e /\ Fold(h, t, LongWindow) = Update(h, t)
    BY <1>2, ClosedCases DEF Fold
  <2> QED BY <1>1, <1>2, <2>1 DEF Gathered
<1>3. CASE h = NoCandle
  <2>1. e \o Closed(h, t) = e /\ Fold(h, t, LongWindow) = Reset(t, LongWindow)
    BY <1>3, ClosedCases DEF Fold
  <2>2. Together(e, i, q) = q
    BY <1>1, <1>3, TogetherType
  <2> QED BY <1>1, <1>3, <2>1, <2>2 DEF Gathered
<1>4. CASE h # NoCandle /\ IsExpired(h, t)
  <2> DEFINE f == Append(e, h)
             r == Reset(t, LongWindow)
  <2>1. e \o Closed(h, t) = f /\ Fold(h, t, LongWindow) = r
    BY <1>4, ClosedCases DEF Fold
  <2>2. /\ h \in Candles /\ h.window_minutes = LongWindow
        /\ Len(f) = Len(e) + 1 /\ f \in Seq(Candles) /\ f[Len(f)] = h
    BY <1>0, <1>4 DEF Aligned
  <2>3. HoursAreQuarters(f)
    <3>1. i \in 0 .. Len(e) - 1
      BY <1>0, <1>1, <1>4
    <3> HIDE DEF f
    <3> QED BY <1>1, <1>4, <2>2, <3>1, HoursAppend DEF f
  <2>4. AfterHour(f, Len(f), Len(f) + 1) /\ Len(f) \in 0 .. Len(f)
    BY <1>0, <2>2 DEF AfterHour
  <2> HIDE DEF f, r
  <2>5. Together(f, Len(f), q) = q
    BY <2>2, <2>4, TogetherType
  <2>6. Ohlcv(r) = Ohlcv(Together(f, Len(f), q))
    BY <1>1, <1>4, <2>5 DEF r
  <2>7. Gathered(q, r, f)
    BY <2>4, <2>6 DEF Gathered
  <2> QED BY <2>1, <2>3, <2>7
<1> QED BY <1>2, <1>3, <1>4

\* A step that touches neither the state nor the emissions of k.
LEMMA GatherFrame ==
    ASSUME NEW k \in Tickers, GatherInv(k),
           registry'[k] = registry[k], emitted'[k] = emitted[k],
           registry[k] # NoState =>
              /\ quarter'[registry[k]] = quarter[registry[k]]
              /\ hour'[registry[k]] = hour[registry[k]]
              /\ mtx'[registry[k]] = mtx[registry[k]]
              /\ mtx[registry[k]] # NoThread =>
                    tick'[mtx[registry[k]]] = tick[mtx[registry[k]]]
    PROVE  GatherInv(k)'
BY DEF GatherInv

LEMMA GatherStep ==
    ASSUME PathInv, [Next]_vars, NEW k \in Tickers, GatherInv(k)
    PROVE  GatherInv(k)'
<1> USE DEF PathInv
<1>0. NoState \notin States /\ NoThread \notin Threads BY TickAssumption
<1>a. registry[k] # NoState => registry[k] \in States BY DEF TypeOK
<1>1. ASSUME NEW th \in Threads, NEW t \in Ticks, Lookup(th, t) PROVE GatherInv(k)'
  <2>1. /\ pc[th] = "idle" /\ tick' = [tick EXCEPT ![th] = t]
        /\ UNCHANGED <<registry, quarter, hour, mtx, emitted>>
    BY <1>1 DEF Lookup, candleVars, registryVars
  <2>2. ASSUME registry[k] # NoState, mtx[registry[k]] # NoThread
        PROVE  tick'[mtx[registry[k]]] = tick[mtx[registry[k]]]
    <3>1. mtx[registry[k]] \in Threads /\ pc[mtx[registry[k]]] = "hour"
      BY <1>a, <2>2 DEF LockInv, TypeOK
    <3>2. QED BY <2>1, <3>1 DEF TypeOK
  <2>3. QED BY <2>1, <2>2, GatherFrame
<1>2. ASSUME NEW th \in Threads, CreateNew(th) PROVE GatherInv(k)'
  <2> DEFINE n == tick[th].ticker
  <2>1. PICK s \in pool : /\ registry' = [registry EXCEPT ![n] = s]
                          /\ quarter' = [quarter EXCEPT ![s] = NoCandle]
                          /\ hour' = [hour EXCEPT ![s] = NoCandle]
    BY <1>2 DEF CreateNew
  <2>2. /\ n \in Tickers /\ s \in States /\ registry[n] = NoState
        /\ UNCHANGED <<mtx, emitted, tick>>
    BY <1>2, TickType DEF CreateNew, TypeOK
  <2>3. \A j \in Tickers : registry[j] # s BY <1>0, <2>2 DEF StateOwnership
  <2>4. CASE k # n
    <3>1. registry'[k] = registry[k] BY <2>1, <2>4 DEF TypeOK
    <3>2. registry[k] # NoState => /\ quarter'[registry[k]] = quarter[registry[k]]
                                   /\ hour'[registry[k]] = hour[registry[k]]
      BY <1>a, <2>1, <2>3 DEF TypeOK
    <3>3. QED BY <2>2, <3>1, <3>2, GatherFrame
  <2>5. CASE k = n
    <3>1. mtx[s] = NoThread
      <4>1. SUFFICES ASSUME mtx[s] # NoThread PROVE FALSE OBVIOUS
      <4>2. mtx[s] \in Threads /\ registry[tick[mtx[s]].ticker] = s
        BY <2>2, <4>1 DEF LockInv, TypeOK
      <4>3. tick[mtx[s]].ticker \in Tickers BY <4>2, TickType DEF TypeOK
      <4>4. QED BY <2>3, <4>2, <4>3
    <3>2. /\ registry'[k] = s /\ quarter'[s] = NoCandle /\ mtx'[s] = NoThread
      BY <2>1, <2>2, <2>5, <3>1 DEF TypeOK
    <3>3. HoursAreQuarters(emitted'[k]) BY <2>2 DEF GatherInv
    <3>4. QED BY <3>2, <3>3 DEF GatherInv, Gathered
  <2>6. QED BY <2>4, <2>5
<1>3. ASSUME NEW th \in Threads, UpdateQuarter(th) PROVE GatherInv(k)'
  <2> DEFINE t == tick[th]
  <2> DEFINE s == registry[t.ticker]
  <2>1. t \in Ticks /\ t.ticker \in Tickers /\ s \in States
    BY <1>3, Updating DEF UpdateQuarter
  <2>2. /\ mtx[s] = NoThread /\ mtx' = [mtx EXCEPT ![s] = th]
        /\ quarter' = [quarter EXCEPT ![s] = Fold(quarter[s], t, ShortWindow)]
        /\ emitted' = [emitted EXCEPT ![t.ticker] = emitted[t.ticker] \o Closed(quarter[s], t)]
        /\ UNCHANGED <<hour, registry, tick>>
    BY <1>3 DEF UpdateQuarter, registryVars
  <2>3. CASE k # t.ticker
    <3>1. registry[k] # s BY <1>0, <2>1, <2>3 DEF StateOwnership
    <3>2. registry[k] # NoState => /\ quarter'[registry[k]] = quarter[registry[k]]
                                   /\ mtx'[registry[k]] = mtx[registry[k]]
      BY <1>a, <2>2, <3>1 DEF TypeOK
    <3>3. emitted'[k] = emitted[k] BY <2>2, <2>3 DEF TypeOK
    <3>4. QED BY <2>2, <3>2, <3>3, GatherFrame
  <2>4. CASE k = t.ticker
    <3> DEFINE q == quarter[s]
    <3> DEFINE h == hour[s]
    <3> DEFINE e == emitted[k]
    <3>1. registry[k] = s /\ s # NoState BY <1>0, <2>1, <2>4
    <3>2. /\ Newest(q, ShortWindow, e) /\ Newest(h, LongWindow, e) /\ Resting(q, h)
          /\ Gathered(q, h, e) /\ HoursAreQuarters(e)
      BY <2>2, <3>1 DEF CandleInv, GatherInv
    <3>3. /\ q \in Candles \cup {NoCandle} /\ h \in Candles \cup {NoCandle}
          /\ e \in Seq(Candles)
      BY <2>1 DEF TypeOK
    <3>4. /\ quarter'[s] = Fold(q, t, ShortWindow) /\ hour'[s] = h
          /\ mtx'[s] = th /\ th # NoThread /\ tick'[th] = t
          /\ emitted'[k] = e \o Closed(q, t) /\ registry'[k] = s
      BY <1>0, <2>1, <2>2, <2>4 DEF TypeOK
    <3> HIDE DEF t, s, q, h, e
    <3>5. Gathering(Fold(q, t, ShortWindow), h, t, e \o Closed(q, t))
      BY <2>1, <3>2, <3>3, QuarterGather
    <3>6. HoursAreQuarters(e \o Closed(q, t))
      <4>1. CASE q # NoCandle /\ IsExpired(q, t)
        <5>1. q \in Candles /\ q.window_minutes # LongWindow /\ e \o Closed(q, t) = Append(e, q)
          BY <2>1, <3>2, <3>3, <4>1, ClosedCases, WindowType DEF Newest, Aligned
        <5>2. QED BY <3>2, <3>3, <5>1, HoursAppend
      <4>2. CASE ~(q # NoCandle /\ IsExpired(q, t))
        BY <2>1, <3>2, <3>3, <4>2, ClosedCases
      <4>3. QED BY <4>1, <4>2
    <3>7. QED BY <3>1, <3>4, <3>5, <3>6 DEF GatherInv
  <2>5. QED BY <2>3, <2>4
<1>4. ASSUME NEW th \in Threads, UpdateHour(th) PROVE GatherInv(k)'
  <2> DEFINE t == tick[th]
  <2> DEFINE s == registry[t.ticker]
  <2>1. t \in Ticks /\ t.ticker \in Tickers /\ s \in States
    BY <1>4, Updating DEF UpdateHour
  <2>2. /\ mtx[s] = th /\ mtx' = [mtx EXCEPT ![s] = NoThread]
        /\ hour' = [hour EXCEPT ![s] = Fold(hour[s], t, LongWindow)]
        /\ emitted' = [emitted EXCEPT ![t.ticker] = emitted[t.ticker] \o Closed(hour[s], t)]
        /\ UNCHANGED <<quarter, registry, tick>>
    BY <1>4 DEF UpdateHour, registryVars, LockInv
  <2>3. CASE k # t.ticker
    <3>1. registry[k] # s BY <1>0, <2>1, <2>3 DEF StateOwnership
    <3>2. registry[k] # NoState => /\ hour'[registry[k]] = hour[registry[k]]
                                   /\ mtx'[registry[k]] = mtx[registry[k]]
      BY <1>a, <2>2, <3>1 DEF TypeOK
    <3>3. emitted'[k] = emitted[k] BY <2>2, <2>3 DEF TypeOK
    <3>4. QED BY <2>2, <3>2, <3>3, GatherFrame
  <2>4. CASE k = t.ticker
    <3> DEFINE q == quarter[s]
    <3> DEFINE h == hour[s]
    <3> DEFINE e == emitted[k]
    <3>1. registry[k] = s /\ s # NoState /\ th # NoThread BY <1>0, <2>1, <2>4
    <3>2. /\ Newest(h, LongWindow, e) /\ Halfway(q, h, t, e)
          /\ Gathering(q, h, t, e) /\ HoursAreQuarters(e)
      BY <2>2, <3>1 DEF CandleInv, GatherInv
    <3>3. /\ q \in Candles \cup {NoCandle} /\ h \in Candles \cup {NoCandle}
          /\ e \in Seq(Candles)
      BY <2>1 DEF TypeOK
    <3>4. q \in Candles /\ (h # NoCandle => Aligned(h, LongWindow))
      BY <3>2, <3>3 DEF Newest, Halfway
    <3>5. /\ hour'[s] = Fold(h, t, LongWindow) /\ quarter'[s] = q /\ mtx'[s] = NoThread
          /\ emitted'[k] = e \o Closed(h, t) /\ registry'[k] = s
      BY <2>1, <2>2, <2>4 DEF TypeOK
    <3> HIDE DEF t, s, q, h, e
    <3>6. /\ Gathered(q, Fold(h, t, LongWindow), e \o Closed(h, t))
          /\ HoursAreQuarters(e \o Closed(h, t))
      BY <2>1, <3>2, <3>3, <3>4, HourGather
    <3>7. QED BY <3>1, <3>5, <3>6 DEF GatherInv
  <2>5. QED BY <2>3, <2>4
<1>5. ASSUME NEW th \in Threads, CreateFound(th) \/ CreateFails(th)
      PROVE  GatherInv(k)'
  BY <1>5, GatherFrame DEF CreateFound, CreateFails, candleVars, registryVars
<1>6. ASSUME UNCHANGED vars PROVE GatherInv(k)'
  BY <1>6, GatherFrame DEF vars, candleVars, registryVars
<1>7. QED
  BY <1>1, <1>2, <1>3, <1>4, <1>5, <1>6 DEF Next, Step, Terminating

-----------------------------------------------------------------------------
(***************************************************************************)
(* Theorems about prices, volumes and tick counts                          *)
(***************************************************************************)
\* The inductive invariant with the prices, volumes and tick counts of the candles.
THEOREM SwingInvariance == Spec => []SwingInv
<1>1. Init => \A k \in Tickers : GatherInv(k)
  BY DEF Init, GatherInv, HoursAreQuarters
<1>2. Init => SwingInv
  BY <1>1, PathInit DEF SwingInv
<1>3. SwingInv /\ [Next]_vars => SwingInv'
  BY PathStep, GatherStep DEF SwingInv
<1>4. QED BY <1>2, <1>3, PTL DEF Spec

\* A 1-hour candle update_swing_state() emits has the open, high, low, close, volume
\* and tick count of the 15-minute candles emitted since the hour before it: every
\* tick that went into one of the two went into the other, in any order of the ticks.
THEOREM HoursAreTheirQuarters == Spec => []HourIsItsQuarters
<1>1. SwingInv => HourIsItsQuarters BY DEF SwingInv, GatherInv, HourIsItsQuarters
<1>2. QED BY <1>1, SwingInvariance, PTL

=============================================================================
