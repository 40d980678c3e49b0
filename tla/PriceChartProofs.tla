-------------------------- MODULE PriceChartProofs --------------------------
(***************************************************************************)
(* Theorems about the chart panel of PriceChart and their proofs.          *)
(*                                                                         *)
(* First what a step of a render changes (Frame) and what the operators on *)
(* bars return (Good, Drawn, and Told: the bars that were answered), then  *)
(* renders with the same selection (Wired, Pure, Kept), renders after a    *)
(* switch (Turned, TurnedInto), the requests in flight (FlightOk), and the *)
(* invariant, one lemma per action.                                        *)
(***************************************************************************)
EXTENDS PriceChart, FiniteSetTheorems, SequenceTheorems, TLAPS

Fields == {"ticker", "interval", "ready", "loaded", "data", "newData", "price", "newPrice",
           "legend", "hovered", "dataRef", "intervalRef", "historyRef", "fetching", "noMore",
           "buffer", "flight", "chart", "series", "shown"}

IsSeq(s) == \E S : s \in Seq(S)

-----------------------------------------------------------------------------
(***************************************************************************)
(* One render, without the sets that chain its steps                       *)
(***************************************************************************)
Cleaned(x) ==
    IF Selection(Deps(x)) # Selection(x.shown) /\ x.shown.ticker # None THEN RemoveChart(x) ELSE x
Synced(x) ==
    SyncHistoryRef(Deps(x), SyncIntervalRef(Deps(x), SyncDataRef(Deps(x), Cleaned(x))))
Charted(x) == CreateChart(Deps(x), [Synced(x) EXCEPT !.newData = FALSE, !.newPrice = FALSE])
Asked(x) == LoadHistory(Deps(x), Charted(x))
Lived(x) == LivePrice(Deps(x), Asked(x), x.newPrice)
Rendered(x) == [Lived(x) EXCEPT !.shown = Deps(x)]

LEMMA OnlyOne == \A e : Only({e}) = e
BY DEF Only

LEMMA CommitRenders ==
    ASSUME NEW x
    PROVE  Commit(x) = IF Settled(x) THEN x ELSE Rendered(x)
<1>1. CASE Settled(x) BY <1>1 DEF Commit
<1>2. CASE ~Settled(x)
  <2> DEFINE r == Deps(x)
             cleaned == {Cleaned(x)}
             synced == {SyncHistoryRef(r, SyncIntervalRef(r, SyncDataRef(r, y))) : y \in cleaned}
             charted == {CreateChart(r, [y EXCEPT !.newData = FALSE, !.newPrice = FALSE]) :
                            y \in synced}
             asked == {LoadHistory(r, y) : y \in charted}
             live == {LivePrice(r, y, x.newPrice) : y \in asked}
             done == {[y EXCEPT !.shown = r] : y \in live}
  <2>1. Commit(x) = Only(done) BY <1>2 DEF Commit, Cleaned
  <2>2. synced = {Synced(x)} BY DEF Synced
  <2> HIDE DEF synced
  <2>3. charted = {Charted(x)} BY <2>2 DEF Charted
  <2> HIDE DEF charted
  <2>4. asked = {Asked(x)} BY <2>3 DEF Asked
  <2> HIDE DEF asked
  <2>5. live = {Lived(x)} BY <2>4 DEF Lived
  <2> HIDE DEF live
  <2>6. done = {Rendered(x)} BY <2>5 DEF Rendered
  <2> HIDE DEF done
  <2> QED BY <1>2, <2>1, <2>6, OnlyOne
<1> QED BY <1>1, <1>2

LEMMA SettleCommits ==
    ASSUME NEW x
    PROVE  Settle(x) = Commit(Commit(Commit(Commit(x))))
<1> DEFINE one == {Commit(v) : v \in {x}}
           two == {Commit(w) : w \in one}
           three == {Commit(z) : z \in two}
           four == {Commit(y) : y \in three}
<1>1. Settle(x) = Only(four) BY DEF Settle
<1>2. one = {Commit(x)} OBVIOUS
<1> HIDE DEF one
<1>3. two = {Commit(Commit(x))} BY <1>2
<1> HIDE DEF two
<1>4. three = {Commit(Commit(Commit(x)))} BY <1>3
<1> HIDE DEF three
<1>5. four = {Commit(Commit(Commit(Commit(x))))} BY <1>4
<1> HIDE DEF four
<1> QED BY <1>1, <1>5, OnlyOne

-----------------------------------------------------------------------------
(***************************************************************************)
(* What a step leaves alone                                                *)
(***************************************************************************)
\* y is x but for the fields of `changed`.
Frame(x, y, changed) ==
    /\ DOMAIN y = Fields
    /\ \A f \in Fields \ changed : y[f] = x[f]

LEMMA ApplyTickFrame ==
    ASSUME NEW x, DOMAIN x = Fields, NEW t, NEW at
    PROVE  Frame(x, ApplyTick(x, t, at), {"data", "series"})
<1> DEFINE iv   == x.intervalRef
           key  == TimeKey(iv, at)
           n    == Len(x.data)
           last == IF n = 0 THEN -1 ELSE TimeKey(iv, x.data[n].time)
           src  == <<t, x.interval>>
           bar == [x.data[n] EXCEPT !.from = @ \cup {src}]
           d1 == ReplaceLast(x.data, bar)
           s1 == SeriesUpdate(x.series, IF IsDaily(iv) THEN last ELSE bar.time, bar.from)
           d2 == Append(x.data, Bar(IF IsDaily(iv) THEN at ELSE key, {src}, TRUE))
           s2 == SeriesUpdate(x.series, key, {src})
<1>1. \/ ApplyTick(x, t, at) = x
      \/ ApplyTick(x, t, at) = [x EXCEPT !.data = d1, !.series = s1]
      \/ ApplyTick(x, t, at) = [x EXCEPT !.data = d2, !.series = s2]
  BY DEF ApplyTick
<1> HIDE DEF d1, s1, d2, s2
<1> QED BY <1>1 DEF Frame, Fields

LEMMA EffectFrames ==
    ASSUME NEW x, DOMAIN x = Fields, NEW r, NEW p
    PROVE  /\ Frame(x, RemoveChart(x), {"dataRef", "noMore", "ready", "chart", "series"})
           /\ Frame(x, SyncDataRef(r, x), {"dataRef"})
           /\ Frame(x, SyncIntervalRef(r, x), {"intervalRef"})
           /\ Frame(x, SyncHistoryRef(r, x), {"historyRef"})
           /\ Frame(x, CreateChart(r, x), {"chart", "series", "ready", "noMore"})
           /\ Frame(x, LoadHistory(r, x), {"loaded", "data", "newData", "series", "flight"})
           /\ Frame(x, LivePrice(r, x, p), {"buffer", "data", "series", "newData"})
<1>1. Frame(x, RemoveChart(x), {"dataRef", "noMore", "ready", "chart", "series"})
  BY DEF Frame, Fields, RemoveChart
<1>2. Frame(x, SyncDataRef(r, x), {"dataRef"})
  BY DEF Frame, Fields, SyncDataRef
<1>3. /\ Frame(x, SyncIntervalRef(r, x), {"intervalRef"})
      /\ Frame(x, SyncHistoryRef(r, x), {"historyRef"})
  BY DEF Frame, Fields, SyncIntervalRef, SyncHistoryRef
<1>4. Frame(x, CreateChart(r, x), {"chart", "series", "ready", "noMore"})
  BY DEF Frame, Fields, CreateChart
<1>5. Frame(x, LoadHistory(r, x), {"loaded", "data", "newData", "series", "flight"})
  <2> DEFINE q == Append(x.flight, Request("history", Selection(r), now, <<>>))
  <2>1. \/ LoadHistory(r, x) = x
        \/ LoadHistory(r, x) = [x EXCEPT !.loaded = FALSE, !.data = <<>>, !.newData = TRUE,
                                         !.series = <<>>]
        \/ LoadHistory(r, x) = [x EXCEPT !.loaded = FALSE, !.flight = q]
    BY DEF LoadHistory
  <2> HIDE DEF q
  <2> QED BY <2>1 DEF Frame, Fields
<1>6. Frame(x, LivePrice(r, x, p), {"buffer", "data", "series", "newData"})
  <2> DEFINE b == Append(x.buffer, [ticker |-> r.ticker, at |-> now])
             y == ApplyTick(x, r.ticker, now)
             n == y.newData \/ y.data # x.data
  <2>1. \/ LivePrice(r, x, p) = x
        \/ LivePrice(r, x, p) = [x EXCEPT !.buffer = b]
        \/ LivePrice(r, x, p) = [y EXCEPT !.newData = n]
    BY DEF LivePrice
  <2>2. Frame(x, y, {"data", "series"}) BY ApplyTickFrame
  <2> HIDE DEF b, y, n
  <2> QED BY <2>1, <2>2 DEF Frame, Fields
<1> QED BY <1>1, <1>2, <1>3, <1>4, <1>5, <1>6

LEMMA RenderFrames ==
    ASSUME NEW x, DOMAIN x = Fields
    PROVE  /\ Frame(x, Cleaned(x), {"dataRef", "noMore", "ready", "chart", "series"})
           /\ Frame(Cleaned(x), Synced(x), {"dataRef", "intervalRef", "historyRef"})
           /\ Frame(Synced(x), Charted(x),
                    {"newData", "newPrice", "chart", "series", "ready", "noMore"})
           /\ Frame(Charted(x), Asked(x), {"loaded", "data", "newData", "series", "flight"})
           /\ Frame(Asked(x), Lived(x), {"buffer", "data", "series", "newData"})
           /\ Frame(Lived(x), Rendered(x), {"shown"})
<1> DEFINE r == Deps(x)
<1> HIDE DEF r
<1>1. Frame(x, Cleaned(x), {"dataRef", "noMore", "ready", "chart", "series"})
  <2>1. Frame(x, RemoveChart(x), {"dataRef", "noMore", "ready", "chart", "series"})
    BY EffectFrames
  <2>2. Cleaned(x) = RemoveChart(x) \/ Cleaned(x) = x BY DEF Cleaned
  <2> QED BY <2>1, <2>2 DEF Frame
<1>2. Frame(Cleaned(x), Synced(x), {"dataRef", "intervalRef", "historyRef"})
  <2> DEFINE u == SyncDataRef(r, Cleaned(x))
             v == SyncIntervalRef(r, u)
             w == SyncHistoryRef(r, v)
  <2>1. DOMAIN Cleaned(x) = Fields BY <1>1 DEF Frame
  <2>2. Frame(Cleaned(x), u, {"dataRef"}) BY <2>1, EffectFrames
  <2>3. Frame(u, v, {"intervalRef"})
    <3>1. DOMAIN u = Fields BY <2>2 DEF Frame
    <3> HIDE DEF u
    <3> QED BY <3>1, EffectFrames
  <2>4. Frame(v, w, {"historyRef"})
    <3>1. DOMAIN v = Fields BY <2>3 DEF Frame
    <3> HIDE DEF v
    <3> QED BY <3>1, EffectFrames
  <2>5. w = Synced(x) BY DEF Synced, r
  <2> HIDE DEF u, v, w
  <2> QED BY <2>2, <2>3, <2>4, <2>5 DEF Frame
<1>3. Frame(Synced(x), Charted(x), {"newData", "newPrice", "chart", "series", "ready", "noMore"})
  <2> DEFINE u == [Synced(x) EXCEPT !.newData = FALSE, !.newPrice = FALSE]
             v == CreateChart(r, u)
  <2>1. DOMAIN Synced(x) = Fields BY <1>2 DEF Frame
  <2>2. Frame(Synced(x), u, {"newData", "newPrice"}) BY <2>1 DEF Frame, Fields
  <2>3. Frame(u, v, {"chart", "series", "ready", "noMore"})
    <3>1. DOMAIN u = Fields BY <2>2 DEF Frame
    <3> HIDE DEF u
    <3> QED BY <3>1, EffectFrames
  <2>4. v = Charted(x) BY DEF Charted, r
  <2> HIDE DEF u, v
  <2> QED BY <2>2, <2>3, <2>4 DEF Frame
<1>4. Frame(Charted(x), Asked(x), {"loaded", "data", "newData", "series", "flight"})
  <2>1. DOMAIN Charted(x) = Fields BY <1>3 DEF Frame
  <2> QED BY <2>1, EffectFrames DEF Asked
<1>5. Frame(Asked(x), Lived(x), {"buffer", "data", "series", "newData"})
  <2>1. DOMAIN Asked(x) = Fields BY <1>4 DEF Frame
  <2> QED BY <2>1, EffectFrames DEF Lived
<1>6. Frame(Lived(x), Rendered(x), {"shown"})
  <2>1. DOMAIN Lived(x) = Fields BY <1>5 DEF Frame
  <2> QED BY <2>1 DEF Frame, Fields, Rendered
<1> QED BY <1>1, <1>2, <1>3, <1>4, <1>5, <1>6

-----------------------------------------------------------------------------
(***************************************************************************)
(* Sorting                                                                 *)
(***************************************************************************)
\* The numbers of S below x, and how many they are.
Below(S, x) == {y \in S : y < x}

LEMMA BelowGrows ==
    ASSUME NEW S \in SUBSET Int, IsFiniteSet(S), NEW x \in S, NEW y \in S, x < y
    PROVE  /\ Cardinality(Below(S, x)) \in Nat /\ Cardinality(Below(S, y)) \in Nat
           /\ Cardinality(Below(S, x)) < Cardinality(Below(S, y))
           /\ Cardinality(Below(S, y)) < Cardinality(S)
<1> DEFINE A == Below(S, x)
           B == Below(S, y)
<1>1. A \in SUBSET B /\ x \in B /\ x \notin A
  <2>1. \A z \in S : z < x => z < y
    <3> TAKE z \in S
    <3>1. x \in Int /\ y \in Int /\ z \in Int OBVIOUS
    <3> QED BY <3>1
  <2>2. ~(x < x)
    <3>1. x \in Int OBVIOUS
    <3> QED BY <3>1
  <2> QED BY <2>1, <2>2 DEF Below
<1>2. B \in SUBSET S /\ y \in S /\ y \notin B BY DEF Below
<1> HIDE DEF A, B
<1>3. IsFiniteSet(B) /\ Cardinality(B) <= Cardinality(S) /\ Cardinality(S) # Cardinality(B)
  BY <1>2, FS_Subset
<1>4. IsFiniteSet(A) /\ Cardinality(A) <= Cardinality(B) /\ Cardinality(B) # Cardinality(A)
  BY <1>1, <1>3, FS_Subset
<1>5. /\ Cardinality(A) \in Nat /\ Cardinality(B) \in Nat /\ Cardinality(S) \in Nat
  BY <1>3, <1>4, FS_CardinalityType
<1> QED BY <1>3, <1>4, <1>5 DEF A, B

\* Sorted is an ascending sequence of the numbers of S.
LEMMA SortedIs ==
    ASSUME NEW S \in SUBSET Int, IsFiniteSet(S)
    PROVE  /\ Cardinality(S) \in Nat
           /\ Sorted(S) \in Seq(S)
           /\ Len(Sorted(S)) = Cardinality(S)
           /\ DOMAIN Sorted(S) = 1..Cardinality(S)
           /\ \A i \in 1..Cardinality(S) : Sorted(S)[i] \in S
           /\ \A x \in S : \E i \in 1..Cardinality(S) : Sorted(S)[i] = x
           /\ \A i, j \in 1..Cardinality(S) : i < j => Sorted(S)[i] < Sorted(S)[j]
<1> DEFINE n == Cardinality(S)
           rank == [x \in S |-> Cardinality(Below(S, x))]
<1>1. n \in Nat BY FS_CardinalityType
<1>2. \A x \in S : rank[x] \in 0..n-1
  <2> TAKE x \in S
  <2>1. Below(S, x) \in SUBSET S /\ x \notin Below(S, x) BY DEF Below
  <2>2. /\ IsFiniteSet(Below(S, x)) /\ Cardinality(Below(S, x)) <= n
        /\ n # Cardinality(Below(S, x))
    BY <2>1, FS_Subset
  <2>3. Cardinality(Below(S, x)) \in Nat BY <2>2, FS_CardinalityType
  <2>4. rank[x] = Cardinality(Below(S, x)) OBVIOUS
  <2> HIDE DEF n, rank
  <2> QED BY <1>1, <2>2, <2>3, <2>4
<1>3. \A x, y \in S : x < y => rank[x] < rank[y] BY BelowGrows
<1>4. \A x, y \in S : rank[x] = rank[y] => x = y
  <2> TAKE x, y \in S
  <2>1. rank[x] \in Int /\ rank[y] \in Int BY <1>2
  <2>2. x < y \/ y < x \/ x = y OBVIOUS
  <2> HIDE DEF rank
  <2> QED BY <1>3, <2>1, <2>2
<1>5. rank \in Surjection(S, 0..n-1)
  <2>1. rank \in Injection(S, 0..n-1)
    <3>1. rank \in [S -> 0..n-1] BY <1>2
    <3> HIDE DEF rank
    <3> QED BY <1>4, <3>1 DEF Injection, IsInjective
  <2>2. n - 1 \in Int /\ 0 \in Int BY <1>1
  <2>3. IsFiniteSet(0..n-1) /\ Cardinality(0..n-1) = n
    <3>1. /\ IsFiniteSet(0..n-1)
          /\ Cardinality(0..n-1) = IF 0 > n - 1 THEN 0 ELSE n - 1 - 0 + 1
      BY <2>2, FS_Interval
    <3> HIDE DEF n
    <3> QED BY <1>1, <3>1
  <2> HIDE DEF rank
  <2> QED BY <2>1, <2>3, FS_Injection
<1>6. \A k \in 0..n-1 : \E x \in S : rank[x] = k
  <2> HIDE DEF rank
  <2> QED BY <1>5 DEF Surjection
<1> DEFINE Pick(i) == CHOOSE x \in S : Cardinality(Below(S, x)) = i - 1
<1>7. Sorted(S) = [i \in 1..n |-> Pick(i)] BY DEF Sorted, Below
<1>8. \A i \in 1..n : Pick(i) \in S /\ rank[Pick(i)] = i - 1
  <2> TAKE i \in 1..n
  <2>1. i - 1 \in 0..n-1 BY <1>1
  <2>2. \E x \in S : Cardinality(Below(S, x)) = i - 1
    <3>1. PICK x \in S : rank[x] = i - 1 BY <1>6, <2>1
    <3> QED BY <3>1
  <2>3. Pick(i) \in S /\ Cardinality(Below(S, Pick(i))) = i - 1 BY <2>2, Zenon
  <2> HIDE DEF Pick
  <2> QED BY <2>3
<1> HIDE DEF Pick, rank, n
<1> DEFINE u == Sorted(S)
<1>9. /\ u \in [1..n -> S] /\ DOMAIN u = 1..n
      /\ \A i \in 1..n : u[i] \in S /\ rank[u[i]] = i - 1
  BY <1>7, <1>8
<1> HIDE DEF u
<1>10. u \in Seq(S) /\ Len(u) = n BY <1>1, <1>9
<1>11. \A x \in S : \E i \in 1..n : u[i] = x
  <2> TAKE x \in S
  <2> DEFINE k == rank[x] + 1
  <2>1. k \in 1..n /\ k - 1 = rank[x] BY <1>1, <1>2
  <2> HIDE DEF k
  <2>2. rank[u[k]] = rank[x] /\ u[k] \in S BY <1>9, <2>1
  <2> QED BY <1>4, <2>1, <2>2
<1>12. \A i, j \in 1..n : i < j => u[i] < u[j]
  <2> TAKE i, j \in 1..n
  <2> HAVE i < j
  <2>1. u[i] \in Int /\ u[j] \in Int /\ u[i] \in S /\ u[j] \in S BY <1>9
  <2>2. rank[u[i]] = i - 1 /\ rank[u[j]] = j - 1 BY <1>9
  <2>3. ~(u[j] < u[i]) /\ u[i] # u[j]
    <3>1. u[j] < u[i] => rank[u[j]] < rank[u[i]] BY <1>3, <2>1
    <3> QED BY <2>2, <3>1
  <2> QED BY <2>1, <2>3
<1> QED BY <1>1, <1>9, <1>10, <1>11, <1>12 DEF u, n

\* What a function returns on a finite domain is finitely much.
LEMMA RangeIsFinite ==
    ASSUME NEW f, IsFiniteSet(DOMAIN f)
    PROVE  IsFiniteSet({f[x] : x \in DOMAIN f})
<1> DEFINE D == DOMAIN f
           g == [x \in D |-> f[x]]
           T == {f[x] : x \in D}
<1>1. g \in Surjection(D, T) BY DEF Surjection
<1> HIDE DEF g, T
<1>2. IsFiniteSet(T) BY <1>1, FS_Surjection
<1> QED BY <1>2 DEF T

\* A set of numbers that is finite and not empty has a largest.
LEMMA MaxIs ==
    ASSUME NEW S \in SUBSET Int, IsFiniteSet(S), S # {}
    PROVE  Max(S) \in S /\ \A y \in S : Max(S) >= y
<1> DEFINE n == Cardinality(S)
           u == Sorted(S)
<1>1. /\ n \in Nat
      /\ \A i \in 1..n : u[i] \in S
      /\ \A x \in S : \E i \in 1..n : u[i] = x
      /\ \A i, j \in 1..n : i < j => u[i] < u[j]
  BY SortedIs
<1> HIDE DEF n, u
<1>2. n \in 1..n
  <2>1. PICK x \in S : TRUE OBVIOUS
  <2>2. PICK i \in 1..n : u[i] = x BY <1>1
  <2> QED BY <1>1, <2>2
<1>3. \A y \in S : u[n] >= y
  <2> TAKE y \in S
  <2>1. PICK i \in 1..n : u[i] = y BY <1>1
  <2>2. i = n \/ i < n BY <1>1
  <2>3. u[i] \in Int /\ u[n] \in Int BY <1>1, <1>2
  <2> QED BY <1>1, <1>2, <2>1, <2>2, <2>3
<1>4. \E x \in S : \A y \in S : x >= y BY <1>1, <1>2, <1>3
<1>5. Max(S) = CHOOSE x \in S : \A y \in S : x >= y BY DEF Max
<1> QED BY <1>4, <1>5, Zenon

-----------------------------------------------------------------------------
(***************************************************************************)
(* Bars                                                                    *)
(***************************************************************************)
Selections == Tickers \X Intervals

BarsOf(sel) == [time : Nat, from : {{sel}}, live : BOOLEAN]

\* Bars of the selection in time order.
Good(bars, sel) ==
    /\ bars \in Seq(BarsOf(sel))
    /\ \A i, j \in DOMAIN bars : i < j => bars[i].time <= bars[j].time

\* The keys the bars have on the chart.
ChartKeys(bars, sel) == {ChartKey(sel[2], bars[i].time) : i \in DOMAIN bars}

\* The bars of a series and their keys.
Dots(sel) == [key : Nat, from : {{sel}}]
DotKeys(series) == {series[i].key : i \in DOMAIN series}

\* The series draws the bars: one of the selection for each of their keys, ascending.
Drawn(series, bars, sel) ==
    /\ series \in Seq(Dots(sel))
    /\ \A i, j \in DOMAIN series : i < j => series[i].key < series[j].key
    /\ DotKeys(series) = ChartKeys(bars, sel)

LEMMA KeyFacts ==
    ASSUME NEW iv, NEW t \in Nat, NEW u \in Nat
    PROVE  /\ TimeKey(iv, t) \in Nat /\ ChartKey(iv, t) \in Nat
           /\ t <= u => ChartKey(iv, t) <= ChartKey(iv, u)
           /\ IsDaily(iv) => ChartKey(iv, t) = TimeKey(iv, t)
           /\ ~IsDaily(iv) => ChartKey(iv, t) = t
           /\ TimeKey(iv, t) < TimeKey(iv, u) =>
                 /\ ChartKey(iv, t) < TimeKey(iv, u)
                 /\ t < u
                 /\ ~IsDaily(iv) => t < TimeKey(iv, u)
BY DEF TimeKey, ChartKey

LEMMA GoodFacts ==
    ASSUME NEW sel, NEW bars, Good(bars, sel)
    PROVE  /\ bars \in Seq(BarsOf(sel)) /\ Len(bars) \in Nat /\ DOMAIN bars = 1..Len(bars)
           /\ \A i \in 1..Len(bars) :
                 /\ bars[i] \in BarsOf(sel)
                 /\ bars[i].time \in Nat /\ bars[i].from = {sel} /\ bars[i].live \in BOOLEAN
           /\ \A i, j \in 1..Len(bars) : i < j => bars[i].time <= bars[j].time
<1> DEFINE n == Len(bars)
<1>1. bars \in Seq(BarsOf(sel)) /\ n \in Nat /\ DOMAIN bars = 1..n
  BY DEF Good
<1>2. ASSUME NEW i \in 1..n
      PROVE  /\ bars[i] \in BarsOf(sel)
             /\ bars[i].time \in Nat /\ bars[i].from = {sel} /\ bars[i].live \in BOOLEAN
  <2>1. bars[i] \in BarsOf(sel) BY <1>1, ElementOfSeq
  <2> QED BY <2>1 DEF BarsOf
<1> QED BY <1>1, <1>2 DEF Good

LEMMA DrawnFacts ==
    ASSUME NEW sel, NEW bars, NEW series, Drawn(series, bars, sel)
    PROVE  /\ series \in Seq(Dots(sel))
           /\ Len(series) \in Nat /\ DOMAIN series = 1..Len(series)
           /\ \A i \in 1..Len(series) : series[i].key \in Nat /\ series[i].from = {sel}
           /\ \A i, j \in 1..Len(series) : i < j => series[i].key < series[j].key
           /\ DotKeys(series) = ChartKeys(bars, sel)
<1> DEFINE n == Len(series)
<1>1. series \in Seq(Dots(sel)) /\ n \in Nat /\ DOMAIN series = 1..n BY DEF Drawn
<1>2. ASSUME NEW i \in 1..n PROVE series[i].key \in Nat /\ series[i].from = {sel}
  <2>1. series[i] \in Dots(sel) BY <1>1, ElementOfSeq
  <2> QED BY <2>1 DEF Dots
<1> QED BY <1>1, <1>2 DEF Drawn

\* The bars of an answer are the selection's, one for each row.
LEMMA ServerBarsGood ==
    ASSUME NEW sel, NEW rows \in SUBSET Nat, IsFiniteSet(rows),
           NEW bars, bars = ServerBars(sel, rows)
    PROVE  /\ Good(bars, sel)
           /\ \A i \in DOMAIN bars : ~bars[i].live
           /\ Times(bars) = {row \div 2 : row \in rows}
<1> DEFINE n == Cardinality(rows)
           s == Sorted(rows)
<1>1. /\ n \in Nat
      /\ \A i \in 1..n : s[i] \in rows
      /\ \A x \in rows : \E i \in 1..n : s[i] = x
      /\ \A i, j \in 1..n : i < j => s[i] < s[j]
  BY SortedIs
<1>2. bars = [i \in 1..n |-> Bar(s[i] \div 2, {sel}, FALSE)] BY DEF ServerBars
<1> HIDE DEF n, s
<1>3. \A i \in 1..n : s[i] \in Nat /\ s[i] \div 2 \in Nat
  <2>1. \A i \in 1..n : s[i] \in Nat BY <1>1
  <2>2. \A k \in Nat : k \div 2 \in Nat OBVIOUS
  <2> QED BY <2>1, <2>2
<1>4. /\ DOMAIN bars = 1..n
      /\ \A i \in 1..n : /\ bars[i] \in BarsOf(sel)
                         /\ bars[i].time = s[i] \div 2 /\ bars[i].live = FALSE
  BY <1>2, <1>3 DEF Bar, BarsOf
<1>5. bars \in Seq(BarsOf(sel))
  <2> DEFINE R == BarsOf(sel)
  <2> HIDE DEF R
  <2>1. bars \in [1..n -> R] BY <1>2, <1>4 DEF R
  <2>2. bars \in Seq(R) BY <1>1, <2>1
  <2> QED BY <2>2 DEF R
<1>6. ASSUME NEW i \in 1..n, NEW j \in 1..n, i < j PROVE bars[i].time <= bars[j].time
  <2>1. s[i] < s[j] BY <1>1, <1>6
  <2> QED BY <1>3, <1>4, <2>1
<1>7. Good(bars, sel) BY <1>4, <1>5, <1>6 DEF Good
<1>8. Times(bars) = {row \div 2 : row \in rows}
  <2>1. Times(bars) = {s[i] \div 2 : i \in 1..n} BY <1>4 DEF Times
  <2> QED BY <1>1, <2>1
<1> QED BY <1>4, <1>7, <1>8

\* So the bars of every answer the server may give are good.
LEMMA AnswersGood ==
    ASSUME NEW sel, NEW days \in Nat, NEW end \in Int, NEW page,
           NEW bars \in Answers(sel, days, end, page)
    PROVE  Good(bars, sel) /\ \A i \in DOMAIN bars : ~bars[i].live
<1> DEFINE iv == sel[2]
           start == RangeStart(iv, days, end)
           F == FindOhlcv(iv, RangeStart(iv, days, end), end)
           A == FetchHistoricalOhlcv(iv, days, end, page)
           G == GetOhlcv(iv, days, end, page)
<1>1. PICK rows \in G : bars = ServerBars(sel, rows) BY DEF Answers
<1>2. start \in Int
  BY PriceChartAssumption DEF RangeStart
<1>3. \A a, b \in Int : Grid(iv, a, b) \subseteq Nat /\ IsFiniteSet(Grid(iv, a, b))
  <2> TAKE a, b \in Int
  <2>1. Grid(iv, a, b) \subseteq a..b /\ Grid(iv, a, b) \subseteq Nat BY DEF Grid
  <2>2. IsFiniteSet(a..b) BY FS_Interval
  <2> QED BY <2>1, <2>2, FS_Subset
<1> DEFINE Finite(T) == T \in SUBSET Nat /\ IsFiniteSet(T)
<1>4. \A r \in F : Finite(r)
  <2> DEFINE D == Grid(iv, start, end - 1)
             L == {u \in start + 1..end : u >= 0 /\ (OnGrid(iv, u) \/ u = end)}
             R == {2 * t : t \in D} \cup {2 * t + 1 : t \in L}
  <2> HIDE DEF start
  <2>1. F = SUBSET R BY DEF FindOhlcv, start
  <2>2. D \in SUBSET Nat /\ D \subseteq start..end - 1 BY DEF Grid
  <2>3. L \in SUBSET Nat /\ L \subseteq start + 1..end OBVIOUS
  <2>4. R \in SUBSET Nat BY <2>2, <2>3
  <2>5. R \subseteq 2 * start .. 2 * end + 1
    <3>1. \A t \in D : t \in Int /\ start <= t /\ t <= end - 1 BY <2>2
    <3>2. \A t \in L : t \in Int /\ start + 1 <= t /\ t <= end BY <2>3
    <3> HIDE DEF D, L
    <3>3. \A t \in D : 2 * t \in 2 * start .. 2 * end + 1 BY <1>2, <3>1
    <3>4. \A t \in L : 2 * t + 1 \in 2 * start .. 2 * end + 1 BY <1>2, <3>2
    <3> QED BY <3>3, <3>4
  <2> HIDE DEF R
  <2>6. 2 * start \in Int /\ 2 * end + 1 \in Int BY <1>2
  <2>7. IsFiniteSet(2 * start .. 2 * end + 1) BY <2>6, FS_Interval
  <2>8. IsFiniteSet(R) BY <2>5, <2>7, FS_Subset
  <2> QED BY <2>1, <2>4, <2>8, FS_Subset
<1>5. \A r \in A : Finite(r)
  <2>1. \A a, b \in Int : \A r \in SUBSET Grid(iv, a, b) : Finite(r) BY <1>3, FS_Subset
  <2>2. \E a, b \in Int : A = SUBSET Grid(iv, a, b)
    <3>1. CASE iv = "1m"
      <4>1. A = SUBSET Grid(iv, end - 2 * DayMinutes, end)
        BY <3>1 DEF FetchHistoricalOhlcv, FetchMinuteOhlcv
      <4>2. end - 2 * DayMinutes \in Int BY PriceChartAssumption
      <4> QED BY <4>1, <4>2
    <3>2. CASE iv # "1m"
      <4> DEFINE reach == CASE iv = "1w" -> 7 [] iv = "1M" -> 30 [] OTHER -> 1
                 day == end \div 2
                 first == 2 * (day - reach * days) - 1
                 last == IF page THEN 2 * day - 1 ELSE 2 * day + 1
      <4>1. A = SUBSET Grid(iv, first, last) BY <3>2 DEF FetchHistoricalOhlcv
      <4>2. reach \in Int /\ day \in Int OBVIOUS
      <4> HIDE DEF reach, day
      <4>3. first \in Int /\ last \in Int BY <4>2
      <4> HIDE DEF first, last
      <4> QED BY <4>1, <4>3
    <3> QED BY <3>1, <3>2
  <2> HIDE DEF Finite, A
  <2> QED BY <2>1, <2>2
<1>6. Finite(rows)
  <2> DEFINE api == A \ {{}}
             few == {r \in F : NeedsApiFetch(iv, r, page)}
             asks == {{row \div 2 : row \in r} : r \in few}
  <2>1. G = F \cup {{2 * t : t \in {u \in held \cup sent : page => u <= end}} :
                       held \in asks, sent \in api}
    BY DEF GetOhlcv
  <2> HIDE DEF G
  <2>2. CASE rows \in F BY <1>4, <2>2
  <2>3. CASE rows \notin F
    <3> HIDE DEF asks, api
    <3>1. PICK held \in asks, sent \in api :
             rows = {2 * t : t \in {u \in held \cup sent : page => u <= end}}
      BY <1>1, <2>1, <2>3
    <3>2. Finite(sent) BY <1>5 DEF api
    <3>3. PICK r \in F : held = {row \div 2 : row \in r} BY DEF asks
    <3>4. Finite(r) BY <1>4
    <3>5. held \in SUBSET Nat BY <3>3, <3>4
    <3>6. IsFiniteSet(held)
      <4> DEFINE f == [row \in r |-> row \div 2]
      <4>1. held = {f[row] : row \in DOMAIN f} /\ DOMAIN f = r BY <3>3
      <4> HIDE DEF f
      <4> QED BY <3>4, <4>1, RangeIsFinite
    <3> DEFINE both == held \cup sent
               kept == {u \in both : page => u <= end}
    <3>7. IsFiniteSet(both) BY <3>2, <3>6, FS_Union
    <3>8. both \in SUBSET Nat BY <3>2, <3>5
    <3> HIDE DEF both
    <3>9. kept \in SUBSET Nat /\ kept \in SUBSET both BY <3>8
    <3>10. IsFiniteSet(kept) BY <3>7, <3>9, FS_Subset
    <3>11. rows = {2 * t : t \in kept} BY <3>1 DEF both
    <3> HIDE DEF kept
    <3>12. IsFiniteSet(rows)
      <4> DEFINE f == [t \in kept |-> 2 * t]
      <4>1. rows = {f[t] : t \in DOMAIN f} /\ DOMAIN f = kept BY <3>11
      <4> HIDE DEF f
      <4> QED BY <3>10, <4>1, RangeIsFinite
    <3>13. rows \in SUBSET Nat BY <3>9, <3>11
    <3> QED BY <3>12, <3>13
  <2> QED BY <2>2, <2>3
<1>7. rows \in SUBSET Nat /\ IsFiniteSet(rows) BY <1>6
<1> HIDE DEF G, F, A, Finite
<1> QED BY <1>1, <1>7, ServerBarsGood

LEMMA UpdateChartFrame ==
    ASSUME NEW x, DOMAIN x = Fields, NEW bars
    PROVE  Frame(x, UpdateChartData(x, bars), {"series"})
<1>1. \/ UpdateChartData(x, bars) = x
      \/ \E s : UpdateChartData(x, bars) = [x EXCEPT !.series = s]
  BY DEF UpdateChartData
<1> QED BY <1>1 DEF Frame, Fields

\* setData draws the bars it is given.
LEMMA UpdateChartDraws ==
    ASSUME NEW sel, NEW bars, Good(bars, sel),
           NEW x, DOMAIN x = Fields, x.chart, x.intervalRef = sel[2]
    PROVE  Drawn(UpdateChartData(x, bars).series, bars, sel)
<1> DEFINE n == Len(bars)
           KeyOf(b) == ChartKey(x.intervalRef, b.time)
           K == {KeyOf(bars[i]) : i \in DOMAIN bars}
           keys == Sorted(K)
           m == Cardinality(K)
           Same(k, i) == /\ KeyOf(bars[i]) = k
                         /\ \A j \in DOMAIN bars :
                               KeyOf(bars[j]) = k => bars[j].time <= bars[i].time
           LastOf(k) == CHOOSE i \in DOMAIN bars : Same(k, i)
           s == UpdateChartData(x, bars).series
<1>1. /\ n \in Nat /\ DOMAIN bars = 1..n
      /\ \A i \in 1..n : bars[i].time \in Nat /\ bars[i].from = {sel}
      /\ \A i, j \in 1..n : i < j => bars[i].time <= bars[j].time
  BY GoodFacts
<1>2. K = ChartKeys(bars, sel) BY DEF ChartKeys
<1>3. K \in SUBSET Nat /\ K \in SUBSET Int
  <2>1. \A i \in 1..n : KeyOf(bars[i]) \in Nat BY <1>1, KeyFacts
  <2> QED BY <1>1, <2>1
<1>4. IsFiniteSet(1..n)
  <2>1. 1 \in Int /\ n \in Int BY <1>1
  <2> QED BY <2>1, FS_Interval
<1>5. IsFiniteSet(K)
  <2> DEFINE f == [i \in 1..n |-> KeyOf(bars[i])]
  <2>1. K = {f[i] : i \in DOMAIN f} /\ DOMAIN f = 1..n BY <1>1
  <2> HIDE DEF f, K
  <2> QED BY <1>4, <2>1, RangeIsFinite
<1>6. /\ m \in Nat /\ Len(keys) = m /\ DOMAIN keys = 1..m
      /\ \A i \in 1..m : keys[i] \in K
      /\ \A k \in K : \E i \in 1..m : keys[i] = k
      /\ \A i, j \in 1..m : i < j => keys[i] < keys[j]
  <2> HIDE DEF K
  <2> QED BY <1>3, <1>5, SortedIs
<1>7. \A k \in K : LastOf(k) \in 1..n
  <2> TAKE k \in K
  <2> DEFINE J == {i \in 1..n : KeyOf(bars[i]) = k}
  <2>1. J \in SUBSET Int /\ J # {} BY <1>1
  <2>2. IsFiniteSet(J) BY <1>4, FS_Subset
  <2> HIDE DEF J
  <2>3. PICK i \in J : \A j \in J : i >= j BY <2>1, <2>2, MaxIs
  <2>4. i \in 1..n /\ KeyOf(bars[i]) = k BY <2>3 DEF J
  <2>5. ASSUME NEW j \in 1..n, KeyOf(bars[j]) = k PROVE bars[j].time <= bars[i].time
    <3>1. j \in J BY <2>5 DEF J
    <3>2. j = i \/ j < i BY <2>3, <2>4, <3>1
    <3>3. bars[i].time <= bars[i].time BY <1>1, <2>4
    <3> QED BY <1>1, <2>4, <3>2, <3>3
  <2>6. Same(k, i) BY <1>1, <2>4, <2>5
  <2> HIDE DEF Same
  <2> QED BY <1>1, <2>4, <2>6, Zenon
<1>8. s = [i \in 1..Len(keys) |-> [key |-> keys[i], from |-> bars[LastOf(keys[i])].from]]
  BY DEF UpdateChartData, Fields
<1> HIDE DEF KeyOf, LastOf, K, keys, m, s
<1>9. /\ DOMAIN s = 1..m
      /\ \A i \in 1..m : s[i] = [key |-> keys[i], from |-> bars[LastOf(keys[i])].from]
  BY <1>6, <1>8
<1>10. \A i \in 1..m : s[i] = [key |-> keys[i], from |-> {sel}]
  <2> TAKE i \in 1..m
  <2>1. LastOf(keys[i]) \in 1..n BY <1>6, <1>7
  <2>2. bars[LastOf(keys[i])].from = {sel} BY <1>1, <2>1
  <2> QED BY <1>9, <2>2
<1>11. \A i \in 1..m : s[i] \in Dots(sel) /\ s[i].key = keys[i]
  <2> TAKE i \in 1..m
  <2>1. keys[i] \in Nat BY <1>3, <1>6
  <2>2. s[i] = [key |-> keys[i], from |-> {sel}] BY <1>10
  <2> QED BY <2>1, <2>2 DEF Dots
<1>12. s \in Seq(Dots(sel))
  <2>1. s \in [1..m -> Dots(sel)] BY <1>6, <1>8, <1>9, <1>11
  <2> QED BY <1>6, <2>1
<1>13. \A i, j \in 1..m : i < j => s[i].key < s[j].key BY <1>6, <1>11
<1>14. DotKeys(s) = K BY <1>6, <1>9, <1>11 DEF DotKeys
<1> QED BY <1>2, <1>9, <1>12, <1>13, <1>14 DEF Drawn, s

\* A page joined with the bars on the chart: bars of the selection, one for each time of
\* either, each taken from either.
LEMMA UniqueSortedGood ==
    ASSUME NEW sel, NEW more \in Seq(BarsOf(sel)), NEW current \in Seq(BarsOf(sel)),
           NEW bars, bars = UniqueSorted(more, current)
    PROVE  /\ Good(bars, sel)
           /\ \A i, j \in DOMAIN bars : i < j => bars[i].time < bars[j].time
           /\ Times(bars) = Times(more) \cup Times(current)
           /\ \A i \in DOMAIN bars : \/ \E j \in DOMAIN more : bars[i] = more[j]
                                     \/ \E j \in DOMAIN current : bars[i] = current[j]
           /\ IsFiniteSet(Times(bars)) /\ Len(bars) = Cardinality(Times(bars))
<1> DEFINE all == more \o current
           n == Len(all)
           T == Times(all)
           m == Cardinality(T)
           times == Sorted(T)
           At(i) == {j \in DOMAIN all : all[j].time = times[i]}
<1>1. /\ all \in Seq(BarsOf(sel)) /\ n \in Nat /\ DOMAIN all = 1..n
      /\ n = Len(more) + Len(current) /\ Len(more) \in Nat /\ Len(current) \in Nat
      /\ DOMAIN more = 1..Len(more) /\ DOMAIN current = 1..Len(current)
      /\ \A i \in 1..n : all[i] = IF i <= Len(more) THEN more[i] ELSE current[i - Len(more)]
  BY ConcatProperties
<1>2. \A i \in 1..n : \/ \E j \in DOMAIN more : all[i] = more[j]
                      \/ \E j \in DOMAIN current : all[i] = current[j]
  <2> TAKE i \in 1..n
  <2>1. CASE i <= Len(more)
    <3>1. i \in DOMAIN more /\ all[i] = more[i] BY <1>1, <2>1
    <3> QED BY <3>1
  <2>2. CASE ~(i <= Len(more))
    <3>1. i - Len(more) \in DOMAIN current /\ all[i] = current[i - Len(more)] BY <1>1, <2>2
    <3> QED BY <3>1
  <2> QED BY <2>1, <2>2
<1>3. /\ \A j \in DOMAIN more : j \in 1..n /\ all[j] = more[j]
      /\ \A j \in DOMAIN current : j + Len(more) \in 1..n /\ all[j + Len(more)] = current[j]
  <2>1. \A j \in DOMAIN more : j \in 1..n /\ all[j] = more[j] BY <1>1
  <2>2. ASSUME NEW j \in DOMAIN current
        PROVE  j + Len(more) \in 1..n /\ all[j + Len(more)] = current[j]
    <3> DEFINE k == j + Len(more)
    <3>1. k \in 1..n /\ ~(k <= Len(more)) /\ k - Len(more) = j BY <1>1
    <3> HIDE DEF k, all
    <3>2. all[k] = current[k - Len(more)] BY <1>1, <3>1
    <3> QED BY <3>1, <3>2 DEF k
  <2> QED BY <2>1, <2>2
<1> HIDE DEF all, n
<1>4. \A i \in 1..n : all[i] \in BarsOf(sel) /\ all[i].time \in Nat
  <2> TAKE i \in 1..n
  <2>1. all[i] \in BarsOf(sel) BY <1>1, ElementOfSeq DEF n
  <2> QED BY <2>1 DEF BarsOf
<1>5. T = {all[i].time : i \in 1..n} BY <1>1 DEF Times
<1>6. IsFiniteSet(1..n)
  <2>1. 1 \in Int /\ n \in Int BY <1>1
  <2> QED BY <2>1, FS_Interval
<1>7. T \in SUBSET Int /\ IsFiniteSet(T)
  <2> DEFINE f == [i \in 1..n |-> all[i].time]
  <2>1. T = {f[i] : i \in DOMAIN f} /\ DOMAIN f = 1..n BY <1>5
  <2>2. T \in SUBSET Int BY <1>4, <1>5
  <2> HIDE DEF f, T
  <2> QED BY <1>6, <2>1, <2>2, RangeIsFinite
<1> HIDE DEF T
<1>8. /\ m \in Nat /\ Len(times) = m
      /\ \A i \in 1..m : times[i] \in T
      /\ \A t \in T : \E i \in 1..m : times[i] = t
      /\ \A i, j \in 1..m : i < j => times[i] < times[j]
  BY <1>7, SortedIs
<1> HIDE DEF m, times
<1>9. bars = [i \in 1..Len(times) |-> all[Max(At(i))]]
  BY DEF UniqueSorted, all, times, T
<1>10. \A i \in 1..m : Max(At(i)) \in 1..n /\ all[Max(At(i))].time = times[i]
  <2> TAKE i \in 1..m
  <2>1. PICK j \in 1..n : all[j].time = times[i] BY <1>5, <1>8
  <2>2. At(i) \in SUBSET Int /\ At(i) # {} /\ At(i) \in SUBSET (1..n)
    <3>1. At(i) = {k \in 1..n : all[k].time = times[i]} BY <1>1
    <3> HIDE DEF At
    <3>2. j \in At(i) BY <2>1, <3>1
    <3>3. \A k \in 1..n : k \in Int OBVIOUS
    <3> QED BY <3>1, <3>2, <3>3
  <2>3. IsFiniteSet(At(i)) BY <1>6, <2>2, FS_Subset
  <2>4. Max(At(i)) \in At(i)
    <3> DEFINE A == At(i)
    <3> HIDE DEF A
    <3>1. Max(A) \in A BY <2>2, <2>3, MaxIs DEF A
    <3> QED BY <3>1 DEF A
  <2> QED BY <1>1, <2>4
<1> HIDE DEF At
<1>11. /\ DOMAIN bars = 1..m
       /\ \A i \in 1..m : /\ bars[i] \in BarsOf(sel)
                          /\ bars[i].time = times[i]
                          /\ \E j \in 1..n : bars[i] = all[j]
  BY <1>4, <1>8, <1>9, <1>10
<1>12. bars \in Seq(BarsOf(sel))
  <2> DEFINE R == BarsOf(sel)
  <2> HIDE DEF R
  <2>1. bars \in [1..m -> R] BY <1>8, <1>9, <1>11 DEF R
  <2>2. bars \in Seq(R) BY <1>8, <2>1
  <2> QED BY <2>2 DEF R
<1>13. \A i, j \in 1..m : i < j => bars[i].time < bars[j].time /\ bars[i].time <= bars[j].time
  <2> TAKE i, j \in 1..m
  <2> HAVE i < j
  <2>1. times[i] < times[j] /\ times[i] \in Int /\ times[j] \in Int BY <1>7, <1>8
  <2> QED BY <1>11, <2>1
<1>14. Good(bars, sel) BY <1>11, <1>12, <1>13 DEF Good
<1>15. Times(bars) = T
  <2>1. Times(bars) = {times[i] : i \in 1..m} BY <1>11 DEF Times
  <2> QED BY <1>8, <2>1
<1>16. T = Times(more) \cup Times(current)
  <2>1. T \subseteq Times(more) \cup Times(current) BY <1>2, <1>5 DEF Times
  <2>2. Times(more) \subseteq T BY <1>3, <1>5 DEF Times
  <2>3. Times(current) \subseteq T
    <3> SUFFICES ASSUME NEW j \in DOMAIN current PROVE current[j].time \in T
      BY DEF Times
    <3>1. j + Len(more) \in 1..n /\ all[j + Len(more)] = current[j] BY <1>3
    <3> DEFINE k == j + Len(more)
    <3>2. k \in 1..n /\ all[k] = current[j] BY <3>1
    <3> HIDE DEF k
    <3> QED BY <1>5, <3>2
  <2> QED BY <2>1, <2>2, <2>3
<1>17. \A i \in DOMAIN bars : \/ \E j \in DOMAIN more : bars[i] = more[j]
                              \/ \E j \in DOMAIN current : bars[i] = current[j]
  <2> TAKE i \in DOMAIN bars
  <2>1. PICK j \in 1..n : bars[i] = all[j] BY <1>11
  <2> QED BY <1>2, <2>1
<1>18. Len(bars) = m /\ m = Cardinality(T)
  <2>1. Len(bars) = m BY <1>8, <1>11, <1>12
  <2> QED BY <2>1 DEF m
<1> QED BY <1>7, <1>11, <1>13, <1>14, <1>15, <1>16, <1>17, <1>18

-----------------------------------------------------------------------------
(***************************************************************************)
(* Ticks                                                                   *)
(***************************************************************************)
LEMMA ReplaceLastSame ==
    ASSUME NEW S, NEW s \in Seq(S), s # <<>>
    PROVE  ReplaceLast(s, s[Len(s)]) = s
<1> DEFINE n == Len(s)
           t == SubSeq(s, 1, n - 1)
<1>1. n \in Nat \ {0} /\ s[n] \in S BY EmptySeq, ElementOfSeq
<1>2. /\ t \in Seq(S) /\ Len(t) = n - 1
      /\ \A i \in 1..n-1 : t[i] = s[i]
  <2>1. \A i \in 1..n-1 : s[i] \in S BY <1>1, ElementOfSeq
  <2>2. n - 1 \in Int /\ 1 \in Int BY <1>1
  <2>3. /\ t \in Seq(S) /\ Len(t) = IF 1 <= n - 1 THEN n - 1 - 1 + 1 ELSE 0
        /\ \A i \in 1 .. n - 1 - 1 + 1 : t[i] = s[1 + i - 1]
    <3> HIDE DEF n
    <3> QED BY <2>1, <2>2, SubSeqProperties
  <2> HIDE DEF n, t
  <2>4. 1 .. n - 1 - 1 + 1 = 1 .. n - 1 /\ \A i \in 1..n-1 : 1 + i - 1 = i BY <1>1
  <2>5. Len(t) = n - 1 BY <1>1, <2>3
  <2>6. \A i \in 1..n-1 : t[i] = s[i]
    <3> TAKE i \in 1..n-1
    <3>1. t[i] = s[1 + i - 1] BY <2>3, <2>4
    <3>2. 1 + i - 1 = i BY <2>4
    <3> QED BY <3>1, <3>2
  <2> QED BY <2>3, <2>5, <2>6
<1> HIDE DEF t
<1>3. /\ Append(t, s[n]) \in Seq(S) /\ Len(Append(t, s[n])) = n
      /\ \A i \in 1..n : Append(t, s[n])[i] = s[i]
  BY <1>1, <1>2, AppendProperties
<1>4. Append(t, s[n]) = s BY <1>3, SeqEqual
<1> QED BY <1>4 DEF ReplaceLast, Front, t

\* What ticks make of good bars: the same bars, then those the ticks started.
Grown(old, bars) ==
    /\ Len(old) <= Len(bars)
    /\ \A i \in 1..Len(old) : bars[i] = old[i]
    /\ \A i \in Len(old) + 1 .. Len(bars) : bars[i].live

LEMMA GrownSame ==
    ASSUME NEW S, NEW bars \in Seq(S)
    PROVE  Grown(bars, bars)
<1>1. Len(bars) \in Nat OBVIOUS
<1> QED BY <1>1 DEF Grown

LEMMA GrownTrans ==
    ASSUME NEW S, NEW a \in Seq(S), NEW b \in Seq(S), NEW d \in Seq(S),
           Grown(a, b), Grown(b, d)
    PROVE  Grown(a, d)
<1>1. Len(a) \in Nat /\ Len(b) \in Nat /\ Len(d) \in Nat OBVIOUS
<1>2. Len(a) <= Len(d) /\ \A i \in 1..Len(a) : d[i] = a[i]
  BY <1>1 DEF Grown
<1>3. ASSUME NEW i \in Len(a) + 1 .. Len(d) PROVE d[i].live
  <2>1. CASE i \in 1..Len(b)
    <3>1. i \in Len(a) + 1 .. Len(b) BY <1>1, <2>1
    <3> QED BY <2>1, <3>1 DEF Grown
  <2>2. CASE i \notin 1..Len(b)
    <3>1. i \in Len(b) + 1 .. Len(d) BY <1>1, <2>2
    <3> QED BY <3>1 DEF Grown
  <2> QED BY <2>1, <2>2
<1> QED BY <1>2, <1>3 DEF Grown

\* The last bar of a drawn series is the one of the last bar.
LEMMA LastDrawn ==
    ASSUME NEW sel, NEW bars, Good(bars, sel), NEW series, Drawn(series, bars, sel)
    PROVE  /\ bars = <<>> <=> series = <<>>
           /\ bars # <<>> =>
                 /\ Len(bars) \in 1..Len(bars) /\ Len(series) \in 1..Len(series)
                 /\ series[Len(series)].key = ChartKey(sel[2], bars[Len(bars)].time)
                 /\ series[Len(series)].from = {sel}
<1> DEFINE n == Len(bars)
           m == Len(series)
           KeyAt(i) == ChartKey(sel[2], bars[i].time)
<1>1. /\ bars \in Seq(BarsOf(sel)) /\ n \in Nat /\ DOMAIN bars = 1..n
      /\ \A i \in 1..n : bars[i].time \in Nat
      /\ \A i, j \in 1..n : i < j => bars[i].time <= bars[j].time
  BY GoodFacts
<1>2. /\ series \in Seq(Dots(sel)) /\ m \in Nat /\ DOMAIN series = 1..m
      /\ \A i \in 1..m : series[i].key \in Nat /\ series[i].from = {sel}
      /\ \A i, j \in 1..m : i < j => series[i].key < series[j].key
      /\ DotKeys(series) = ChartKeys(bars, sel)
  BY DrawnFacts
<1>2a. ChartKeys(bars, sel) = {series[i].key : i \in 1..m} BY <1>2 DEF DotKeys
<1>3. ChartKeys(bars, sel) = {KeyAt(i) : i \in 1..n} BY <1>1 DEF ChartKeys
<1>4. \A i, j \in 1..n : i <= j => KeyAt(i) <= KeyAt(j)
  <2> TAKE i, j \in 1..n
  <2> HAVE i <= j
  <2>1. bars[i].time \in Nat /\ bars[j].time \in Nat BY <1>1
  <2>2. i = j \/ i < j BY <1>1
  <2>3. bars[i].time <= bars[j].time BY <1>1, <2>1, <2>2
  <2> QED BY <2>1, <2>3, KeyFacts
<1>5. \A i \in 1..n : KeyAt(i) \in Nat BY <1>1, KeyFacts
<1>6. bars = <<>> <=> n = 0 BY <1>1, EmptySeq
<1>7. series = <<>> <=> m = 0 BY <1>2, EmptySeq
<1>8. (n = 0) = (m = 0)
  <2> DEFINE K == ChartKeys(bars, sel)
  <2>1. n = 0 <=> K = {}
    <3>1. K = {KeyAt(i) : i \in 1..n} BY <1>3
    <3>2. n # 0 => 1 \in 1..n BY <1>1
    <3>3. n = 0 => 1..n = {} OBVIOUS
    <3> HIDE DEF n, KeyAt, K
    <3> QED BY <3>1, <3>2, <3>3
  <2>2. m = 0 <=> K = {}
    <3>1. K = {series[i].key : i \in 1..m} BY <1>2a
    <3>2. m \in Nat BY <1>2
    <3> HIDE DEF m, K
    <3>3. m # 0 => 1 \in 1..m BY <3>2
    <3>4. m = 0 => 1..m = {} OBVIOUS
    <3> QED BY <3>1, <3>3, <3>4
  <2> QED BY <2>1, <2>2
<1>9. ASSUME n # 0 PROVE n \in 1..n /\ m \in 1..m /\ series[m].key = KeyAt(n)
  <2> HIDE DEF n, m, KeyAt
  <2>1. n \in 1..n /\ m \in 1..m BY <1>1, <1>2, <1>8, <1>9
  <2>2. PICK i \in 1..m : series[i].key = KeyAt(n) BY <1>2a, <1>3, <2>1
  <2>3. PICK j \in 1..n : series[m].key = KeyAt(j) BY <1>2a, <1>3, <2>1
  <2>4. KeyAt(j) <= KeyAt(n)
    <3>1. j <= n BY <1>1
    <3> QED BY <1>4, <2>1, <3>1
  <2>5. i = m \/ series[i].key < series[m].key
    <3>1. i = m \/ i < m BY <1>2
    <3> QED BY <1>2, <2>1, <3>1
  <2> QED BY <1>2, <1>5, <2>1, <2>2, <2>3, <2>4, <2>5
<1> QED BY <1>2, <1>6, <1>7, <1>8, <1>9

\* A bar a tick starts, of a later key, keeps the bars good and is drawn behind them.
LEMMA AppendGood ==
    ASSUME NEW sel, NEW bars, Good(bars, sel), NEW t \in Nat, NEW key \in Nat,
           key = ChartKey(sel[2], t),
           NEW series, Drawn(series, bars, sel),
           bars # <<>> => /\ bars[Len(bars)].time <= t
                          /\ ChartKey(sel[2], bars[Len(bars)].time) < key
    PROVE  /\ Good(Append(bars, Bar(t, {sel}, TRUE)), sel)
           /\ Drawn(Append(series, [key |-> key, from |-> {sel}]),
                    Append(bars, Bar(t, {sel}, TRUE)), sel)
           /\ Grown(bars, Append(bars, Bar(t, {sel}, TRUE)))
<1> DEFINE n == Len(bars)
           m == Len(series)
           iv == sel[2]
           b == Bar(t, {sel}, TRUE)
           all == Append(bars, b)
           dot == [key |-> key, from |-> {sel}]
           line == Append(series, dot)
           R == Dots(sel)
<1>1. b \in BarsOf(sel) /\ b.time = t /\ b.live = TRUE BY DEF Bar, BarsOf
<1>2. /\ bars \in Seq(BarsOf(sel)) /\ n \in Nat /\ DOMAIN bars = 1..n
      /\ \A i \in 1..n : bars[i].time \in Nat
      /\ \A i, j \in 1..n : i < j => bars[i].time <= bars[j].time
  BY GoodFacts
<1>3. /\ series \in Seq(R) /\ m \in Nat /\ DOMAIN series = 1..m
      /\ \A i \in 1..m : series[i].key \in Nat
      /\ \A i, j \in 1..m : i < j => series[i].key < series[j].key
      /\ DotKeys(series) = ChartKeys(bars, sel)
  BY DrawnFacts
<1>3a. m \in Nat BY <1>3
<1>4. dot \in R /\ dot.key = key BY DEF Dots
<1> HIDE DEF b, dot, R
<1>5. /\ all \in Seq(BarsOf(sel)) /\ Len(all) = n + 1 /\ DOMAIN all = 1..n+1
      /\ \A i \in 1..n : all[i] = bars[i]
      /\ all[n + 1] = b
  BY <1>1, <1>2, AppendProperties
<1>6. /\ line \in Seq(R) /\ Len(line) = m + 1 /\ DOMAIN line = 1..m+1
      /\ \A i \in 1..m : line[i] = series[i]
      /\ line[m + 1] = dot
  BY <1>3, <1>4, AppendProperties
<1> HIDE DEF all, line
<1>7. n # 0 => bars # <<>> BY <1>2, EmptySeq
<1>8. n # 0 => /\ n \in 1..n /\ bars[n].time <= t
               /\ m \in 1..m /\ series[m].key < key
  <2> HAVE n # 0
  <2>1. /\ n \in 1..n /\ m \in 1..m
        /\ series[m].key = ChartKey(iv, bars[n].time)
    BY <1>7, LastDrawn
  <2> QED BY <1>7, <2>1
<1>9. m # 0 => n # 0
  <2> HAVE m # 0
  <2>1. series # <<>> BY <1>3
  <2>2. bars # <<>> BY <2>1, LastDrawn
  <2> QED BY <1>2, <2>2, EmptySeq
<1> HIDE DEF n, m
<1>10. \A i, j \in 1..n+1 : i < j => all[i].time <= all[j].time
  <2> TAKE i, j \in 1..n+1
  <2> HAVE i < j
  <2>1. i \in 1..n /\ all[i] = bars[i] BY <1>2, <1>5
  <2>2. CASE j \in 1..n BY <1>2, <1>5, <2>1, <2>2
  <2>3. CASE j = n + 1
    <3>1. n \in 1..n /\ bars[n].time <= t BY <1>2, <1>8, <2>1
    <3>2. bars[i].time <= bars[n].time
      <4>1. i = n \/ i < n BY <1>2, <2>1
      <4>2. bars[n].time <= bars[n].time BY <1>2, <3>1
      <4> QED BY <1>2, <2>1, <3>1, <4>1, <4>2
    <3>3. bars[i].time \in Nat /\ bars[n].time \in Nat BY <1>2, <2>1, <3>1
    <3>4. bars[i].time <= t BY <3>1, <3>2, <3>3
    <3> QED BY <1>1, <1>5, <2>1, <2>3, <3>4
  <2> QED BY <1>2, <2>2, <2>3
<1>11. Good(all, sel) BY <1>5, <1>10 DEF Good
<1>12. \A i, j \in 1..m+1 : i < j => line[i].key < line[j].key
  <2> TAKE i, j \in 1..m+1
  <2> HAVE i < j
  <2>1. i \in 1..m /\ line[i] = series[i] BY <1>3, <1>6
  <2>2. CASE j \in 1..m BY <1>3, <1>6, <2>1, <2>2
  <2>3. CASE j = m + 1
    <3>1. m \in 1..m /\ series[m].key < key BY <1>3, <1>8, <1>9, <2>1
    <3>2. i = m \/ series[i].key < series[m].key
      <4>1. i = m \/ i < m BY <1>3, <2>1
      <4> QED BY <1>3, <2>1, <3>1, <4>1
    <3>3. series[i].key < key BY <1>3, <2>1, <3>1, <3>2
    <3> QED BY <1>4, <1>6, <2>1, <2>3, <3>3
  <2> QED BY <1>3a, <2>2, <2>3
<1>13. DotKeys(line) = ChartKeys(bars, sel) \cup {key}
  <2>1. {line[i].key : i \in 1..m+1} = {line[i].key : i \in 1..m} \cup {line[m + 1].key}
    <3>1. 1..m+1 = (1..m) \cup {m + 1} BY <1>3
    <3> QED BY <3>1
  <2>2. {line[i].key : i \in 1..m} = {series[i].key : i \in 1..m} BY <1>6
  <2>3. DotKeys(line) = {line[i].key : i \in 1..m+1} BY <1>6 DEF DotKeys
  <2>4. DotKeys(series) = {series[i].key : i \in 1..m} BY <1>3 DEF DotKeys
  <2> QED BY <1>3, <1>4, <1>6, <2>1, <2>2, <2>3, <2>4
<1>14. ChartKeys(all, sel) = ChartKeys(bars, sel) \cup {key}
  <2>1. ChartKeys(all, sel) = {ChartKey(iv, all[i].time) : i \in 1..n+1}
    BY <1>5 DEF ChartKeys
  <2>2. ChartKeys(bars, sel) = {ChartKey(iv, all[i].time) : i \in 1..n}
    BY <1>2, <1>5 DEF ChartKeys
  <2>3. 1..n+1 = (1..n) \cup {n + 1} BY <1>2
  <2>4. ChartKey(iv, all[n + 1].time) = key BY <1>1, <1>5
  <2> QED BY <2>1, <2>2, <2>3, <2>4
<1>15. Drawn(line, all, sel) BY <1>6, <1>12, <1>13, <1>14 DEF Drawn, R
<1>16. Grown(bars, all)
  <2>1. n <= n + 1 BY <1>2
  <2>2. \A i \in n + 1 .. n + 1 : i = n + 1 BY <1>2
  <2>3. \A i \in n + 1 .. n + 1 : all[i].live BY <1>1, <1>5, <2>2
  <2> QED BY <1>5, <2>1, <2>3 DEF Grown, n
<1> QED BY <1>11, <1>15, <1>16 DEF all, b, line, dot

\* The pieces of applyTick: the keys of the tick and of the last bar, that bar with the tick
\* merged in, and the time of a bar the tick starts.
TickKey(x, at) == TimeKey(x.intervalRef, at)
LastKey(x) == IF Len(x.data) = 0 THEN -1 ELSE TimeKey(x.intervalRef, x.data[Len(x.data)].time)
Merged(x, t) == [x.data[Len(x.data)] EXCEPT !.from = @ \cup {<<t, x.interval>>}]
MergedKey(x, t) == IF IsDaily(x.intervalRef) THEN LastKey(x) ELSE Merged(x, t).time
StartOf(x, at) == IF IsDaily(x.intervalRef) THEN at ELSE TickKey(x, at)
Started(x, t, at) == Append(x.data, Bar(StartOf(x, at), {<<t, x.interval>>}, TRUE))

\* The three outcomes of applyTick with a chart and bars.
LEMMA ApplyTickIs ==
    ASSUME NEW x, x.chart, x.dataRef # <<>>, NEW t, NEW at
    PROVE  ApplyTick(x, t, at) =
             IF TickKey(x, at) < LastKey(x) THEN x
             ELSE IF TickKey(x, at) = LastKey(x)
             THEN [x EXCEPT !.data = ReplaceLast(x.data, Merged(x, t)),
                            !.series = SeriesUpdate(x.series, MergedKey(x, t), Merged(x, t).from)]
             ELSE [x EXCEPT !.data = Started(x, t, at),
                            !.series = SeriesUpdate(x.series, TickKey(x, at), {<<t, x.interval>>})]
<1>1. ApplyTick(x, t, at) =
        IF ~x.chart \/ x.dataRef = <<>> THEN x
        ELSE IF TickKey(x, at) < LastKey(x) THEN x
        ELSE IF TickKey(x, at) = LastKey(x)
        THEN [x EXCEPT !.data = ReplaceLast(x.data, Merged(x, t)),
                       !.series = SeriesUpdate(x.series, MergedKey(x, t), Merged(x, t).from)]
        ELSE [x EXCEPT !.data = Started(x, t, at),
                       !.series = SeriesUpdate(x.series, TickKey(x, at), {<<t, x.interval>>})]
  BY Zenon DEF ApplyTick, TickKey, LastKey, Merged, MergedKey, Started, StartOf
<1> QED BY <1>1

LEMMA OldTick ==
    ASSUME NEW x, x.chart, x.dataRef # <<>>, NEW t, NEW at, TickKey(x, at) < LastKey(x)
    PROVE  ApplyTick(x, t, at) = x
BY ApplyTickIs

LEMMA MergedTick ==
    ASSUME NEW x, DOMAIN x = Fields, x.chart, x.dataRef # <<>>, NEW t, NEW at,
           ~(TickKey(x, at) < LastKey(x)), TickKey(x, at) = LastKey(x)
    PROVE  /\ ApplyTick(x, t, at).data = ReplaceLast(x.data, Merged(x, t))
           /\ ApplyTick(x, t, at).series = SeriesUpdate(x.series, MergedKey(x, t), Merged(x, t).from)
<1> DEFINE d == ReplaceLast(x.data, Merged(x, t))
           s == SeriesUpdate(x.series, MergedKey(x, t), Merged(x, t).from)
<1>1. ApplyTick(x, t, at) = [x EXCEPT !.data = d, !.series = s] BY ApplyTickIs
<1> HIDE DEF d, s
<1>2. ApplyTick(x, t, at).data = d /\ ApplyTick(x, t, at).series = s BY <1>1 DEF Fields
<1> QED BY <1>2 DEF d, s

LEMMA StartedTick ==
    ASSUME NEW x, DOMAIN x = Fields, x.chart, x.dataRef # <<>>, NEW t, NEW at,
           ~(TickKey(x, at) < LastKey(x)), TickKey(x, at) # LastKey(x)
    PROVE  /\ ApplyTick(x, t, at).data = Started(x, t, at)
           /\ ApplyTick(x, t, at).series = SeriesUpdate(x.series, TickKey(x, at), {<<t, x.interval>>})
<1> DEFINE d == Started(x, t, at)
           s == SeriesUpdate(x.series, TickKey(x, at), {<<t, x.interval>>})
<1>1. ApplyTick(x, t, at) = [x EXCEPT !.data = d, !.series = s] BY ApplyTickIs
<1> HIDE DEF d, s
<1>2. ApplyTick(x, t, at).data = d /\ ApplyTick(x, t, at).series = s BY <1>1 DEF Fields
<1> QED BY <1>2 DEF d, s

\* A tick of the selection is merged into the last bar, which is of the selection already,
\* or starts a bar of its own.
LEMMA TickKeepsGood ==
    ASSUME NEW sel \in Selections, NEW x, DOMAIN x = Fields, x.chart, x.dataRef # <<>>,
           x.intervalRef = sel[2], x.interval = sel[2],
           NEW t, t = sel[1], NEW at \in Nat,
           Good(x.data, sel), Drawn(x.series, x.data, sel)
    PROVE  /\ Good(ApplyTick(x, t, at).data, sel)
           /\ Drawn(ApplyTick(x, t, at).series, ApplyTick(x, t, at).data, sel)
           /\ Grown(x.data, ApplyTick(x, t, at).data)
<1> DEFINE iv   == x.intervalRef
           src  == <<t, x.interval>>
           key  == TickKey(x, at)
           data == x.data
           series == x.series
           n    == Len(data)
           m    == Len(series)
           last == LastKey(x)
           bar  == Merged(x, t)
           y    == ApplyTick(x, t, at)
           when == StartOf(x, at)
<1> SUFFICES Good(y.data, sel) /\ Drawn(y.series, y.data, sel) /\ Grown(data, y.data)
  OBVIOUS
<1>1. src = sel /\ iv = sel[2] BY DEF Selections
<1>2. Good(data, sel) /\ Drawn(series, data, sel) OBVIOUS
<1>3. /\ data \in Seq(BarsOf(sel)) /\ n \in Nat
      /\ \A i \in 1..n : data[i] \in BarsOf(sel) /\ data[i].time \in Nat /\ data[i].from = {sel}
  BY <1>2, GoodFacts
<1>4. series \in Seq(Dots(sel)) /\ m \in Nat
  BY <1>2, DrawnFacts
<1>5. /\ data = <<>> <=> series = <<>>
      /\ data # <<>> => /\ n \in 1..n /\ m \in 1..m
                        /\ series[m].key = ChartKey(iv, data[n].time)
                        /\ series[m].from = {sel}
  BY <1>1, <1>2, LastDrawn
<1>6. Grown(data, data) BY <1>3, GrownSame
<1>7. key = TimeKey(iv, at) /\ key \in Nat BY <1>1, KeyFacts DEF TickKey
<1>8. key < last => y = x BY OldTick
<1>9. ~(key < last) /\ key = last =>
         /\ y.data = ReplaceLast(data, bar)
         /\ y.series = SeriesUpdate(series, MergedKey(x, t), bar.from)
  BY MergedTick
<1>10. ~(key < last) /\ key # last =>
         /\ y.data = Append(data, Bar(when, {src}, TRUE))
         /\ y.series = SeriesUpdate(series, key, {src})
  <2>1. ~(key < last) /\ key # last =>
           y.data = Started(x, t, at) /\ y.series = SeriesUpdate(series, key, {src})
    BY StartedTick
  <2> QED BY <2>1, Zenon DEF Started
<1>11. last = IF n = 0 THEN -1 ELSE TimeKey(iv, data[n].time) BY DEF LastKey
<1>12. bar = [data[n] EXCEPT !.from = @ \cup {src}] BY DEF Merged
<1>13. MergedKey(x, t) = IF IsDaily(iv) THEN last ELSE bar.time BY DEF MergedKey
<1>14. when = IF IsDaily(iv) THEN at ELSE key BY DEF StartOf
<1>15. data = <<>> <=> n = 0 BY <1>3, EmptySeq
<1> HIDE DEF y, iv, src, key, last, bar, when
<1>16. CASE key < last
  <2>1. y = x BY <1>8, <1>16
  <2> QED BY <1>2, <1>6, <2>1
<1>17. CASE ~(key < last) /\ key = last
  <2>1. n # 0 /\ key = TimeKey(iv, data[n].time)
    <3> HIDE DEF n
    <3> QED BY <1>3, <1>7, <1>11, <1>17
  <2>2. data # <<>> /\ series # <<>> /\ n \in 1..n /\ m \in 1..m BY <1>5, <1>15, <2>1
  <2>3. bar = data[n]
    <3>1. data[n] \in BarsOf(sel) /\ data[n].from = {sel} BY <1>3, <2>2
    <3>2. data[n].from \cup {src} = data[n].from BY <1>1, <3>1
    <3> QED BY <1>12, <3>1, <3>2 DEF BarsOf
  <2> DEFINE k == ChartKey(iv, data[n].time)
  <2>4. bar.from = {sel} /\ MergedKey(x, t) = k /\ k \in Nat
    <3> DEFINE e == data[n].time
    <3>1. e \in Nat /\ data[n].from = {sel} BY <1>3, <2>2
    <3>2. bar.time = e /\ bar.from = {sel} BY <2>3, <3>1
    <3> HIDE DEF e
    <3>3. /\ ChartKey(iv, e) \in Nat
          /\ IsDaily(iv) => ChartKey(iv, e) = TimeKey(iv, e)
          /\ ~IsDaily(iv) => ChartKey(iv, e) = e
      BY <3>1, KeyFacts
    <3>4. last = TimeKey(iv, e) BY <1>17, <2>1 DEF e
    <3>5. k = ChartKey(iv, e) BY DEF e
    <3> HIDE DEF k
    <3> QED BY <1>13, <3>2, <3>3, <3>4, <3>5
  <2>5. ReplaceLast(data, bar) = data
    <3> HIDE DEF data
    <3> QED BY <1>3, <2>2, <2>3, ReplaceLastSame DEF n
  <2>6. SeriesUpdate(series, k, {sel}) = series
    <3> DEFINE dot == [key |-> k, from |-> {sel}]
    <3>1. series[m] \in Dots(sel) BY <1>4, <2>2, ElementOfSeq
    <3>2. series[m].key = k /\ series[m].from = {sel} BY <1>5, <2>2
    <3> HIDE DEF k
    <3>3. series[m] = dot BY <3>1, <3>2 DEF Dots
    <3>4. ReplaceLast(series, series[m]) = series BY <1>4, <2>2, ReplaceLastSame
    <3> HIDE DEF series
    <3>5. SeriesUpdate(series, k, {sel}) = ReplaceLast(series, dot)
      BY <1>4, <2>2, <2>4, <3>2 DEF SeriesUpdate, m
    <3> HIDE DEF dot
    <3> QED BY <3>3, <3>4, <3>5
  <2>7. y.data = data /\ y.series = series
    <3> HIDE DEF data, series, k
    <3> QED BY <1>9, <1>17, <2>4, <2>5, <2>6
  <2> QED BY <1>2, <1>6, <2>7
<1>18. CASE ~(key < last) /\ key # last
  <2>1. key = ChartKey(iv, when) /\ when \in Nat
    <3>1. CASE IsDaily(iv)
      <4>1. when = at BY <1>14, <3>1
      <4> QED BY <1>7, <3>1, <4>1, KeyFacts
    <3>2. CASE ~IsDaily(iv)
      <4>1. when = key BY <1>14, <3>2
      <4> QED BY <1>7, <3>2, <4>1, KeyFacts
    <3> QED BY <3>1, <3>2
  <2>2. data # <<>> => data[n].time <= when /\ ChartKey(iv, data[n].time) < key
    <3> HAVE data # <<>>
    <3> DEFINE e == data[n].time
    <3>1. n # 0 /\ e \in Nat BY <1>3, <1>5, <1>15
    <3>2. last = TimeKey(iv, e) BY <1>11, <3>1
    <3> HIDE DEF e
    <3>3. TimeKey(iv, e) \in Nat BY <3>1, KeyFacts
    <3>4. TimeKey(iv, e) < TimeKey(iv, at) BY <1>7, <1>18, <3>2, <3>3
    <3>5. ChartKey(iv, e) < key /\ e < at /\ (~IsDaily(iv) => e < key)
      BY <1>7, <3>1, <3>4, KeyFacts
    <3>6. e <= when BY <1>7, <1>14, <3>1, <3>5
    <3> QED BY <3>5, <3>6 DEF e
  <2>3. SeriesUpdate(series, key, {sel}) = Append(series, [key |-> key, from |-> {sel}])
    <3>1. CASE m = 0
      <4>1. series = <<>> BY <1>4, <3>1, EmptySeq
      <4>2. SeriesUpdate(series, key, {sel}) = <<[key |-> key, from |-> {sel}]>>
        BY <3>1 DEF SeriesUpdate
      <4> HIDE DEF series
      <4> QED BY <4>1, <4>2
    <3>2. CASE m # 0
      <4>1. data # <<>>
        <5>1. series # <<>> BY <3>2
        <5> HIDE DEF series, data
        <5> QED BY <1>5, <5>1
      <4>2. /\ ChartKey(iv, data[n].time) < key /\ ChartKey(iv, data[n].time) \in Nat
            /\ series[m].key = ChartKey(iv, data[n].time)
        <5>1. data[n].time \in Nat BY <1>3, <1>5, <4>1
        <5> QED BY <1>5, <2>2, <4>1, <5>1, KeyFacts
      <4> DEFINE j == series[m].key
      <4>3. j < key /\ j \in Nat BY <4>2
      <4> HIDE DEF j
      <4>4. key > j BY <1>7, <4>3
      <4>5. key > series[m].key BY <4>4 DEF j
      <4> HIDE DEF series
      <4> QED BY <3>2, <4>5 DEF SeriesUpdate, m
    <3> QED BY <3>1, <3>2
  <2> DEFINE d == Append(data, Bar(when, {sel}, TRUE))
             s == Append(series, [key |-> key, from |-> {sel}])
  <2>4. Good(d, sel) /\ Drawn(s, d, sel) /\ Grown(data, d)
    <3>1. key = ChartKey(sel[2], when) BY <1>1, <2>1
    <3>2. data # <<>> => data[Len(data)].time <= when /\ ChartKey(sel[2], data[Len(data)].time) < key
      BY <1>1, <2>2
    <3> HIDE DEF data, series, n
    <3> QED BY <1>2, <1>7, <2>1, <3>1, <3>2, AppendGood
  <2>5. y.data = d /\ y.series = s
    <3> HIDE DEF data, series
    <3> QED BY <1>1, <1>10, <1>18, <2>3
  <2> HIDE DEF d, s
  <2> QED BY <2>4, <2>5
<1> QED BY <1>16, <1>17, <1>18

-----------------------------------------------------------------------------
(***************************************************************************)
(* The buffered ticks, one after another                                   *)
(***************************************************************************)
\* Induction: every set of naturals that is not empty has a least element.
LEMMA LeastElement ==
    ASSUME NEW S \in SUBSET Nat, S # {}
    PROVE  \E n \in S : \A m \in S : n <= m
<1> DEFINE C == {0 .. m : m \in S}
<1>1. C \subseteq FiniteSubsetsOf(Nat)
  <2> SUFFICES ASSUME NEW m \in S PROVE 0 .. m \in FiniteSubsetsOf(Nat)
    OBVIOUS
  <2>1. IsFiniteSet(0 .. m)
    BY FS_Interval
  <2>2. 0 .. m \in SUBSET Nat
    OBVIOUS
  <2> QED BY <2>1, <2>2 DEF FiniteSubsetsOf
<1>2. C # {}
  OBVIOUS
<1>3. PICK x \in C : \A y \in C : ~ (<<y, x>> \in StrictSubsetOrdering(Nat))
  <2>1. IsWellFoundedOn(StrictSubsetOrdering(Nat), FiniteSubsetsOf(Nat))
    BY FS_StrictSubsetOrderingWellFounded
  <2> HIDE DEF C
  <2> QED BY <1>1, <1>2, <2>1, WFMin
<1>4. PICK n \in S : x = 0 .. n
  OBVIOUS
<1>5. ASSUME NEW m \in S, ~ (n <= m) PROVE FALSE
  <2>1. 0 .. m \in C /\ 0 .. m \in SUBSET Nat /\ 0 .. n \in SUBSET Nat
    OBVIOUS
  <2>2. 0 .. m \subseteq 0 .. n /\ n \in 0 .. n /\ n \notin 0 .. m
    BY <1>5
  <2>3. <<0 .. m, 0 .. n>> \in StrictSubsetOrdering(Nat)
    BY <2>1, <2>2, Zenon DEF StrictSubsetOrdering
  <2> QED BY <2>1, <2>3, <1>3, <1>4
<1> QED BY <1>5

LEMMA Induction ==
    ASSUME NEW S \in SUBSET Nat, 0 \in S, \A n \in S : n + 1 \in S
    PROVE  S = Nat
<1>1. SUFFICES ASSUME Nat \ S # {} PROVE FALSE
  OBVIOUS
<1>2. PICK n \in Nat \ S : \A m \in Nat \ S : n <= m
  BY <1>1, LeastElement
<1>3. n # 0 /\ n - 1 \in Nat /\ n - 1 \in S
  BY <1>2
<1> QED BY <1>3

\* A tick of the buffer after the instant `last` is applied.
Pending(x, tick, last) == IF tick.at > last THEN ApplyTick(x, tick.ticker, tick.at) ELSE x

\* g[k] is the component x after k ticks.
Applies(g, x, last, n) ==
    g = [k \in 0..n |-> IF k = 0 THEN x ELSE Pending(g[k - 1], x.buffer[k], last)]

LEMMA AppliesExists ==
    ASSUME NEW x, NEW last
    PROVE  \A n \in Nat : \E g : Applies(g, x, last, n)
<1> DEFINE S == {n \in Nat : \E g : Applies(g, x, last, n)}
<1>1. S \in SUBSET Nat OBVIOUS
<1>2. 0 \in S
  <2> DEFINE g == [k \in 0..0 |-> x]
  <2>1. \A k \in 0..0 : k = 0 OBVIOUS
  <2>2. g = [k \in 0..0 |-> IF k = 0 THEN x ELSE Pending(g[k - 1], x.buffer[k], last)] BY <2>1
  <2>3. Applies(g, x, last, 0) BY <2>2 DEF Applies
  <2> QED BY <2>3
<1>3. ASSUME NEW n \in S PROVE n + 1 \in S
  <2>1. PICK g : Applies(g, x, last, n) OBVIOUS
  <2>2. n \in Nat OBVIOUS
  <2> DEFINE h == [k \in 0..n+1 |-> IF k = n + 1 THEN Pending(g[n], x.buffer[n + 1], last) ELSE g[k]]
  <2>3. ASSUME NEW k \in 0..n+1
        PROVE  h[k] = IF k = 0 THEN x ELSE Pending(h[k - 1], x.buffer[k], last)
    <3>1. CASE k = n + 1 BY <2>2, <3>1
    <3>2. CASE k # n + 1 /\ k = 0
      <4>1. k \in 0..n BY <2>2, <3>2
      <4>2. g[k] = x BY <2>1, <3>2, <4>1 DEF Applies
      <4> QED BY <3>2, <4>2
    <3>3. CASE k # n + 1 /\ k # 0
      <4>1. k \in 0..n /\ k - 1 \in 0..n+1 /\ k - 1 # n + 1 BY <2>2, <3>3
      <4>2. g[k] = Pending(g[k - 1], x.buffer[k], last) BY <2>1, <3>3, <4>1 DEF Applies
      <4>3. h[k] = g[k] /\ h[k - 1] = g[k - 1] BY <3>3, <4>1
      <4> QED BY <3>3, <4>2, <4>3
    <3> QED BY <3>1, <3>2, <3>3
  <2>4. h = [k \in 0..n+1 |-> IF k = 0 THEN x ELSE Pending(h[k - 1], x.buffer[k], last)]
    <3>1. h = [k \in 0..n+1 |-> h[k]] OBVIOUS
    <3> HIDE DEF h
    <3> QED BY <2>3, <3>1
  <2>5. Applies(h, x, last, n + 1) BY <2>4 DEF Applies
  <2> HIDE DEF h
  <2> QED BY <2>2, <2>5
<1>4. S = Nat
  <2> HIDE DEF S
  <2> QED BY <1>1, <1>2, <1>3, Induction
<1> QED BY <1>4

Ticks == [ticker : Tickers, at : Nat]

LEMMA ApplyPendingIs ==
    ASSUME NEW x, x.buffer \in Seq(Ticks), NEW last
    PROVE  \E g : /\ g[0] = x
                  /\ \A k \in 1..Len(x.buffer) : g[k] = Pending(g[k - 1], x.buffer[k], last)
                  /\ ApplyPending(x, last) = g[Len(x.buffer)]
<1> DEFINE n == Len(x.buffer)
           g == CHOOSE f : Applies(f, x, last, n)
<1>1. n \in Nat OBVIOUS
<1>2. Applies(g, x, last, n)
  <2> HIDE DEF n
  <2>1. \E f : Applies(f, x, last, n) BY <1>1, AppliesExists
  <2> QED BY <2>1, Zenon
<1>3. ApplyPending(x, last) = g[n]
  <2> DEFINE ticks == x.buffer
             F(f) == f = [k \in 0..Len(ticks) |->
                             IF k = 0 THEN x
                             ELSE IF ticks[k].at > last
                                  THEN ApplyTick(f[k - 1], ticks[k].ticker, ticks[k].at)
                             ELSE f[k - 1]]
  <2>1. \A f : F(f) <=> Applies(f, x, last, n) BY DEF Applies, Pending
  <2>2. ApplyPending(x, last) = (CHOOSE f : F(f))[n] BY DEF ApplyPending
  <2> HIDE DEF F, n
  <2> QED BY <2>1, <2>2, Zenon
<1> HIDE DEF g
<1>4. g = [k \in 0..n |-> IF k = 0 THEN x ELSE Pending(g[k - 1], x.buffer[k], last)]
  BY <1>2 DEF Applies
<1> HIDE DEF n
<1>5. \A k \in 0..n : g[k] = IF k = 0 THEN x ELSE Pending(g[k - 1], x.buffer[k], last)
  BY <1>4, Zenon
<1>6. g[0] = x
  <2>1. 0 \in 0..n BY <1>1
  <2> QED BY <1>5, <2>1
<1>7. \A k \in 1..n : g[k] = Pending(g[k - 1], x.buffer[k], last)
  <2>1. \A k \in 1..n : k \in 0..n /\ k # 0 BY <1>1
  <2> QED BY <1>5, <2>1
<1> QED BY <1>3, <1>6, <1>7 DEF n

LEMMA PendingFrame ==
    ASSUME NEW x, DOMAIN x = Fields, x.buffer \in Seq(Ticks), NEW last
    PROVE  /\ Frame(x, ApplyPending(x, last), {"data", "series"})
           /\ x.dataRef = <<>> => ApplyPending(x, last) = x
<1> DEFINE n == Len(x.buffer)
<1>1. PICK g : /\ g[0] = x
               /\ \A k \in 1..n : g[k] = Pending(g[k - 1], x.buffer[k], last)
               /\ ApplyPending(x, last) = g[n]
  BY ApplyPendingIs
<1>2. n \in Nat OBVIOUS
<1> HIDE DEF n
<1> DEFINE P(y) == Frame(x, y, {"data", "series"}) /\ (x.dataRef = <<>> => y = x)
           S == {k \in Nat : k <= n => P(g[k])}
<1>3. 0 \in S BY <1>1 DEF Frame
<1>4. ASSUME NEW k \in S PROVE k + 1 \in S
  <2> SUFFICES ASSUME k + 1 <= n PROVE P(g[k + 1])
    BY <1>2
  <2>1. k \in Nat /\ P(g[k]) /\ k + 1 \in 1..n /\ k + 1 - 1 = k BY <1>2
  <2> DEFINE y == g[k]
             tick == x.buffer[k + 1]
             z == ApplyTick(y, tick.ticker, tick.at)
  <2>2. g[k + 1] = Pending(y, tick, last)
    <3>1. g[k + 1] = Pending(g[k + 1 - 1], x.buffer[k + 1], last) BY <1>1, <2>1
    <3> QED BY <2>1, <3>1
  <2>3. Frame(x, y, {"data", "series"}) /\ (x.dataRef = <<>> => y = x) BY <2>1
  <2> HIDE DEF y, tick
  <2>4. DOMAIN y = Fields BY <2>3 DEF Frame
  <2>5. Frame(y, z, {"data", "series"}) BY <2>4, ApplyTickFrame
  <2>6. x.dataRef = <<>> => z = y BY <2>3 DEF ApplyTick
  <2>7. Pending(y, tick, last) = y \/ Pending(y, tick, last) = z BY DEF Pending
  <2> HIDE DEF z
  <2>8. Frame(x, z, {"data", "series"}) BY <2>3, <2>5 DEF Frame
  <2>9. P(y) /\ P(z) BY <2>3, <2>6, <2>8
  <2> HIDE DEF P
  <2> QED BY <2>2, <2>7, <2>9
<1>5. S = Nat
  <2>1. S \in SUBSET Nat OBVIOUS
  <2> HIDE DEF S
  <2> QED BY <1>3, <1>4, <2>1, Induction
<1>6. n \in S BY <1>2, <1>5
<1>7. P(g[n]) BY <1>2, <1>6
<1> QED BY <1>1, <1>7

\* Buffered ticks of the selection keep the bars good.
LEMMA PendingKeepsGood ==
    ASSUME NEW sel \in Selections, NEW x, DOMAIN x = Fields, x.chart,
           x.intervalRef = sel[2], x.interval = sel[2], x.buffer \in Seq(Ticks),
           \A k \in 1..Len(x.buffer) : x.buffer[k].ticker = sel[1],
           Good(x.data, sel), Drawn(x.series, x.data, sel), NEW last
    PROVE  /\ Good(ApplyPending(x, last).data, sel)
           /\ Drawn(ApplyPending(x, last).series, ApplyPending(x, last).data, sel)
           /\ Grown(x.data, ApplyPending(x, last).data)
<1> DEFINE n == Len(x.buffer)
<1>1. PICK g : /\ g[0] = x
               /\ \A k \in 1..n : g[k] = Pending(g[k - 1], x.buffer[k], last)
               /\ ApplyPending(x, last) = g[n]
  BY ApplyPendingIs
<1>2. n \in Nat /\ \A k \in 1..n : x.buffer[k] \in Ticks /\ x.buffer[k].ticker = sel[1]
  BY ElementOfSeq
<1> HIDE DEF n
<1> DEFINE P(y) == /\ Frame(x, y, {"data", "series"})
                   /\ Good(y.data, sel) /\ Drawn(y.series, y.data, sel)
                   /\ Grown(x.data, y.data)
           S == {k \in Nat : k <= n => P(g[k])}
<1>3. 0 \in S
  <2>1. Grown(x.data, x.data) BY GrownSame DEF Good
  <2>2. P(x) BY <2>1 DEF Frame
  <2> HIDE DEF P
  <2> QED BY <1>1, <2>2
<1>4. ASSUME NEW k \in S PROVE k + 1 \in S
  <2> SUFFICES ASSUME k + 1 <= n PROVE P(g[k + 1])
    BY <1>2
  <2>1. k \in Nat /\ P(g[k]) /\ k + 1 \in 1..n /\ k + 1 - 1 = k BY <1>2
  <2> DEFINE y == g[k]
             tick == x.buffer[k + 1]
             z == ApplyTick(y, tick.ticker, tick.at)
  <2>2. g[k + 1] = Pending(y, tick, last)
    <3>1. g[k + 1] = Pending(g[k + 1 - 1], x.buffer[k + 1], last) BY <1>1, <2>1
    <3> QED BY <2>1, <3>1
  <2>3. P(y) BY <2>1
  <2>4. tick.ticker = sel[1] /\ tick.at \in Nat BY <1>2, <2>1 DEF Ticks
  <2> HIDE DEF y, tick
  <2>5. /\ DOMAIN y = Fields /\ y.chart = x.chart /\ y.intervalRef = sel[2] /\ y.interval = sel[2]
    BY <2>3 DEF Frame, Fields
  <2>6. Frame(y, z, {"data", "series"}) BY <2>5, ApplyTickFrame
  <2>7. P(z)
    <3>1. Frame(x, z, {"data", "series"}) BY <2>3, <2>6 DEF Frame
    <3>2. CASE y.dataRef = <<>>
      <4>1. z = y BY <3>2 DEF ApplyTick
      <4> QED BY <2>3, <4>1
    <3>3. CASE y.dataRef # <<>>
      <4>1. y.chart BY <2>5
      <4>2. Good(y.data, sel) /\ Drawn(y.series, y.data, sel) BY <2>3
      <4>3. Good(z.data, sel) /\ Drawn(z.series, z.data, sel) /\ Grown(y.data, z.data)
        BY <2>4, <2>5, <3>3, <4>1, <4>2, TickKeepsGood
      <4>4. Grown(x.data, z.data)
        <5>1. /\ x.data \in Seq(BarsOf(sel)) /\ y.data \in Seq(BarsOf(sel))
              /\ z.data \in Seq(BarsOf(sel))
          BY <4>2, <4>3 DEF Good
        <5>2. Grown(x.data, y.data) BY <2>3
        <5> HIDE DEF z
        <5> QED BY <4>3, <5>1, <5>2, GrownTrans
      <4> QED BY <3>1, <4>3, <4>4
    <3> QED BY <3>2, <3>3
  <2>8. Pending(y, tick, last) = y \/ Pending(y, tick, last) = z BY DEF Pending
  <2> HIDE DEF P, z
  <2> QED BY <2>2, <2>3, <2>7, <2>8
<1>5. S = Nat
  <2>1. S \in SUBSET Nat OBVIOUS
  <2> HIDE DEF S
  <2> QED BY <1>3, <1>4, <2>1, Induction
<1>6. n \in S BY <1>2, <1>5
<1>7. P(g[n]) BY <1>2, <1>6
<1> QED BY <1>1, <1>7

-----------------------------------------------------------------------------
(***************************************************************************)
(* What a render does to each field                                        *)
(***************************************************************************)
\* The bars the next render builds on.
Build(x) == IF x.newData THEN x.data ELSE x.dataRef

\* What the effects of the next render see: another selection, a chart to remove, a chart to
\* make, a reason to load, no stock to load for.
Switched(x) == Selection(x) # Selection(x.shown)
Gone(x) == Switched(x) /\ x.shown.ticker # None
Made(x) == Switched(x) /\ x.ticker # None
Asks(x) == Switched(x) \/ x.ready # x.shown.ready
Clears(x) == Asks(x) /\ x.ticker = None
Loads(x) == Asks(x) /\ x.ticker # None /\ x.ready

LEMMA DepsSelection ==
    ASSUME NEW x
    PROVE  /\ Selection(Deps(x)) = Selection(x)
           /\ Deps(x).ticker = x.ticker /\ Deps(x).interval = x.interval
           /\ Deps(x).ready = x.ready /\ Deps(x).loaded = x.loaded
BY DEF Deps, Selection

LEMMA CleanedIs ==
    ASSUME NEW x, DOMAIN x = Fields, NEW y, y = Cleaned(x)
    PROVE  /\ y.dataRef = IF Gone(x) THEN <<>> ELSE x.dataRef
           /\ y.series = IF Gone(x) THEN <<>> ELSE x.series
           /\ y.chart = IF Gone(x) THEN FALSE ELSE x.chart
           /\ y.ready = IF Gone(x) THEN FALSE ELSE x.ready
           /\ y.noMore = IF Gone(x) THEN FALSE ELSE x.noMore
<1>1. y = IF Gone(x) THEN RemoveChart(x) ELSE x
  BY DepsSelection DEF Cleaned, Gone, Switched
<1>2. CASE Gone(x) BY <1>1, <1>2 DEF RemoveChart, Fields
<1>3. CASE ~Gone(x) BY <1>1, <1>3
<1> QED BY <1>2, <1>3

LEMMA SyncedIs ==
    ASSUME NEW x, DOMAIN x = Fields, NEW y, y = Synced(x)
    PROVE  /\ y.dataRef = IF x.newData THEN x.data ELSE Cleaned(x).dataRef
           /\ y.intervalRef = x.interval
<1> DEFINE w == Cleaned(x)
           u == SyncDataRef(Deps(x), w)
           v == SyncIntervalRef(Deps(x), u)
<1>1. DOMAIN w = Fields /\ w.newData = x.newData /\ w.data = x.data
  BY RenderFrames DEF Frame, Fields
<1> HIDE DEF w
<1>2. /\ DOMAIN u = Fields
      /\ u.dataRef = IF x.newData THEN x.data ELSE w.dataRef
  BY <1>1 DEF SyncDataRef, Fields
<1> HIDE DEF u
<1>3. /\ DOMAIN v = Fields
      /\ v.dataRef = u.dataRef /\ v.intervalRef = x.interval
  BY <1>2 DEF SyncIntervalRef, Fields, Deps
<1> HIDE DEF v
<1>4. y = SyncHistoryRef(Deps(x), v) BY DEF Synced, u, v, w
<1>5. y.dataRef = v.dataRef /\ y.intervalRef = v.intervalRef
  BY <1>3, <1>4 DEF SyncHistoryRef, Fields
<1> QED BY <1>2, <1>3, <1>5 DEF w

LEMMA ChartedIs ==
    ASSUME NEW x, DOMAIN x = Fields, NEW y, y = Charted(x)
    PROVE  /\ y.newData = FALSE /\ y.newPrice = FALSE
           /\ y.series = IF Made(x) THEN <<>> ELSE Synced(x).series
           /\ y.chart = IF Made(x) THEN TRUE ELSE Synced(x).chart
           /\ y.ready = IF Made(x) THEN TRUE ELSE Synced(x).ready
           /\ y.noMore = IF Made(x) THEN FALSE ELSE Synced(x).noMore
<1> DEFINE w == Synced(x)
           u == [w EXCEPT !.newData = FALSE, !.newPrice = FALSE]
<1>1. DOMAIN w = Fields /\ w.shown = x.shown
  BY RenderFrames DEF Frame, Fields
<1> HIDE DEF w
<1>2. /\ DOMAIN u = Fields /\ u.shown = x.shown /\ u.newData = FALSE /\ u.newPrice = FALSE
      /\ u.series = w.series /\ u.chart = w.chart /\ u.ready = w.ready /\ u.noMore = w.noMore
  BY <1>1 DEF Fields
<1>3. y = CreateChart(Deps(x), u) BY DEF Charted, w
<1> HIDE DEF u
<1>4. y = IF Made(x) THEN [u EXCEPT !.chart = TRUE, !.series = <<>>, !.ready = TRUE, !.noMore = FALSE]
          ELSE u
  BY <1>2, <1>3, DepsSelection DEF CreateChart, Made, Switched
<1>5. CASE Made(x) BY <1>2, <1>4, <1>5 DEF Fields, w
<1>6. CASE ~Made(x) BY <1>2, <1>4, <1>6 DEF w
<1> QED BY <1>5, <1>6

LEMMA AskedIs ==
    ASSUME NEW x, DOMAIN x = Fields, NEW y, y = Asked(x)
    PROVE  /\ y.newData = IF Clears(x) THEN TRUE ELSE FALSE
           /\ y.data = IF Clears(x) THEN <<>> ELSE x.data
           /\ y.series = IF Clears(x) THEN <<>> ELSE Charted(x).series
           /\ y.loaded = IF Clears(x) \/ Loads(x) THEN FALSE ELSE x.loaded
           /\ y.flight = IF Loads(x)
                         THEN Append(x.flight, Request("history", Selection(x), now, <<>>))
                         ELSE x.flight
<1> DEFINE w == Charted(x)
           q == Append(x.flight, Request("history", Selection(x), now, <<>>))
<1>1. /\ DOMAIN w = Fields /\ w.shown = x.shown /\ w.flight = x.flight /\ w.data = x.data
      /\ w.loaded = x.loaded /\ w.newData = FALSE
  <2>1. /\ Frame(x, Cleaned(x), {"dataRef", "noMore", "ready", "chart", "series"})
        /\ Frame(Cleaned(x), Synced(x), {"dataRef", "intervalRef", "historyRef"})
        /\ Frame(Synced(x), w, {"newData", "newPrice", "chart", "series", "ready", "noMore"})
    BY RenderFrames
  <2>2. w.newData = FALSE BY ChartedIs
  <2> HIDE DEF w
  <2> QED BY <2>1, <2>2 DEF Frame, Fields
<1>2. y = LoadHistory(Deps(x), w) BY DEF Asked
<1> HIDE DEF w
<1>3. y = IF Clears(x) THEN [w EXCEPT !.loaded = FALSE, !.data = <<>>, !.newData = TRUE, !.series = <<>>]
          ELSE IF Loads(x) THEN [w EXCEPT !.loaded = FALSE, !.flight = q]
          ELSE w
  BY <1>1, <1>2, DepsSelection DEF LoadHistory, Clears, Loads, Asks, Switched
<1> HIDE DEF q
<1>4. CASE Clears(x) BY <1>1, <1>3, <1>4 DEF Fields, w, Clears, Loads
<1>5. CASE ~Clears(x) /\ Loads(x) BY <1>1, <1>3, <1>5 DEF Fields, w, q
<1>6. CASE ~Clears(x) /\ ~Loads(x) BY <1>1, <1>3, <1>6 DEF w
<1> QED BY <1>4, <1>5, <1>6

\* The same as the four lemmas say, from the component before the render.
LEMMA AskedFields ==
    ASSUME NEW x, DOMAIN x = Fields, NEW z, z = Asked(x)
    PROVE  /\ DOMAIN z = Fields
           /\ z.ticker = x.ticker /\ z.interval = x.interval /\ z.price = x.price
           /\ z.legend = x.legend /\ z.hovered = x.hovered
           /\ z.fetching = x.fetching /\ z.buffer = x.buffer
           /\ z.intervalRef = x.interval /\ z.newPrice = FALSE /\ z.shown = x.shown
           /\ z.dataRef = IF x.newData THEN x.data ELSE IF Gone(x) THEN <<>> ELSE x.dataRef
           /\ z.chart = IF Made(x) THEN TRUE ELSE IF Gone(x) THEN FALSE ELSE x.chart
           /\ z.ready = IF Made(x) THEN TRUE ELSE IF Gone(x) THEN FALSE ELSE x.ready
           /\ z.noMore = IF Made(x) \/ Gone(x) THEN FALSE ELSE x.noMore
           /\ z.data = IF Clears(x) THEN <<>> ELSE x.data
           /\ z.newData = IF Clears(x) THEN TRUE ELSE FALSE
           /\ z.series = IF Clears(x) \/ Made(x) \/ Gone(x) THEN <<>> ELSE x.series
<1> DEFINE a == Cleaned(x)
           b == Synced(x)
           d == Charted(x)
<1>1. /\ Frame(x, a, {"dataRef", "noMore", "ready", "chart", "series"})
      /\ Frame(a, b, {"dataRef", "intervalRef", "historyRef"})
      /\ Frame(b, d, {"newData", "newPrice", "chart", "series", "ready", "noMore"})
      /\ Frame(d, z, {"loaded", "data", "newData", "series", "flight"})
  BY RenderFrames
<1>2. /\ a.dataRef = IF Gone(x) THEN <<>> ELSE x.dataRef
      /\ a.series = IF Gone(x) THEN <<>> ELSE x.series
      /\ a.chart = IF Gone(x) THEN FALSE ELSE x.chart
      /\ a.ready = IF Gone(x) THEN FALSE ELSE x.ready
      /\ a.noMore = IF Gone(x) THEN FALSE ELSE x.noMore
  BY CleanedIs
<1>3. b.intervalRef = x.interval /\ b.dataRef = IF x.newData THEN x.data ELSE a.dataRef
  BY SyncedIs
<1>4. /\ d.newPrice = FALSE
      /\ d.series = IF Made(x) THEN <<>> ELSE b.series
      /\ d.chart = IF Made(x) THEN TRUE ELSE b.chart
      /\ d.ready = IF Made(x) THEN TRUE ELSE b.ready
      /\ d.noMore = IF Made(x) THEN FALSE ELSE b.noMore
  BY ChartedIs
<1>5. /\ z.newData = IF Clears(x) THEN TRUE ELSE FALSE
      /\ z.data = IF Clears(x) THEN <<>> ELSE x.data
      /\ z.series = IF Clears(x) THEN <<>> ELSE d.series
  BY AskedIs
<1> HIDE DEF a, b, d
<1>6. /\ DOMAIN z = Fields
      /\ z.ticker = x.ticker /\ z.interval = x.interval /\ z.price = x.price
      /\ z.legend = x.legend /\ z.hovered = x.hovered
      /\ z.fetching = x.fetching /\ z.buffer = x.buffer
      /\ z.shown = x.shown
  BY <1>1 DEF Frame, Fields
<1>7. /\ z.dataRef = b.dataRef /\ z.intervalRef = b.intervalRef /\ z.newPrice = d.newPrice
      /\ z.chart = d.chart /\ z.ready = d.ready /\ z.noMore = d.noMore
      /\ b.chart = a.chart /\ b.ready = a.ready /\ b.series = a.series /\ b.noMore = a.noMore
  BY <1>1 DEF Frame, Fields
<1> QED BY <1>2, <1>3, <1>4, <1>5, <1>6, <1>7

\* The live effect has something to do.
Due(x) == (x.newPrice \/ x.loaded # x.shown.loaded) /\ x.ticker # None

Quiet(x, y) ==
    y.data = Asked(x).data /\ y.series = Asked(x).series /\ y.newData = Asked(x).newData
Ticked(x, y) ==
    LET w == ApplyTick(Asked(x), x.ticker, now)
    IN  /\ y.data = w.data /\ y.series = w.series
        /\ y.newData = (Asked(x).newData \/ w.data # Asked(x).data)

\* y is what rendering x leaves.
RenderOf(x, y) ==
    /\ DOMAIN y = Fields
    /\ y.ticker = x.ticker /\ y.interval = x.interval /\ y.price = x.price
    /\ y.legend = x.legend /\ y.hovered = x.hovered
    /\ y.fetching = x.fetching /\ y.intervalRef = x.interval
    /\ y.newPrice = FALSE /\ y.shown = Deps(x)
    /\ y.dataRef = Asked(x).dataRef /\ y.chart = Asked(x).chart /\ y.ready = Asked(x).ready
    /\ y.noMore = Asked(x).noMore
    /\ y.loaded = Asked(x).loaded /\ y.flight = Asked(x).flight
    /\ \/ y.buffer = x.buffer
       \/ Due(x) /\ y.buffer = Append(x.buffer, [ticker |-> x.ticker, at |-> now])
    /\ Quiet(x, y) \/ (Due(x) /\ Ticked(x, y))

LEMMA RenderedFields ==
    ASSUME NEW x, DOMAIN x = Fields
    PROVE  RenderOf(x, Rendered(x))
<1> DEFINE y == Rendered(x)
           z == Asked(x)
<1> DEFINE v == Lived(x)
           r == Deps(x)
           b == Append(z.buffer, [ticker |-> r.ticker, at |-> now])
           w == ApplyTick(z, r.ticker, now)
           n == w.newData \/ w.data # z.data
<1>1. /\ DOMAIN z = Fields
      /\ z.ticker = x.ticker /\ z.interval = x.interval /\ z.price = x.price
      /\ z.legend = x.legend /\ z.hovered = x.hovered
      /\ z.fetching = x.fetching /\ z.buffer = x.buffer
      /\ z.intervalRef = x.interval /\ z.newPrice = FALSE /\ z.shown = x.shown
  BY AskedFields
<1>2. /\ \/ v = z
         \/ Due(x) /\ v = [z EXCEPT !.buffer = b]
         \/ Due(x) /\ v = [w EXCEPT !.newData = n]
  <2>1. v = LivePrice(r, z, x.newPrice) BY DEF Lived
  <2>2. r.loaded = x.loaded /\ r.ticker = x.ticker BY DepsSelection
  <2> HIDE DEF r
  <2>3. v = IF ~(x.newPrice \/ r.loaded # z.shown.loaded) \/ r.ticker = None \/ ~z.price THEN z
            ELSE IF ~r.loaded THEN [z EXCEPT !.buffer = b]
            ELSE [w EXCEPT !.newData = n]
    BY <2>1 DEF LivePrice
  <2> HIDE DEF v, b, w, n
  <2> QED BY <1>1, <2>2, <2>3 DEF Due
<1>3. Frame(z, w, {"data", "series"}) BY <1>1, ApplyTickFrame
<1>4. r.ticker = x.ticker BY DepsSelection
<1>5. y = [v EXCEPT !.shown = r] BY DEF Rendered, y, v, r
<1>6. b = Append(x.buffer, [ticker |-> x.ticker, at |-> now]) BY <1>1, <1>4
<1>7. w = ApplyTick(z, x.ticker, now) BY <1>4
<1> HIDE DEF v, r, b, w, n, y
<1>8. DOMAIN v = Fields BY <1>1, <1>2, <1>3 DEF Frame, Fields
<1>9. /\ DOMAIN y = Fields /\ y.shown = r
      /\ \A f \in Fields \ {"shown"} : y[f] = v[f]
  BY <1>5, <1>8 DEF Fields
<1>10. \A f \in Fields \ {"buffer", "data", "series", "newData"} : v[f] = z[f]
  BY <1>1, <1>2, <1>3 DEF Frame, Fields
<1>11. /\ y.ticker = z.ticker /\ y.interval = z.interval /\ y.price = z.price
       /\ y.legend = z.legend /\ y.hovered = z.hovered
       /\ y.fetching = z.fetching /\ y.intervalRef = z.intervalRef
       /\ y.newPrice = z.newPrice
       /\ y.dataRef = z.dataRef /\ y.chart = z.chart /\ y.ready = z.ready
       /\ y.noMore = z.noMore
       /\ y.loaded = z.loaded /\ y.flight = z.flight
  BY <1>9, <1>10 DEF Fields
<1>12. /\ y.buffer = v.buffer /\ y.data = v.data /\ y.series = v.series /\ y.newData = v.newData
  BY <1>9 DEF Fields
<1>13. w.buffer = z.buffer /\ w.newData = z.newData BY <1>3 DEF Frame, Fields
<1>14. y.buffer = x.buffer \/ (Due(x) /\ y.buffer = b)
  BY <1>1, <1>2, <1>3, <1>12, <1>13 DEF Frame, Fields
<1>15. \/ y.data = z.data /\ y.series = z.series /\ y.newData = z.newData
       \/ Due(x) /\ y.data = w.data /\ y.series = w.series /\ y.newData = n
  BY <1>1, <1>2, <1>3, <1>12 DEF Frame, Fields
<1>16. Quiet(x, y) \/ (Due(x) /\ Ticked(x, y))
  BY <1>7, <1>13, <1>15 DEF Quiet, Ticked, n
<1>17. RenderOf(x, y)
  <2> HIDE DEF z
  <2> QED BY <1>1, <1>6, <1>9, <1>11, <1>14, <1>16 DEF r, z, RenderOf
<1> QED BY <1>17 DEF y

-----------------------------------------------------------------------------
(***************************************************************************)
(* Renders with the same selection                                         *)
(***************************************************************************)
\* The chart exists with a stock; what was rendered has the same selection and chart.
Wired(x) ==
    /\ DOMAIN x = Fields
    /\ x.ticker \in Tickers \cup {None} /\ x.interval \in Intervals
    /\ x.intervalRef = x.interval
    /\ x.buffer \in Seq(Ticks)
    /\ x.ready = (x.ticker # None) /\ x.chart = x.ready
    /\ x.shown.ticker = x.ticker /\ x.shown.interval = x.interval /\ x.shown.ready = x.ready

\* The bars are those of the selection, the series draws them, and so is the hovered bar.
Pure(x) ==
    /\ Build(x) # <<>> =>
          /\ x.data = Build(x) /\ x.ticker # None
          /\ Good(Build(x), Selection(x)) /\ Drawn(x.series, Build(x), Selection(x))
    /\ Build(x) = <<>> => x.series = <<>>
    /\ x.hovered => x.legend = None \/ x.legend = {Selection(x)}

\* What a render leaves: the control, and the purity of the bars.
Kept(x, y) ==
    /\ Wired(y)
    /\ y.ticker = x.ticker /\ y.interval = x.interval
    /\ y.flight = x.flight /\ y.fetching = x.fetching /\ y.noMore = x.noMore
    /\ Pure(x) => Pure(y) /\ Grown(Build(x), Build(y))
    /\ Pure(x) /\ Build(x) = <<>> => Build(y) = <<>>

LEMMA PureGrows ==
    ASSUME NEW x, Pure(x)
    PROVE  Build(x) \in Seq(BarsOf(Selection(x))) /\ Grown(Build(x), Build(x))
<1>1. Build(x) \in Seq(BarsOf(Selection(x)))
  <2>1. CASE Build(x) = <<>> BY <2>1
  <2>2. CASE Build(x) # <<>> BY <2>2 DEF Pure, Good
  <2> QED BY <2>1, <2>2
<1> QED BY <1>1, GrownSame

LEMMA KeptTrans ==
    ASSUME NEW x, NEW y, NEW z, Kept(x, y), Kept(y, z)
    PROVE  Kept(x, z)
<1>1. Pure(x) => Grown(Build(x), Build(z))
  <2> HAVE Pure(x)
  <2>1. Pure(y) /\ Pure(z) /\ Grown(Build(x), Build(y)) /\ Grown(Build(y), Build(z))
    BY DEF Kept
  <2>2. Selection(x) = Selection(y) /\ Selection(y) = Selection(z) BY DEF Kept, Selection
  <2>3. /\ Build(x) \in Seq(BarsOf(Selection(x))) /\ Build(y) \in Seq(BarsOf(Selection(y)))
        /\ Build(z) \in Seq(BarsOf(Selection(z)))
    BY <2>1, PureGrows
  <2> QED BY <2>1, <2>2, <2>3, GrownTrans
<1> QED BY <1>1, Zenon DEF Kept

LEMMA BufferTick ==
    ASSUME now \in Nat, NEW b \in Seq(Ticks), NEW t \in Tickers
    PROVE  Append(b, [ticker |-> t, at |-> now]) \in Seq(Ticks)
<1>1. [ticker |-> t, at |-> now] \in Ticks BY DEF Ticks
<1> QED BY <1>1, AppendProperties

LEMMA WiredRender ==
    ASSUME now \in Nat, NEW x, Wired(x), NEW y, y = Rendered(x)
    PROVE  /\ Wired(y)
           /\ y.ticker = x.ticker /\ y.interval = x.interval /\ y.legend = x.legend
           /\ y.hovered = x.hovered /\ y.noMore = x.noMore
           /\ y.flight = x.flight /\ y.fetching = x.fetching /\ y.loaded = x.loaded
           /\ y.newPrice = FALSE /\ Deps(y) = y.shown
           /\ y.dataRef = Build(x)
           /\ \/ y.data = x.data /\ y.series = x.series /\ y.newData = FALSE
              \/ Due(x) /\ LET w == ApplyTick(Asked(x), x.ticker, now)
                           IN  y.data = w.data /\ y.series = w.series /\ y.newData = (w.data # x.data)
<1> DEFINE z == Asked(x)
<1>1. DOMAIN x = Fields BY DEF Wired
<1>2. ~Switched(x) /\ ~Gone(x) /\ ~Made(x) /\ ~Clears(x) /\ ~Loads(x)
  BY DEF Wired, Switched, Gone, Made, Clears, Loads, Asks, Selection
<1>3. /\ z.dataRef = Build(x) /\ z.chart = x.chart /\ z.ready = x.ready
      /\ z.data = x.data /\ z.newData = FALSE /\ z.series = x.series /\ z.noMore = x.noMore
  BY <1>1, <1>2, AskedFields DEF Build
<1>4. z.loaded = x.loaded /\ z.flight = x.flight
  BY <1>1, <1>2, AskedIs
<1>0. RenderOf(x, y) BY <1>1, RenderedFields
<1>5. /\ DOMAIN y = Fields
      /\ y.ticker = x.ticker /\ y.interval = x.interval
      /\ y.legend = x.legend /\ y.hovered = x.hovered /\ y.noMore = z.noMore
      /\ y.fetching = x.fetching /\ y.intervalRef = x.interval
      /\ y.newPrice = FALSE /\ y.shown = Deps(x)
      /\ y.dataRef = z.dataRef /\ y.chart = z.chart /\ y.ready = z.ready
      /\ y.loaded = z.loaded /\ y.flight = z.flight
      /\ y.buffer = x.buffer \/ (Due(x) /\ y.buffer = Append(x.buffer, [ticker |-> x.ticker, at |-> now]))
      /\ Quiet(x, y) \/ (Due(x) /\ Ticked(x, y))
  BY <1>0 DEF RenderOf
<1>6. Deps(y) = y.shown BY <1>3, <1>4, <1>5 DEF Deps
<1>7. y.buffer \in Seq(Ticks)
  <2>1. Due(x) => x.ticker \in Tickers BY DEF Due, Wired
  <2>2. x.buffer \in Seq(Ticks) BY DEF Wired
  <2> QED BY <1>5, <2>1, <2>2, BufferTick
<1>8. Wired(y)
  <2>1. y.shown.ticker = y.ticker /\ y.shown.interval = y.interval /\ y.shown.ready = y.ready
    BY <1>6 DEF Deps
  <2>2. /\ x.ticker \in Tickers \cup {None} /\ x.interval \in Intervals
        /\ x.ready = (x.ticker # None) /\ x.chart = x.ready
    BY DEF Wired
  <2> HIDE DEF z
  <2> QED BY <1>3, <1>5, <1>7, <2>1, <2>2 DEF Wired
<1>9. \/ y.data = x.data /\ y.series = x.series /\ y.newData = FALSE
      \/ Due(x) /\ LET w == ApplyTick(Asked(x), x.ticker, now)
                   IN  y.data = w.data /\ y.series = w.series /\ y.newData = (w.data # x.data)
  <2>1. CASE Quiet(x, y)
    BY <1>3, <2>1 DEF Quiet
  <2>2. CASE Due(x) /\ Ticked(x, y)
    <3> DEFINE w == ApplyTick(Asked(x), x.ticker, now)
    <3>1. y.data = w.data /\ y.series = w.series /\ y.newData = (z.newData \/ w.data # z.data)
      BY <2>2 DEF Ticked
    <3>2. y.newData = (w.data # x.data)
      <4> HIDE DEF w, z
      <4> QED BY <1>3, <3>1
    <3> QED BY <2>2, <3>1, <3>2
  <2> QED BY <1>5, <2>1, <2>2
<1> HIDE DEF z
<1>10. /\ y.flight = x.flight /\ y.loaded = x.loaded /\ y.dataRef = Build(x)
       /\ y.noMore = x.noMore
  BY <1>3, <1>4, <1>5
<1> QED BY <1>5, <1>6, <1>8, <1>9, <1>10


\* A tick shown by a render belongs to the selection.
LEMMA WiredTick ==
    ASSUME now \in Nat, NEW x, Wired(x), Pure(x), Due(x), NEW w,
           w = ApplyTick(Asked(x), x.ticker, now)
    PROVE  /\ Build(x) = <<>> => w.data = x.data /\ w.series = x.series
           /\ Build(x) # <<>> => /\ Good(w.data, Selection(x))
                                 /\ Drawn(w.series, w.data, Selection(x))
                                 /\ Grown(x.data, w.data)
<1> DEFINE z == Asked(x)
           sel == Selection(x)
<1>1. DOMAIN x = Fields BY DEF Wired
<1>2. ~Switched(x) /\ ~Gone(x) /\ ~Made(x) /\ ~Clears(x) /\ ~Loads(x)
  BY DEF Wired, Switched, Gone, Made, Clears, Loads, Asks, Selection
<1>3. /\ DOMAIN z = Fields /\ z.dataRef = Build(x) /\ z.chart = x.chart
      /\ z.data = x.data /\ z.series = x.series
      /\ z.intervalRef = x.interval /\ z.interval = x.interval
  BY <1>1, <1>2, AskedFields DEF Build
<1>4. sel \in Selections /\ sel[1] = x.ticker /\ sel[2] = x.interval /\ x.chart
  BY DEF Due, Wired, Selection, Selections
<1>5. w = ApplyTick(z, x.ticker, now) OBVIOUS
<1> HIDE DEF z
<1>6. CASE Build(x) = <<>>
  <2>1. w = z BY <1>3, <1>5, <1>6 DEF ApplyTick
  <2> QED BY <1>3, <1>6, <2>1
<1>7. CASE Build(x) # <<>>
  <2>1. Good(z.data, sel) /\ Drawn(z.series, z.data, sel) BY <1>3, <1>7 DEF Pure
  <2>2. z.chart /\ z.dataRef # <<>> /\ z.intervalRef = sel[2] /\ z.interval = sel[2]
    BY <1>3, <1>4, <1>7
  <2> HIDE DEF sel
  <2>3. Good(w.data, sel) /\ Drawn(w.series, w.data, sel) /\ Grown(z.data, w.data)
    BY <1>3, <1>4, <1>5, <2>1, <2>2, TickKeepsGood
  <2> QED BY <1>3, <1>7, <2>3 DEF sel
<1> QED BY <1>6, <1>7

LEMMA WiredKept ==
    ASSUME now \in Nat, NEW x, Wired(x)
    PROVE  Kept(x, Rendered(x))
<1> DEFINE y == Rendered(x)
           w == ApplyTick(Asked(x), x.ticker, now)
<1>1. /\ Wired(y)
      /\ y.ticker = x.ticker /\ y.interval = x.interval /\ y.legend = x.legend
      /\ y.hovered = x.hovered /\ y.noMore = x.noMore
      /\ y.flight = x.flight /\ y.fetching = x.fetching
      /\ y.dataRef = Build(x)
  BY WiredRender
<1>2. \/ y.data = x.data /\ y.series = x.series /\ y.newData = FALSE
      \/ Due(x) /\ y.data = w.data /\ y.series = w.series /\ y.newData = (w.data # x.data)
  BY WiredRender
<1>3. /\ Due(x) /\ Pure(x) /\ Build(x) = <<>> => w.data = x.data /\ w.series = x.series
      /\ Due(x) /\ Pure(x) /\ Build(x) # <<>> =>
            /\ Good(w.data, Selection(x)) /\ Drawn(w.series, w.data, Selection(x))
            /\ Grown(x.data, w.data)
  BY WiredTick
<1>4. Selection(y) = Selection(x) BY <1>1 DEF Selection
<1> HIDE DEF y, w
<1>5. ASSUME Pure(x)
      PROVE  Pure(y) /\ Grown(Build(x), Build(y)) /\ (Build(x) = <<>> => Build(y) = <<>>)
  <2>0. Grown(Build(x), Build(x)) BY <1>5, PureGrows
  <2>1. CASE y.data = x.data /\ y.series = x.series /\ y.newData = FALSE
    <3>1. Build(y) = Build(x) BY <1>1, <2>1 DEF Build
    <3> QED BY <1>1, <1>4, <1>5, <2>0, <2>1, <3>1 DEF Pure
  <2>2. CASE /\ Due(x) /\ y.data = w.data /\ y.series = w.series /\ y.newData = (w.data # x.data)
             /\ Build(x) = <<>>
    <3>1. w.data = x.data /\ w.series = x.series BY <1>3, <1>5, <2>2
    <3>2. Build(y) = Build(x) BY <1>1, <2>2, <3>1 DEF Build
    <3> QED BY <1>1, <1>4, <1>5, <2>0, <2>2, <3>1, <3>2 DEF Pure
  <2>3. CASE /\ Due(x) /\ y.data = w.data /\ y.series = w.series /\ y.newData = (w.data # x.data)
             /\ Build(x) # <<>>
    <3>1. /\ Good(w.data, Selection(x)) /\ Drawn(w.series, w.data, Selection(x))
          /\ Grown(x.data, w.data)
      BY <1>3, <1>5, <2>3
    <3>2. Build(y) = w.data /\ x.data = Build(x)
      <4>1. x.data = Build(x) BY <1>5, <2>3 DEF Pure
      <4> QED BY <1>1, <2>3, <4>1 DEF Build
    <3>3. w.data = <<>> => w.series = <<>> BY <3>1, LastDrawn
    <3>4. x.ticker # None BY <2>3 DEF Due
    <3>5. x.hovered => x.legend = None \/ x.legend = {Selection(x)} BY <1>5 DEF Pure
    <3>6. Pure(y) BY <1>1, <1>4, <2>3, <3>1, <3>2, <3>3, <3>4, <3>5 DEF Pure
    <3> QED BY <2>3, <3>1, <3>2, <3>6
  <2> QED BY <1>2, <2>1, <2>2, <2>3
<1>6. Kept(x, y) BY <1>1, <1>5 DEF Kept
<1> QED BY <1>6 DEF y

LEMMA CommitKept ==
    ASSUME now \in Nat, NEW x, Wired(x)
    PROVE  Kept(x, Commit(x))
<1>1. Commit(x) = x \/ Commit(x) = Rendered(x) BY CommitRenders
<1>2. Kept(x, x)
  <2>1. Pure(x) => Grown(Build(x), Build(x)) BY PureGrows
  <2> QED BY <2>1 DEF Kept
<1>3. Kept(x, Rendered(x)) BY WiredKept
<1> QED BY <1>1, <1>2, <1>3

\* With the same selection two renders are enough: the first applies what is due, the second
\* lets the refs follow the bars.
LEMMA CommitTwice ==
    ASSUME now \in Nat, NEW x, Wired(x)
    PROVE  Settled(Commit(Commit(x)))
<1> DEFINE y == Commit(x)
<1>1. CASE Settled(x)
  <2>1. y = x BY <1>1, CommitRenders
  <2> QED BY <1>1, <2>1
<1>2. CASE ~Settled(x)
  <2>1. y = Rendered(x) BY <1>2, CommitRenders
  <2>2. Wired(y) /\ Deps(y) = y.shown /\ y.newPrice = FALSE BY <2>1, WiredRender
  <2> HIDE DEF y
  <2>3. ~Due(y) BY <2>2 DEF Due, Deps
  <2>4. CASE Settled(y) BY <2>4, CommitRenders DEF y
  <2>5. CASE ~Settled(y)
    <3> DEFINE u == Commit(y)
    <3>1. u = Rendered(y) BY <2>5, CommitRenders
    <3>2. Deps(u) = u.shown /\ u.newPrice = FALSE /\ u.newData = FALSE
      BY <2>2, <2>3, <3>1, WiredRender
    <3>3. Settled(u) BY <3>2 DEF Settled
    <3> QED BY <3>3 DEF y
  <2> QED BY <2>4, <2>5
<1> QED BY <1>1, <1>2

LEMMA SettledStays ==
    ASSUME NEW x, Settled(x)
    PROVE  Commit(x) = x
BY CommitRenders

LEMMA SettleKept ==
    ASSUME now \in Nat, NEW x, Wired(x)
    PROVE  Kept(x, Settle(x)) /\ Settled(Settle(x))
<1> DEFINE y == Commit(x)
           z == Commit(y)
<1>1. Kept(x, y) BY CommitKept
<1>2. Settled(z) BY CommitTwice
<1> HIDE DEF y
<1>3. Kept(y, z) BY <1>1, CommitKept DEF Kept
<1> HIDE DEF z
<1>4. Kept(x, z) BY <1>1, <1>3, KeptTrans
<1>5. Settle(x) = z BY <1>2, SettleCommits, SettledStays DEF y, z
<1> QED BY <1>2, <1>4, <1>5


-----------------------------------------------------------------------------
(***************************************************************************)
(* Renders after a switch                                                  *)
(***************************************************************************)
\* Without bars in the ref no tick is drawn.
LEMMA QuietRender ==
    ASSUME NEW x, DOMAIN x = Fields, Asked(x).dataRef = <<>>
    PROVE  Quiet(x, Rendered(x))
<1> DEFINE y == Rendered(x)
           z == Asked(x)
           w == ApplyTick(z, x.ticker, now)
<1>1. RenderOf(x, y) BY RenderedFields
<1>2. CASE Quiet(x, y) BY <1>2
<1>3. CASE Ticked(x, y)
  <2>1. w = z BY DEF ApplyTick
  <2>2. y.data = w.data /\ y.series = w.series /\ y.newData = (z.newData \/ w.data # z.data)
    BY <1>3 DEF Ticked
  <2>3. z.newData = IF Clears(x) THEN TRUE ELSE FALSE BY AskedFields
  <2> HIDE DEF y, z, w
  <2>4. y.newData = z.newData BY <2>1, <2>2, <2>3
  <2> QED BY <2>1, <2>2, <2>4 DEF Quiet, y, z
<1> QED BY <1>1, <1>2, <1>3 DEF RenderOf

LEMMA RenderBuffers ==
    ASSUME now \in Nat, NEW x, DOMAIN x = Fields, x.buffer \in Seq(Ticks),
           x.ticker \in Tickers \cup {None}
    PROVE  Rendered(x).buffer \in Seq(Ticks)
<1> DEFINE y == Rendered(x)
<1>1. RenderOf(x, y) BY RenderedFields
<1> HIDE DEF y
<1>2. \/ y.buffer = x.buffer
      \/ Due(x) /\ y.buffer = Append(x.buffer, [ticker |-> x.ticker, at |-> now])
  BY <1>1 DEF RenderOf
<1>3. Due(x) => x.ticker \in Tickers BY DEF Due
<1>4. y.buffer \in Seq(Ticks) BY <1>2, <1>3, BufferTick
<1> QED BY <1>4 DEF y

\* The parent, or a button, has just given the panel another selection.
Turned(x) ==
    /\ DOMAIN x = Fields
    /\ x.ticker \in Tickers \cup {None} /\ x.interval \in Intervals
    /\ x.buffer \in Seq(Ticks)
    /\ x.ready = (x.shown.ticker # None) /\ x.chart = x.ready /\ x.shown.ready = x.ready
    /\ x.newData = FALSE
    /\ Switched(x)
    /\ x.ticker # None \/ x.shown.ticker # None

\* Nothing of the earlier selection counts: no bar was hovered since, and without a chart to
\* remove there are no bars.
Clean(x) == ~x.hovered /\ (x.shown.ticker = None => x.dataRef = <<>>)

FreshRequest(x) == Request("history", Selection(x), now, <<>>)

\* z is the panel after the switch: history is asked for, and a clean one is empty.
TurnedInto(x, z) ==
    /\ Wired(z)
    /\ z.ticker = x.ticker /\ z.interval = x.interval /\ z.fetching = x.fetching
    /\ z.flight = IF x.ticker = None THEN x.flight ELSE Append(x.flight, FreshRequest(x))
    /\ Clean(x) => Pure(z) /\ Build(z) = <<>>

LEMMA TurnedKept ==
    ASSUME NEW x, NEW y, NEW z, TurnedInto(x, y), Kept(y, z)
    PROVE  TurnedInto(x, z)
<1>1. /\ Wired(z) /\ z.ticker = y.ticker /\ z.interval = y.interval
      /\ z.flight = y.flight /\ z.fetching = y.fetching
      /\ Pure(y) => Pure(z)
      /\ Pure(y) /\ Build(y) = <<>> => Build(z) = <<>>
  BY DEF Kept
<1>2. /\ y.ticker = x.ticker /\ y.interval = x.interval /\ y.fetching = x.fetching
      /\ y.flight = IF x.ticker = None THEN x.flight ELSE Append(x.flight, FreshRequest(x))
      /\ Clean(x) => Pure(y) /\ Build(y) = <<>>
  BY DEF TurnedInto
<1> QED BY <1>1, <1>2 DEF TurnedInto

LEMMA NotSettled ==
    ASSUME NEW x, Switched(x) \/ x.ready # x.shown.ready
    PROVE  ~Settled(x) /\ Commit(x) = Rendered(x)
<1>1. ~Settled(x)
  <2> SUFFICES ASSUME Settled(x) PROVE FALSE OBVIOUS
  <2>1. Deps(x) = x.shown BY DEF Settled
  <2>2. x.shown.ticker = x.ticker /\ x.shown.interval = x.interval /\ x.shown.ready = x.ready
    BY <2>1, DepsSelection
  <2> QED BY <2>2 DEF Switched, Selection
<1> QED BY <1>1, CommitRenders

\* A new chart is empty.
LEMMA MadeAsked ==
    ASSUME NEW x, DOMAIN x = Fields, x.newData = FALSE, Made(x), ~Clears(x)
    PROVE  /\ Asked(x).dataRef = IF Gone(x) THEN <<>> ELSE x.dataRef
           /\ Asked(x).chart = TRUE /\ Asked(x).ready = TRUE
           /\ Asked(x).newData = FALSE /\ Asked(x).series = <<>>
<1> DEFINE z == Asked(x)
<1>1. z = Asked(x) OBVIOUS
<1> HIDE DEF z
<1>2. z.dataRef = IF Gone(x) THEN <<>> ELSE x.dataRef BY <1>1, AskedFields
<1>3. z.chart = TRUE BY <1>1, AskedFields
<1>4. z.ready = TRUE BY <1>1, AskedFields
<1>5. z.newData = FALSE BY <1>1, AskedFields
<1>6. z.series = <<>> BY <1>1, AskedFields
<1> QED BY <1>2, <1>3, <1>4, <1>5, <1>6 DEF z

\* From one stock or interval to another.
LEMMA TurnedWithChart ==
    ASSUME now \in Nat, NEW x, Turned(x), x.ticker # None, x.shown.ticker # None
    PROVE  TurnedInto(x, Commit(x))
<1> DEFINE y == Commit(x)
           z == Asked(x)
<1>1. y = Rendered(x) BY NotSettled DEF Turned
<1>2. DOMAIN x = Fields /\ x.newData = FALSE /\ x.ready = TRUE BY DEF Turned
<1>3. Gone(x) /\ Made(x) /\ ~Clears(x) /\ Loads(x)
  BY <1>2 DEF Turned, Gone, Made, Clears, Loads, Asks
<1>4. /\ z.dataRef = <<>> /\ z.chart = TRUE /\ z.ready = TRUE /\ z.newData = FALSE
      /\ z.series = <<>>
  BY <1>2, <1>3, MadeAsked
<1>5. z.flight = Append(x.flight, FreshRequest(x))
  BY <1>2, <1>3, AskedIs DEF FreshRequest
<1>6. RenderOf(x, y) BY <1>1, <1>2, RenderedFields
<1>7. Quiet(x, y) BY <1>1, <1>2, <1>4, QuietRender
<1>8. y.buffer \in Seq(Ticks) BY <1>1, <1>2, RenderBuffers DEF Turned
<1> HIDE DEF y
<1>9. /\ DOMAIN y = Fields
      /\ y.ticker = x.ticker /\ y.interval = x.interval
      /\ y.hovered = x.hovered /\ y.fetching = x.fetching /\ y.intervalRef = x.interval
      /\ y.shown = Deps(x)
      /\ y.dataRef = z.dataRef /\ y.chart = z.chart /\ y.ready = z.ready
      /\ y.flight = z.flight
  BY <1>6 DEF RenderOf
<1>10. y.series = z.series /\ y.newData = z.newData BY <1>7 DEF Quiet
<1> HIDE DEF z
<1>11. y.shown.ticker = y.ticker /\ y.shown.interval = y.interval /\ y.shown.ready = y.ready
  BY <1>2, <1>4, <1>9, DepsSelection
<1>12. x.ticker \in Tickers \cup {None} /\ x.interval \in Intervals BY DEF Turned
<1>13. Wired(y) BY <1>4, <1>8, <1>9, <1>11, <1>12 DEF Wired
<1>14. Build(y) = <<>> BY <1>4, <1>9, <1>10 DEF Build
<1>15. Clean(x) => Pure(y) BY <1>4, <1>9, <1>10, <1>14 DEF Clean, Pure
<1> QED BY <1>5, <1>9, <1>13, <1>14, <1>15 DEF TurnedInto, y


\* The history is asked for with the chart in place: only the request and the refs change.
LEMMA LoadsAsked ==
    ASSUME NEW x, DOMAIN x = Fields, ~Gone(x), ~Made(x), ~Clears(x), x.chart = TRUE, x.ready = TRUE
    PROVE  /\ Asked(x).dataRef = Build(x)
           /\ Asked(x).chart = TRUE /\ Asked(x).ready = TRUE
           /\ Asked(x).newData = FALSE /\ Asked(x).series = x.series
BY AskedFields DEF Build

\* From no stock: the first render makes the chart, the second asks for the history.
LEMMA TurnedFromNone ==
    ASSUME now \in Nat, NEW x, Turned(x), x.ticker # None, x.shown.ticker = None
    PROVE  TurnedInto(x, Commit(Commit(x)))
<1> DEFINE y == Commit(x)
           z == Asked(x)
           u == Commit(y)
           v == Asked(y)
<1>1. y = Rendered(x) BY NotSettled DEF Turned
<1>2. DOMAIN x = Fields /\ x.newData = FALSE /\ x.ready = FALSE BY DEF Turned
<1>3. ~Gone(x) /\ Made(x) /\ ~Clears(x) /\ ~Loads(x)
  BY <1>2 DEF Turned, Gone, Made, Clears, Loads, Asks
<1>4. /\ z.dataRef = x.dataRef /\ z.chart = TRUE /\ z.ready = TRUE /\ z.newData = FALSE
      /\ z.series = <<>>
  BY <1>2, <1>3, MadeAsked
<1>5. z.flight = x.flight BY <1>2, <1>3, AskedIs
<1>6. RenderOf(x, y) BY <1>1, <1>2, RenderedFields
<1>7. x.dataRef = <<>> => Quiet(x, y) BY <1>1, <1>2, <1>4, QuietRender
<1>8. y.buffer \in Seq(Ticks) BY <1>1, <1>2, RenderBuffers DEF Turned
<1> HIDE DEF y
<1>9. /\ DOMAIN y = Fields
      /\ y.ticker = x.ticker /\ y.interval = x.interval
      /\ y.hovered = x.hovered /\ y.fetching = x.fetching
      /\ y.shown = Deps(x)
      /\ y.dataRef = z.dataRef /\ y.chart = z.chart /\ y.ready = z.ready
      /\ y.flight = z.flight
  BY <1>6 DEF RenderOf
<1>10. x.dataRef = <<>> => y.series = z.series /\ y.newData = z.newData BY <1>7 DEF Quiet
<1> HIDE DEF z
<1>11. y.shown.ticker = y.ticker /\ y.shown.interval = y.interval /\ y.shown.ready = FALSE
  BY <1>2, <1>9, DepsSelection
<1>12. y.ready = TRUE /\ y.chart = TRUE /\ y.flight = x.flight /\ y.ticker # None
  BY <1>4, <1>5, <1>9
<1>13. x.dataRef = <<>> => y.series = <<>> /\ y.newData = FALSE /\ y.dataRef = <<>>
  BY <1>4, <1>9, <1>10
\* The second render.
<1>14. u = Rendered(y) BY <1>11, <1>12, NotSettled
<1>15. ~Switched(y) /\ ~Gone(y) /\ ~Made(y) /\ ~Clears(y) /\ Loads(y)
  BY <1>11, <1>12 DEF Switched, Selection, Gone, Made, Clears, Loads, Asks
<1>16. /\ v.dataRef = Build(y) /\ v.chart = TRUE /\ v.ready = TRUE /\ v.newData = FALSE
       /\ v.series = y.series
  BY <1>9, <1>12, <1>15, LoadsAsked
<1>17. v.flight = Append(x.flight, FreshRequest(x))
  <2>1. v.flight = Append(y.flight, FreshRequest(y)) BY <1>9, <1>15, AskedIs DEF FreshRequest
  <2>2. FreshRequest(y) = FreshRequest(x) BY <1>9 DEF FreshRequest, Selection
  <2> QED BY <1>12, <2>1, <2>2
<1>18. RenderOf(y, u) BY <1>9, <1>14, RenderedFields
<1>19. Build(y) = <<>> => Quiet(y, u) BY <1>9, <1>14, <1>16, QuietRender
<1>20. x.ticker \in Tickers \cup {None} /\ x.interval \in Intervals BY DEF Turned
<1>21. u.buffer \in Seq(Ticks) BY <1>8, <1>9, <1>14, <1>20, RenderBuffers
<1>22. Deps(y).ticker = y.ticker /\ Deps(y).interval = y.interval /\ Deps(y).ready = y.ready
  BY DepsSelection
<1> HIDE DEF u
<1>23. /\ DOMAIN u = Fields
       /\ u.ticker = y.ticker /\ u.interval = y.interval
       /\ u.hovered = y.hovered /\ u.fetching = y.fetching /\ u.intervalRef = y.interval
       /\ u.shown = Deps(y)
       /\ u.dataRef = v.dataRef /\ u.chart = v.chart /\ u.ready = v.ready
       /\ u.flight = v.flight
  BY <1>18 DEF RenderOf
<1>24. Build(y) = <<>> => u.series = v.series /\ u.newData = v.newData BY <1>19 DEF Quiet
<1> HIDE DEF v
<1>25. u.shown.ticker = u.ticker /\ u.shown.interval = u.interval /\ u.shown.ready = u.ready
  BY <1>12, <1>16, <1>22, <1>23
<1>26. Wired(u) BY <1>9, <1>16, <1>20, <1>21, <1>23, <1>25 DEF Wired
<1>27. Clean(x) => Pure(u) /\ Build(u) = <<>>
  <2> SUFFICES ASSUME Clean(x) PROVE Pure(u) /\ Build(u) = <<>> OBVIOUS
  <2>1. x.dataRef = <<>> /\ x.hovered = FALSE BY DEF Clean
  <2>2. Build(y) = <<>> /\ y.series = <<>> BY <1>13, <2>1 DEF Build
  <2>3. u.series = <<>> /\ u.newData = FALSE /\ u.dataRef = <<>> BY <1>16, <1>23, <1>24, <2>2
  <2>4. Build(u) = <<>> BY <2>3 DEF Build
  <2> QED BY <1>9, <1>23, <2>1, <2>3, <2>4 DEF Pure
<1>28. u.ticker = x.ticker /\ u.interval = x.interval /\ u.fetching = x.fetching BY <1>9, <1>23
<1>29. TurnedInto(x, u) BY <1>17, <1>23, <1>26, <1>27, <1>28 DEF TurnedInto
<1> QED BY <1>29 DEF u, y

\* To no stock: the first render removes the chart, both clear the bars.
LEMMA TurnedToNone ==
    ASSUME now \in Nat, NEW x, Turned(x), x.ticker = None
    PROVE  TurnedInto(x, Commit(Commit(x)))
<1> DEFINE y == Commit(x)
           z == Asked(x)
           u == Commit(y)
           v == Asked(y)
<1>1. y = Rendered(x) BY NotSettled DEF Turned
<1>2. DOMAIN x = Fields /\ x.newData = FALSE /\ x.ready = TRUE BY DEF Turned
<1>3. Gone(x) /\ ~Made(x) /\ Clears(x) /\ ~Loads(x)
  BY DEF Turned, Gone, Made, Clears, Loads, Asks
<1>4. /\ z.dataRef = <<>> /\ z.chart = FALSE /\ z.ready = FALSE /\ z.newData = TRUE
      /\ z.series = <<>> /\ z.data = <<>>
  BY <1>2, <1>3, AskedFields
<1>5. z.flight = x.flight BY <1>2, <1>3, AskedIs
<1>6. RenderOf(x, y) BY <1>1, <1>2, RenderedFields
<1>7. Quiet(x, y) BY <1>1, <1>2, <1>4, QuietRender
<1>8. y.buffer \in Seq(Ticks) BY <1>1, <1>2, RenderBuffers DEF Turned
<1> HIDE DEF y
<1>9. /\ DOMAIN y = Fields
      /\ y.ticker = x.ticker /\ y.interval = x.interval
      /\ y.hovered = x.hovered /\ y.fetching = x.fetching
      /\ y.shown = Deps(x)
      /\ y.dataRef = z.dataRef /\ y.chart = z.chart /\ y.ready = z.ready
      /\ y.flight = z.flight
  BY <1>6 DEF RenderOf
<1>10. y.data = z.data /\ y.series = z.series /\ y.newData = z.newData BY <1>7 DEF Quiet
<1> HIDE DEF z
<1>11. y.shown.ticker = y.ticker /\ y.shown.interval = y.interval /\ y.shown.ready = TRUE
  BY <1>2, <1>9, DepsSelection
<1>12. y.ready = FALSE /\ y.chart = FALSE /\ y.flight = x.flight /\ y.ticker = None
       /\ y.data = <<>> /\ y.newData = TRUE
  BY <1>4, <1>5, <1>9, <1>10
\* The second render.
<1>14. u = Rendered(y) BY <1>11, <1>12, NotSettled
<1>15. ~Gone(y) /\ ~Made(y) /\ Clears(y) /\ ~Loads(y)
  BY <1>11, <1>12 DEF Switched, Selection, Gone, Made, Clears, Loads, Asks
<1>16. /\ v.dataRef = <<>> /\ v.chart = FALSE /\ v.ready = FALSE /\ v.newData = TRUE
       /\ v.series = <<>> /\ v.data = <<>>
  BY <1>9, <1>12, <1>15, AskedFields
<1>17. v.flight = x.flight BY <1>9, <1>12, <1>15, AskedIs
<1>18. RenderOf(y, u) BY <1>9, <1>14, RenderedFields
<1>19. Quiet(y, u) BY <1>9, <1>14, <1>16, QuietRender
<1>20. x.ticker \in Tickers \cup {None} /\ x.interval \in Intervals BY DEF Turned
<1>21. u.buffer \in Seq(Ticks) BY <1>8, <1>9, <1>14, <1>20, RenderBuffers
<1>22. Deps(y).ticker = y.ticker /\ Deps(y).interval = y.interval /\ Deps(y).ready = y.ready
  BY DepsSelection
<1> HIDE DEF u
<1>23. /\ DOMAIN u = Fields
       /\ u.ticker = y.ticker /\ u.interval = y.interval
       /\ u.hovered = y.hovered /\ u.fetching = y.fetching /\ u.intervalRef = y.interval
       /\ u.shown = Deps(y)
       /\ u.dataRef = v.dataRef /\ u.chart = v.chart /\ u.ready = v.ready
       /\ u.flight = v.flight
  BY <1>18 DEF RenderOf
<1>24. u.data = v.data /\ u.series = v.series /\ u.newData = v.newData BY <1>19 DEF Quiet
<1> HIDE DEF v
<1>25. u.shown.ticker = u.ticker /\ u.shown.interval = u.interval /\ u.shown.ready = u.ready
  BY <1>12, <1>16, <1>22, <1>23
<1>26. Wired(u) BY <1>9, <1>12, <1>16, <1>20, <1>21, <1>23, <1>25 DEF Wired
<1>27. Clean(x) => Pure(u) /\ Build(u) = <<>>
  <2>1. Build(u) = <<>> BY <1>16, <1>24 DEF Build
  <2> QED BY <1>9, <1>16, <1>23, <1>24, <2>1 DEF Pure, Clean
<1>28. u.ticker = x.ticker /\ u.interval = x.interval /\ u.fetching = x.fetching BY <1>9, <1>23
<1>29. TurnedInto(x, u) BY <1>17, <1>23, <1>26, <1>27, <1>28 DEF TurnedInto
<1> QED BY <1>29 DEF u, y

\* After a switch the panel settles within the four commits.
LEMMA TurnedSettles ==
    ASSUME now \in Nat, NEW x, Turned(x)
    PROVE  TurnedInto(x, Settle(x)) /\ Settled(Settle(x))
<1> DEFINE one == Commit(x)
           two == Commit(one)
           three == Commit(two)
           four == Commit(three)
<1>1. Settle(x) = four BY SettleCommits
<1>2. CASE x.ticker # None /\ x.shown.ticker # None
  <2>1. TurnedInto(x, one) /\ Wired(one) BY <1>2, TurnedWithChart DEF TurnedInto
  <2> HIDE DEF one
  <2>2. Kept(one, two) /\ Wired(two) BY <2>1, CommitKept DEF Kept
  <2>3. Settled(three) BY <2>1, CommitTwice
  <2> HIDE DEF two
  <2>4. Kept(two, three) BY <2>2, CommitKept
  <2>5. TurnedInto(x, two) BY <2>1, <2>2, TurnedKept
  <2> HIDE DEF three
  <2>6. TurnedInto(x, three) BY <2>4, <2>5, TurnedKept
  <2>7. four = three BY <2>3, SettledStays
  <2> HIDE DEF four
  <2> QED BY <1>1, <2>3, <2>6, <2>7
<1>3. CASE x.ticker = None \/ x.shown.ticker = None
  <2>1. TurnedInto(x, two) /\ Wired(two)
    BY <1>3, TurnedFromNone, TurnedToNone DEF TurnedInto
  <2> HIDE DEF two
  <2>2. Kept(two, three) /\ Wired(three) BY <2>1, CommitKept DEF Kept
  <2>3. Settled(four) BY <2>1, CommitTwice
  <2> HIDE DEF three
  <2>4. Kept(three, four) BY <2>2, CommitKept
  <2>5. TurnedInto(x, three) BY <2>1, <2>2, TurnedKept
  <2> HIDE DEF four
  <2>6. TurnedInto(x, four) BY <2>4, <2>5, TurnedKept
  <2> QED BY <1>1, <2>3, <2>6
<1> QED BY <1>2, <1>3


-----------------------------------------------------------------------------
(***************************************************************************)
(* The requests in flight                                                  *)
(***************************************************************************)
RequestFields == {"kind", "sel", "end", "current", "sent", "stale"}

\* A request sent not after n; one that is not stale is of the selection, and captured good
\* bars of it if it asks for a page.
RequestOk(q, sel, n) ==
    /\ DOMAIN q = RequestFields
    /\ q.kind \in {"history", "more"} /\ q.sent \in 0..n /\ q.stale \in BOOLEAN
    /\ ~q.stale => q.sel = sel /\ sel \in Selections
    /\ ~q.stale /\ q.kind = "more" =>
          /\ q.current # <<>> /\ Good(q.current, q.sel)
          /\ q.end \in Int

\* A fresh request for the history is the only fresh request; one request for a further page,
\* exactly while the panel is fetching.
FlightOk(f, sel, n, fetching) ==
    /\ IsSeq(f)
    /\ \A i \in 1..Len(f) : RequestOk(f[i], sel, n)
    /\ \A i, j \in 1..Len(f) :
          ~f[i].stale /\ ~f[j].stale /\ f[i].kind = "history" => i = j
    /\ \A i, j \in 1..Len(f) : f[i].kind = "more" /\ f[j].kind = "more" => i = j
    /\ fetching \in BOOLEAN
    /\ fetching <=> \E i \in 1..Len(f) : f[i].kind = "more"

FreshHistory(f) == \E i \in 1..Len(f) : f[i].kind = "history" /\ ~f[i].stale

LEMMA RemoveAtElements ==
    ASSUME NEW s, IsSeq(s), NEW i \in 1..Len(s)
    PROVE  /\ IsSeq(RemoveAt(s, i))
           /\ Len(s) \in Nat
           /\ Len(RemoveAt(s, i)) = Len(s) - 1
           /\ \A j \in 1..Len(s) - 1 : RemoveAt(s, i)[j] = IF j < i THEN s[j] ELSE s[j + 1]
<1> DEFINE n == Len(s)
           r == RemoveAt(s, i)
           front == SubSeq(s, 1, i - 1)
           back == SubSeq(s, i + 1, n)
<1>1. PICK S : s \in Seq(S) BY DEF IsSeq
<1>2. n \in Nat /\ i \in 1..n BY <1>1
<1>3. front \in Seq(S) /\ Len(front) = i - 1 /\ back \in Seq(S) /\ Len(back) = n - i
  BY <1>1, <1>2
<1>4. \A k \in 1..i-1 : front[k] = s[k] BY <1>1, <1>2
<1>5. \A k \in 1..n-i : back[k] = s[i + k] BY <1>1, <1>2
<1>6. r = front \o back BY DEF RemoveAt
<1> HIDE DEF n, r, front, back
<1>7. r \in Seq(S) /\ Len(r) = n - 1 BY <1>2, <1>3, <1>6, ConcatProperties
<1>8. ASSUME NEW j \in 1..n-1 PROVE r[j] = IF j < i THEN s[j] ELSE s[j + 1]
  <2>1. j \in 1..Len(front) + Len(back) BY <1>2, <1>3
  <2>2. r[j] = IF j <= Len(front) THEN front[j] ELSE back[j - Len(front)]
    BY <1>3, <1>6, <2>1, ConcatProperties
  <2>3. CASE j < i
    <3>1. j \in 1..i-1 /\ j <= Len(front) BY <1>2, <1>3, <2>3
    <3> QED BY <1>4, <2>2, <2>3, <3>1
  <2>4. CASE ~(j < i)
    <3>1. j - (i - 1) \in 1..n-i /\ i + (j - (i - 1)) = j + 1 /\ ~(j <= Len(front))
      BY <1>2, <1>3, <2>4
    <3> QED BY <1>3, <1>5, <2>2, <2>4, <3>1
  <2> QED BY <2>3, <2>4
<1> QED BY <1>2, <1>7, <1>8 DEF IsSeq, n, r

LEMMA AppendElements ==
    ASSUME NEW s, IsSeq(s), NEW e
    PROVE  /\ IsSeq(Append(s, e))
           /\ Len(s) \in Nat /\ Len(Append(s, e)) = Len(s) + 1
           /\ \A j \in 1..Len(s) : Append(s, e)[j] = s[j]
           /\ Append(s, e)[Len(s) + 1] = e
<1>1. PICK S : s \in Seq(S) BY DEF IsSeq
<1>2. s \in Seq(S \cup {e}) /\ e \in S \cup {e}
  <2>1. s \in [1..Len(s) -> S] /\ Len(s) \in Nat BY <1>1, LenProperties
  <2>2. s \in [1..Len(s) -> S \cup {e}] BY <2>1
  <2> QED BY <2>1, <2>2, IsASeq
<1>3. /\ Append(s, e) \in Seq(S \cup {e})
      /\ Len(Append(s, e)) = Len(s) + 1
      /\ \A j \in 1..Len(s) : Append(s, e)[j] = s[j]
      /\ Append(s, e)[Len(s) + 1] = e
  BY <1>2, AppendProperties
<1>4. Len(s) \in Nat BY <1>1
<1> QED BY <1>3, <1>4 DEF IsSeq

LEMMA OutdatedElements ==
    ASSUME NEW f, NEW sel, NEW n, NEW fetching, FlightOk(f, sel, n, fetching)
    PROVE  /\ IsSeq(Outdated(f)) /\ Len(Outdated(f)) = Len(f)
           /\ \A i \in 1..Len(f) : /\ Outdated(f)[i].stale = TRUE
                                   /\ DOMAIN Outdated(f)[i] = RequestFields
                                   /\ Outdated(f)[i].kind = f[i].kind
                                   /\ Outdated(f)[i].sent = f[i].sent
<1> DEFINE g == [i \in 1..Len(f) |-> [f[i] EXCEPT !.stale = TRUE]]
           T == {g[i] : i \in 1..Len(f)}
<1>1. PICK S : f \in Seq(S) BY DEF FlightOk, IsSeq
<1>2. Len(f) \in Nat /\ DOMAIN f = 1..Len(f) BY <1>1
<1>3. Outdated(f) = g BY <1>2 DEF Outdated
<1>4. g \in [1..Len(f) -> T] OBVIOUS
<1>5. g \in Seq(T) /\ Len(g) = Len(f)
  <2> HIDE DEF g, T
  <2> QED BY <1>2, <1>4, IsASeq, LenProperties
<1>6. ASSUME NEW i \in 1..Len(f)
      PROVE  /\ g[i].stale = TRUE /\ DOMAIN g[i] = RequestFields
             /\ g[i].kind = f[i].kind /\ g[i].sent = f[i].sent
  <2>1. DOMAIN f[i] = RequestFields BY DEF FlightOk, RequestOk
  <2>2. g[i] = [f[i] EXCEPT !.stale = TRUE] OBVIOUS
  <2> HIDE DEF g
  <2> QED BY <2>1, <2>2 DEF RequestFields
<1> HIDE DEF g
<1> QED BY <1>3, <1>5, <1>6 DEF IsSeq


LEMMA FlightLater ==
    ASSUME NEW f, NEW sel, NEW n \in Nat, NEW fetching, FlightOk(f, sel, n, fetching)
    PROVE  FlightOk(f, sel, n + 1, fetching)
<1>1. \A i \in 1..Len(f) : RequestOk(f[i], sel, n + 1) BY DEF FlightOk, RequestOk
<1> QED BY <1>1 DEF FlightOk

\* A switch leaves no fresh request.
LEMMA FlightOutdated ==
    ASSUME NEW f, NEW old, NEW sel, NEW n, NEW fetching, FlightOk(f, old, n, fetching)
    PROVE  /\ FlightOk(Outdated(f), sel, n, fetching)
           /\ \A i \in 1..Len(Outdated(f)) : Outdated(f)[i].stale = TRUE
<1> DEFINE g == Outdated(f)
<1>1. /\ IsSeq(g) /\ Len(g) = Len(f)
      /\ \A i \in 1..Len(f) : /\ g[i].stale = TRUE /\ DOMAIN g[i] = RequestFields
                              /\ g[i].kind = f[i].kind /\ g[i].sent = f[i].sent
  BY OutdatedElements
<1> HIDE DEF g
<1>2. \A i \in 1..Len(f) : RequestOk(g[i], sel, n)
  <2> TAKE i \in 1..Len(f)
  <2>1. f[i].kind \in {"history", "more"} /\ f[i].sent \in 0..n BY DEF FlightOk, RequestOk
  <2> QED BY <1>1, <2>1 DEF RequestOk
<1>3. FlightOk(g, sel, n, fetching) BY <1>1, <1>2 DEF FlightOk
<1> QED BY <1>1, <1>3 DEF g

\* The request for the history of the new selection.
LEMMA FlightAsked ==
    ASSUME NEW f, NEW sel \in Selections, NEW n \in Nat, NEW fetching, FlightOk(f, sel, n, fetching),
           \A i \in 1..Len(f) : f[i].stale = TRUE,
           NEW q, DOMAIN q = RequestFields, q.kind = "history", q.sel = sel, q.sent = n,
           q.stale = FALSE
    PROVE  FlightOk(Append(f, q), sel, n, fetching)
<1> DEFINE g == Append(f, q)
           m == Len(f)
<1>1. /\ IsSeq(g) /\ m \in Nat /\ Len(g) = m + 1
      /\ \A j \in 1..m : g[j] = f[j]
      /\ g[m + 1] = q
  BY AppendElements DEF FlightOk
<1>2. /\ \A i \in 1..m : RequestOk(f[i], sel, n)
      /\ \A i, j \in 1..m : f[i].kind = "more" /\ f[j].kind = "more" => i = j
      /\ fetching \in BOOLEAN
      /\ fetching <=> \E i \in 1..m : f[i].kind = "more"
  BY DEF FlightOk
<1>3. RequestOk(q, sel, n)
  <2>1. q.sent \in 0..n /\ q.kind # "more" OBVIOUS
  <2>3. q.stale \in BOOLEAN BY Zenon
  <2>2. q.kind \in {"history", "more"} /\ q.sel = sel /\ sel \in Selections OBVIOUS
  <2> QED BY <2>1, <2>2, <2>3 DEF RequestOk
<1> HIDE DEF g, m
<1>4. \A i \in 1..m + 1 : i = m + 1 \/ i \in 1..m BY <1>1
<1>5. \A i \in 1..m + 1 : RequestOk(g[i], sel, n) BY <1>1, <1>2, <1>3, <1>4
<1>6. \A i, j \in 1..m + 1 : ~g[i].stale /\ ~g[j].stale /\ g[i].kind = "history" => i = j
  BY <1>1, <1>4 DEF m
<1>7. \A i, j \in 1..m + 1 : g[i].kind = "more" /\ g[j].kind = "more" => i = j
  BY <1>1, <1>2, <1>4
<1>8. fetching <=> \E i \in 1..m + 1 : g[i].kind = "more"
  BY <1>1, <1>2, <1>4
<1>9. FlightOk(g, sel, n, fetching) BY <1>1, <1>2, <1>5, <1>6, <1>7, <1>8 DEF FlightOk
<1> QED BY <1>9 DEF g

\* The request for a further page.
LEMMA FlightMore ==
    ASSUME NEW f, NEW sel, NEW n \in Nat, FlightOk(f, sel, n, FALSE),
           NEW q, RequestOk(q, sel, n), q.kind = "more", ~q.stale => ~FreshHistory(f)
    PROVE  /\ FlightOk(Append(f, q), sel, n, TRUE)
           /\ FreshHistory(Append(f, q)) => FreshHistory(f)
<1> DEFINE g == Append(f, q)
           m == Len(f)
<1>1. /\ IsSeq(g) /\ m \in Nat /\ Len(g) = m + 1
      /\ \A j \in 1..m : g[j] = f[j]
      /\ g[m + 1] = q
  BY AppendElements DEF FlightOk
<1>2. /\ \A i \in 1..m : RequestOk(f[i], sel, n)
      /\ \A i, j \in 1..m : ~f[i].stale /\ ~f[j].stale /\ f[i].kind = "history" => i = j
      /\ \A i \in 1..m : f[i].kind # "more"
      /\ ~q.stale => \A i \in 1..m : ~(f[i].kind = "history" /\ ~f[i].stale)
  BY DEF FlightOk, FreshHistory
<1> HIDE DEF g, m
<1>4. \A i \in 1..m + 1 : i = m + 1 \/ i \in 1..m BY <1>1
<1>5. \A i \in 1..m + 1 : RequestOk(g[i], sel, n) BY <1>1, <1>2, <1>4
<1>6. \A i, j \in 1..m + 1 : ~g[i].stale /\ ~g[j].stale /\ g[i].kind = "history" => i = j
  <2> TAKE i, j \in 1..m + 1
  <2> HAVE ~g[i].stale /\ ~g[j].stale /\ g[i].kind = "history"
  <2>1. i \in 1..m /\ g[i] = f[i] BY <1>1, <1>4
  <2>2. CASE j \in 1..m BY <1>1, <1>2, <2>1, <2>2
  <2>3. CASE j = m + 1 BY <1>1, <1>2, <2>1, <2>3
  <2> QED BY <1>4, <2>2, <2>3
<1>7. \A i, j \in 1..m + 1 : g[i].kind = "more" /\ g[j].kind = "more" => i = j
  BY <1>1, <1>2, <1>4
<1>8. \E i \in 1..m + 1 : g[i].kind = "more"
  <2>1. m + 1 \in 1..m + 1 BY <1>1
  <2> QED BY <1>1, <2>1
<1>9. FlightOk(g, sel, n, TRUE) BY <1>1, <1>5, <1>6, <1>7, <1>8 DEF FlightOk
<1>10. FreshHistory(g) => \E i \in 1..m : f[i].kind = "history" /\ ~f[i].stale
  BY <1>1, <1>4 DEF FreshHistory
<1> QED BY <1>9, <1>10 DEF FreshHistory, g, m

\* An answered request leaves the flight; with a page the panel stops fetching.
LEMMA FlightAnswered ==
    ASSUME NEW f, NEW sel, NEW n, NEW fetching, FlightOk(f, sel, n, fetching),
           NEW i \in 1..Len(f)
    PROVE  /\ f[i].kind = "more" => FlightOk(RemoveAt(f, i), sel, n, FALSE)
           /\ f[i].kind # "more" => FlightOk(RemoveAt(f, i), sel, n, fetching)
           /\ FreshHistory(RemoveAt(f, i)) => FreshHistory(f)
           /\ f[i].kind = "history" /\ ~f[i].stale => ~FreshHistory(RemoveAt(f, i))
<1> DEFINE g == RemoveAt(f, i)
           m == Len(f)
           At(j) == IF j < i THEN j ELSE j + 1
<1>1. /\ IsSeq(g) /\ m \in Nat /\ Len(g) = m - 1
      /\ \A j \in 1..m - 1 : g[j] = f[At(j)]
  <2>1. IsSeq(f) BY DEF FlightOk
  <2>2. /\ IsSeq(g) /\ m \in Nat /\ Len(g) = m - 1
        /\ \A j \in 1..m - 1 : g[j] = IF j < i THEN f[j] ELSE f[j + 1]
    BY <2>1, RemoveAtElements
  <2> HIDE DEF g
  <2> QED BY <2>2
<1>2. /\ \A k \in 1..m : RequestOk(f[k], sel, n)
      /\ \A k, j \in 1..m : ~f[k].stale /\ ~f[j].stale /\ f[k].kind = "history" => k = j
      /\ \A k, j \in 1..m : f[k].kind = "more" /\ f[j].kind = "more" => k = j
      /\ fetching \in BOOLEAN
      /\ fetching <=> \E k \in 1..m : f[k].kind = "more"
  BY DEF FlightOk
<1>3. i \in 1..m OBVIOUS
<1> HIDE DEF g, m
<1>4. /\ \A j \in 1..m - 1 : At(j) \in 1..m /\ At(j) # i
      /\ \A j, k \in 1..m - 1 : At(j) = At(k) => j = k
      /\ \A k \in 1..m : k # i => \E j \in 1..m - 1 : At(j) = k
  <2>1. \A j \in 1..m - 1 : At(j) \in 1..m /\ At(j) # i BY <1>1, <1>3
  <2>2. \A j, k \in 1..m - 1 : At(j) = At(k) => j = k BY <1>1, <1>3
  <2>3. ASSUME NEW k \in 1..m, k # i PROVE \E j \in 1..m - 1 : At(j) = k
    <3>1. CASE k < i
      <4>1. k \in 1..m - 1 /\ At(k) = k BY <1>1, <1>3, <3>1
      <4> QED BY <4>1
    <3>2. CASE ~(k < i)
      <4>1. k - 1 \in 1..m - 1 /\ At(k - 1) = k BY <1>1, <1>3, <2>3, <3>2
      <4> QED BY <4>1
    <3> QED BY <3>1, <3>2
  <2> QED BY <2>1, <2>2, <2>3
<1> HIDE DEF At
<1>5. \A j \in 1..m - 1 : RequestOk(g[j], sel, n) BY <1>1, <1>2, <1>4
<1>6. \A k, j \in 1..m - 1 : ~g[k].stale /\ ~g[j].stale /\ g[k].kind = "history" => k = j
  <2> TAKE k, j \in 1..m - 1
  <2> HAVE ~g[k].stale /\ ~g[j].stale /\ g[k].kind = "history"
  <2>1. /\ At(k) \in 1..m /\ At(j) \in 1..m
        /\ ~f[At(k)].stale /\ ~f[At(j)].stale /\ f[At(k)].kind = "history"
    BY <1>1, <1>4
  <2>2. At(k) = At(j) BY <1>2, <2>1
  <2> QED BY <1>4, <2>2
<1>7. \A k, j \in 1..m - 1 : g[k].kind = "more" /\ g[j].kind = "more" => k = j
  BY <1>1, <1>2, <1>4
<1>8. ASSUME f[i].kind = "more" PROVE FlightOk(g, sel, n, FALSE)
  <2>1. \A j \in 1..m - 1 : f[At(j)].kind # "more" BY <1>2, <1>3, <1>4, <1>8
  <2>2. \A j \in 1..m - 1 : g[j].kind # "more" BY <1>1, <2>1
  <2> QED BY <1>1, <1>5, <1>6, <1>7, <2>2 DEF FlightOk
<1>9. ASSUME f[i].kind # "more" PROVE FlightOk(g, sel, n, fetching)
  <2>1. (\E k \in 1..m : f[k].kind = "more") <=> \E j \in 1..m - 1 : f[At(j)].kind = "more"
    BY <1>4, <1>9
  <2>2. fetching <=> \E j \in 1..m - 1 : g[j].kind = "more" BY <1>1, <1>2, <2>1
  <2> QED BY <1>1, <1>2, <1>5, <1>6, <1>7, <2>2 DEF FlightOk
<1>11. FreshHistory(g) => \E k \in 1..m : f[k].kind = "history" /\ ~f[k].stale
  BY <1>1, <1>4 DEF FreshHistory
<1>12. f[i].kind = "history" /\ ~f[i].stale => ~FreshHistory(g)
  BY <1>1, <1>2, <1>3, <1>4 DEF FreshHistory
<1> QED BY <1>8, <1>9, <1>11, <1>12 DEF FreshHistory, g, m


-----------------------------------------------------------------------------
(***************************************************************************)
(* The bars that were answered                                             *)
(***************************************************************************)
\* Bars at different times are as many as their times.
LEMMA OnePerTimeCounts ==
    ASSUME NEW sel, NEW bars, Good(bars, sel), OnePerTime(bars)
    PROVE  IsFiniteSet(Times(bars)) /\ Cardinality(Times(bars)) = Len(bars)
<1> DEFINE n == Len(bars)
           T == Times(bars)
           f == [i \in 1..n |-> bars[i].time]
<1>1. n \in Nat /\ DOMAIN bars = 1..n BY GoodFacts
<1>2. f \in Bijection(1..n, T)
  <2>1. T = {bars[i].time : i \in 1..n} BY <1>1 DEF Times
  <2>2. \A i, j \in 1..n : bars[i].time = bars[j].time => i = j BY <1>1 DEF OnePerTime
  <2> HIDE DEF T, n
  <2>3. f \in [1..n -> T] BY <2>1
  <2>4. \A i, j \in 1..n : f[i] = f[j] => i = j BY <2>2
  <2>5. \A t \in T : \E i \in 1..n : f[i] = t BY <2>1
  <2> HIDE DEF f
  <2> QED BY <2>3, <2>4, <2>5 DEF Bijection, Injection, Surjection, IsInjective
<1>3. ExistsBijection(1..n, T) BY <1>2 DEF ExistsBijection
<1> HIDE DEF n, T, f
<1>4. IsFiniteSet(1..n) /\ Cardinality(1..n) = n
  <2>1. 1 \in Int /\ n \in Int BY <1>1
  <2>2. IsFiniteSet(1..n) /\ Cardinality(1..n) = IF 1 > n THEN 0 ELSE n - 1 + 1
    BY <2>1, FS_Interval
  <2> QED BY <1>1, <2>2
<1>5. IsFiniteSet(T) /\ Cardinality(T) = n BY <1>3, <1>4, FS_Bijection
<1> QED BY <1>5 DEF n, T

\* Ticks add no bar of the server, take none away, and leave bars that share a time.
LEMMA GrownFacts ==
    ASSUME NEW S, NEW old \in Seq(S), NEW bars \in Seq(S), Grown(old, bars)
    PROVE  /\ FetchedTimes(bars) \subseteq FetchedTimes(old)
           /\ Times(old) \subseteq Times(bars)
           /\ OnePerTime(bars) => OnePerTime(old)
<1> DEFINE m == Len(old)
           n == Len(bars)
<1>1. /\ m \in Nat /\ n \in Nat /\ m <= n /\ DOMAIN old = 1..m /\ DOMAIN bars = 1..n
      /\ \A i \in 1..m : i \in 1..n /\ bars[i] = old[i]
      /\ \A i \in 1..n : bars[i].live \/ i \in 1..m
  <2>1. m \in Nat /\ n \in Nat /\ DOMAIN old = 1..m /\ DOMAIN bars = 1..n OBVIOUS
  <2>2. m <= n /\ (\A i \in 1..m : bars[i] = old[i]) /\ \A i \in m + 1 .. n : bars[i].live
    BY DEF Grown
  <2> HIDE DEF m, n
  <2>3. \A i \in 1..n : i \in 1..m \/ i \in m + 1 .. n BY <2>1
  <2> QED BY <2>1, <2>2, <2>3
<1> HIDE DEF m, n
<1>2. FetchedTimes(bars) \subseteq FetchedTimes(old) BY <1>1 DEF FetchedTimes
<1>3. Times(old) \subseteq Times(bars) BY <1>1 DEF Times
<1>4. OnePerTime(bars) => OnePerTime(old) BY <1>1 DEF OnePerTime
<1> QED BY <1>2, <1>3, <1>4

\* A page joined with the bars it was asked with keeps both; a page that is refused although it
\* holds another time was refused for bars that share a time.
LEMMA JoinedFacts ==
    ASSUME NEW sel, NEW more, Good(more, sel), NEW current, Good(current, sel),
           NEW all, all = UniqueSorted(more, current)
    PROVE  /\ Times(all) = Times(more) \cup Times(current)
           /\ FetchedTimes(all) \subseteq Times(more) \cup FetchedTimes(current)
           /\ ~(more # <<>> /\ Len(all) > Len(current)) /\ OnePerTime(current) =>
                 Times(more) \subseteq Times(current)
<1>1. more \in Seq(BarsOf(sel)) /\ current \in Seq(BarsOf(sel)) BY DEF Good
<1>2. /\ Times(all) = Times(more) \cup Times(current)
      /\ \A i \in DOMAIN all : \/ \E j \in DOMAIN more : all[i] = more[j]
                               \/ \E j \in DOMAIN current : all[i] = current[j]
      /\ IsFiniteSet(Times(all)) /\ Len(all) = Cardinality(Times(all))
  BY <1>1, UniqueSortedGood
<1>3. FetchedTimes(all) \subseteq Times(more) \cup FetchedTimes(current)
  BY <1>2 DEF FetchedTimes, Times
<1>4. ASSUME ~(more # <<>> /\ Len(all) > Len(current)), OnePerTime(current)
      PROVE  Times(more) \subseteq Times(current)
  <2>1. CASE more = <<>>
    <3>1. DOMAIN more = {} BY <2>1
    <3> QED BY <3>1 DEF Times
  <2>2. CASE ~(Len(all) > Len(current))
    <3> DEFINE A == Times(all)
               C == Times(current)
    <3>1. IsFiniteSet(C) /\ Cardinality(C) = Len(current) BY <1>4, OnePerTimeCounts
    <3>2. C \in SUBSET A BY <1>2
    <3>3. IsFiniteSet(A) /\ Cardinality(A) = Len(all) BY <1>2
    <3> HIDE DEF A, C
    <3>4. Cardinality(C) <= Cardinality(A) /\ (Cardinality(A) = Cardinality(C) => A = C)
      BY <3>2, <3>3, FS_Subset
    <3>5. Cardinality(A) \in Nat /\ Cardinality(C) \in Nat BY <3>1, <3>3, FS_CardinalityType
    <3>6. A = C BY <2>2, <3>1, <3>3, <3>4, <3>5
    <3> QED BY <1>2, <3>6 DEF A, C
  <2> QED BY <1>4, <2>1, <2>2
<1> QED BY <1>2, <1>3, <1>4

\* What is known of the times F the server has answered: none before the answer with the
\* history; unless a late answer was taken, the bars of the server on the chart are among them
\* and they are all on the chart, but for a last page refused for bars that share a time; and
\* so it was when a page was asked for, whose bars are there still.
Told(x, stained, F) ==
    /\ FreshHistory(x.flight) => F = {}
    /\ ~stained =>
          /\ FetchedTimes(Build(x)) \subseteq F
          /\ ~x.noMore \/ OnePerTime(Build(x)) => F \subseteq Times(Build(x))
          /\ \A i \in 1..Len(x.flight) : ~x.flight[i].stale /\ x.flight[i].kind = "more" =>
                /\ FetchedTimes(x.flight[i].current) \subseteq F
                /\ F \subseteq Times(x.flight[i].current)
                /\ Grown(x.flight[i].current, Build(x))

\* Ticks leave that so.
LEMMA TellGrows ==
    ASSUME NEW x, NEW y, NEW stained, NEW F, NEW n, NEW f,
           FlightOk(x.flight, Selection(x), n, f), Told(x, stained, F),
           y.flight = x.flight, y.noMore = x.noMore, Selection(y) = Selection(x),
           ~stained => Pure(x) /\ Pure(y) /\ Grown(Build(x), Build(y))
    PROVE  Told(y, stained, F)
<1>1. FreshHistory(y.flight) => F = {} BY DEF Told
<1>2. ASSUME ~stained
      PROVE  /\ FetchedTimes(Build(y)) \subseteq F
             /\ ~y.noMore \/ OnePerTime(Build(y)) => F \subseteq Times(Build(y))
             /\ \A i \in 1..Len(y.flight) : ~y.flight[i].stale /\ y.flight[i].kind = "more" =>
                   /\ FetchedTimes(y.flight[i].current) \subseteq F
                   /\ F \subseteq Times(y.flight[i].current)
                   /\ Grown(y.flight[i].current, Build(y))
  <2> DEFINE S == BarsOf(Selection(x))
             old == Build(x)
             bars == Build(y)
  <2>1. old \in Seq(S) /\ bars \in Seq(S) /\ Grown(old, bars) BY <1>2, PureGrows
  <2>2. /\ FetchedTimes(old) \subseteq F
        /\ ~x.noMore \/ OnePerTime(old) => F \subseteq Times(old)
        /\ \A i \in 1..Len(x.flight) : ~x.flight[i].stale /\ x.flight[i].kind = "more" =>
              /\ FetchedTimes(x.flight[i].current) \subseteq F
              /\ F \subseteq Times(x.flight[i].current)
              /\ Grown(x.flight[i].current, old)
    BY <1>2 DEF Told
  <2>3. \A i \in 1..Len(x.flight) : ~x.flight[i].stale /\ x.flight[i].kind = "more" =>
           x.flight[i].current \in Seq(S)
    BY DEF FlightOk, RequestOk, Good
  <2> HIDE DEF S, old, bars
  <2>4. /\ FetchedTimes(bars) \subseteq FetchedTimes(old) /\ Times(old) \subseteq Times(bars)
        /\ OnePerTime(bars) => OnePerTime(old)
    BY <2>1, GrownFacts
  <2>5. \A i \in 1..Len(x.flight) : ~x.flight[i].stale /\ x.flight[i].kind = "more" =>
           Grown(x.flight[i].current, bars)
    BY <2>1, <2>2, <2>3, GrownTrans
  <2>6. /\ FetchedTimes(bars) \subseteq F
        /\ ~y.noMore \/ OnePerTime(bars) => F \subseteq Times(bars)
    BY <2>2, <2>4
  <2> QED BY <2>2, <2>5, <2>6 DEF bars
<1> QED BY <1>1, <1>2 DEF Told

\* And so does a request that is answered with an error.
LEMMA TellRemoved ==
    ASSUME NEW x, NEW y, NEW stained, NEW F, NEW sel, NEW n, NEW f,
           FlightOk(x.flight, sel, n, f), Told(x, stained, F),
           NEW i \in 1..Len(x.flight), y.flight = RemoveAt(x.flight, i),
           y.noMore = x.noMore, Build(y) = Build(x)
    PROVE  Told(y, stained, F)
<1> DEFINE g == RemoveAt(x.flight, i)
           m == Len(x.flight)
<1>1. FreshHistory(y.flight) => F = {} BY FlightAnswered DEF Told
<1>2. IsSeq(x.flight) BY DEF FlightOk
<1>3. /\ m \in Nat /\ Len(g) = m - 1
      /\ \A j \in 1..m - 1 : g[j] = IF j < i THEN x.flight[j] ELSE x.flight[j + 1]
  BY <1>2, RemoveAtElements
<1>4. i \in 1..m OBVIOUS
<1> HIDE DEF g, m
<1>5. \A j \in 1..Len(g) : \E k \in 1..m : g[j] = x.flight[k]
  <2> TAKE j \in 1..Len(g)
  <2>1. j \in 1..m /\ j + 1 \in 1..m BY <1>3
  <2> QED BY <1>3, <2>1
<1>6. y.flight = g BY DEF g
<1> QED BY <1>1, <1>5, <1>6 DEF Told, m

-----------------------------------------------------------------------------
(***************************************************************************)
(* The invariant                                                           *)
(***************************************************************************)
\* What an event leaves to be rendered when the selection stays.
Prepared(x, n, stained, F) ==
    /\ Wired(x)
    /\ n \in Nat /\ stained \in BOOLEAN
    /\ FlightOk(x.flight, Selection(x), n, x.fetching)
    /\ ~stained => Pure(x)
    /\ ~stained /\ FreshHistory(x.flight) => Build(x) = <<>>
    /\ Told(x, stained, F)

\* The inductive invariant: everything is rendered; unless a late answer was taken the bars are
\* those of the selection, there are none before the answer with the history, and the bars
\* answered for the selection are kept.
Panel(x, n, stained, F) == Settled(x) /\ Prepared(x, n, stained, F)

PanelInv == Panel(c, now, tainted, fetched)

LEMMA SettlePanel ==
    ASSUME NEW x, NEW stained, NEW F, Prepared(x, now, stained, F)
    PROVE  Panel(Settle(x), now, stained, F)
<1> DEFINE y == Settle(x)
<1>1. now \in Nat /\ stained \in BOOLEAN /\ Wired(x) BY DEF Prepared
<1>2. Kept(x, y) /\ Settled(y) BY <1>1, SettleKept
<1> HIDE DEF y
<1>3. /\ Wired(y) /\ y.ticker = x.ticker /\ y.interval = x.interval
      /\ y.flight = x.flight /\ y.fetching = x.fetching /\ y.noMore = x.noMore
      /\ Pure(x) => Pure(y) /\ Grown(Build(x), Build(y))
      /\ Pure(x) /\ Build(x) = <<>> => Build(y) = <<>>
  BY <1>2 DEF Kept
<1>4. Selection(y) = Selection(x) BY <1>3 DEF Selection
<1>5. /\ FlightOk(x.flight, Selection(x), now, x.fetching)
      /\ ~stained => Pure(x)
      /\ ~stained /\ FreshHistory(x.flight) => Build(x) = <<>>
      /\ Told(x, stained, F)
  BY DEF Prepared
<1>6. Told(y, stained, F) BY <1>3, <1>4, <1>5, TellGrows
<1>7. Prepared(y, now, stained, F) BY <1>1, <1>3, <1>4, <1>5, <1>6 DEF Prepared
<1> QED BY <1>2, <1>7 DEF Panel, y

LEMMA TurnedPanel ==
    ASSUME now \in Nat, NEW stained \in BOOLEAN, NEW x, Turned(x),
           FlightOk(x.flight, Selection(x), now, x.fetching),
           \A i \in 1..Len(x.flight) : x.flight[i].stale = TRUE,
           ~stained => Clean(x)
    PROVE  Panel(Settle(x), now, stained, {})
<1> DEFINE y == Settle(x)
           q == FreshRequest(x)
           sel == Selection(x)
<1>1. TurnedInto(x, y) /\ Settled(y) BY TurnedSettles
<1> HIDE DEF y
<1>2. /\ Wired(y) /\ y.ticker = x.ticker /\ y.interval = x.interval /\ y.fetching = x.fetching
      /\ y.flight = IF x.ticker = None THEN x.flight ELSE Append(x.flight, q)
      /\ Clean(x) => Pure(y) /\ Build(y) = <<>>
  BY <1>1 DEF TurnedInto
<1>3. Selection(y) = sel BY <1>2 DEF Selection
<1>4. FlightOk(y.flight, sel, now, y.fetching)
  <2>1. CASE x.ticker = None
    BY <1>2, <2>1
  <2>2. CASE x.ticker # None
    <3>1. sel \in Selections BY <2>2 DEF Turned, Selection, Selections
    <3>2. /\ DOMAIN q = RequestFields /\ q.kind = "history" /\ q.sel = sel /\ q.sent = now
          /\ q.stale = FALSE
      BY DEF FreshRequest, Request, RequestFields
    <3> HIDE DEF q, sel
    <3>3. FlightOk(x.flight, sel, now, x.fetching) BY DEF sel
    <3>4. FlightOk(Append(x.flight, q), sel, now, x.fetching)
      BY <3>1, <3>2, <3>3, FlightAsked
    <3> QED BY <1>2, <2>2, <3>4
  <2> QED BY <2>1, <2>2
<1>5. \A i \in 1..Len(y.flight) : ~(~y.flight[i].stale /\ y.flight[i].kind = "more")
  <2>1. CASE x.ticker = None BY <1>2, <2>1
  <2>2. CASE x.ticker # None
    <3> DEFINE m == Len(x.flight)
               g == Append(x.flight, q)
    <3>1. /\ m \in Nat /\ Len(g) = m + 1 /\ g[m + 1] = q
          /\ \A j \in 1..m : g[j] = x.flight[j]
      BY AppendElements DEF FlightOk
    <3>2. q.kind = "history" /\ y.flight = g BY <1>2, <2>2 DEF FreshRequest, Request
    <3>3. \A j \in 1..m : x.flight[j].stale = TRUE OBVIOUS
    <3> HIDE DEF g, m, q
    <3>4. \A j \in 1..m + 1 : j = m + 1 \/ j \in 1..m BY <3>1
    <3> QED BY <3>1, <3>2, <3>3, <3>4
  <2> QED BY <2>1, <2>2
<1>6. Told(y, stained, {})
  <2>1. ~stained => FetchedTimes(Build(y)) = {}
    <3> HAVE ~stained
    <3>1. Build(y) = <<>> BY <1>2
    <3>2. DOMAIN Build(y) = {} BY <3>1
    <3> QED BY <3>2 DEF FetchedTimes
  <2> QED BY <1>5, <2>1 DEF Told
<1>7. Prepared(y, now, stained, {}) BY <1>2, <1>3, <1>4, <1>6 DEF Prepared
<1> QED BY <1>1, <1>7 DEF Panel, y

LEMMA InitPanel == Init => PanelInv
<1> SUFFICES ASSUME Init PROVE Panel(c, now, tainted, fetched) BY DEF PanelInv
<1>1. now \in Nat /\ now = Start /\ tainted = FALSE BY PriceChartAssumption DEF Init
<1>2. c = Component BY DEF Init
<1>3. Settled(c) BY <1>2 DEF Settled, Deps, Component
<1>4. /\ DOMAIN c = Fields
      /\ c.ticker = None /\ c.interval = "1d" /\ c.ready = FALSE /\ c.chart = FALSE
      /\ c.intervalRef = "1d" /\ c.buffer = <<>> /\ c.flight = <<>> /\ c.fetching = FALSE
      /\ c.shown.ticker = None /\ c.shown.interval = "1d" /\ c.shown.ready = FALSE
      /\ c.newData = FALSE /\ c.dataRef = <<>> /\ c.series = <<>> /\ c.hovered = FALSE
  BY <1>2 DEF Component, Fields
<1>5. "1d" \in Intervals BY PriceChartAssumption
<1>6. c.buffer \in Seq(Ticks) BY <1>4
<1>7. Wired(c) BY <1>4, <1>5, <1>6 DEF Wired
<1>8. Len(c.flight) = 0 /\ IsSeq(c.flight)
  <2>1. c.flight \in Seq({}) BY <1>4
  <2> QED BY <1>4, <2>1 DEF IsSeq
<1>9. FlightOk(c.flight, Selection(c), now, c.fetching)
  <2>1. FlightOk(c.flight, Selection(c), now, FALSE) BY <1>8 DEF FlightOk
  <2>2. c.fetching = FALSE BY <1>4
  <2> QED BY Zenon, <2>1, <2>2
<1>10. Build(c) = <<>> BY <1>4 DEF Build
<1>11. Pure(c) BY <1>4, <1>10 DEF Pure
<1>12. Told(c, tainted, fetched)
  <2>1. fetched = {} BY DEF Init
  <2>2. DOMAIN Build(c) = {} BY <1>10
  <2>3. FetchedTimes(Build(c)) = {} BY <2>2 DEF FetchedTimes
  <2> QED BY <1>8, <2>1, <2>3 DEF Told
<1>13. Prepared(c, now, tainted, fetched) BY <1>1, <1>7, <1>9, <1>10, <1>11, <1>12 DEF Prepared
<1> QED BY <1>3, <1>13 DEF Panel


\* What PanelInv says, taken apart.
LEMMA PanelFacts ==
    ASSUME PanelInv
    PROVE  /\ now \in Nat /\ tainted \in BOOLEAN
           /\ Settled(c) /\ Wired(c) /\ DOMAIN c = Fields
           /\ c.newData = FALSE /\ Build(c) = c.dataRef
           /\ FlightOk(c.flight, Selection(c), now, c.fetching)
           /\ ~tainted => Pure(c)
           /\ ~tainted /\ FreshHistory(c.flight) => c.dataRef = <<>>
           /\ Told(c, tainted, fetched)
<1>1. Settled(c) /\ Prepared(c, now, tainted, fetched) BY DEF PanelInv, Panel
<1>2. c.newData = FALSE BY <1>1 DEF Settled
<1>3. Build(c) = c.dataRef BY <1>2 DEF Build
<1>4. /\ Wired(c) /\ now \in Nat /\ tainted \in BOOLEAN
      /\ FlightOk(c.flight, Selection(c), now, c.fetching)
      /\ ~tainted => Pure(c)
      /\ ~tainted /\ FreshHistory(c.flight) => Build(c) = <<>>
      /\ Told(c, tainted, fetched)
  BY <1>1 DEF Prepared
<1>5. DOMAIN c = Fields BY <1>4 DEF Wired
<1> QED BY <1>1, <1>2, <1>3, <1>4, <1>5

LEMMA SelectPanel ==
    ASSUME PanelInv, NEW t \in Tickers \cup {None}, Select(t)
    PROVE  PanelInv'
<1> DEFINE x == [c EXCEPT !.ticker = t, !.price = (t \in priced), !.newPrice = TRUE,
                          !.hovered = FALSE, !.flight = Outdated(@)]
<1>1. /\ now \in Nat /\ Wired(c) /\ DOMAIN c = Fields /\ c.newData = FALSE
      /\ Build(c) = c.dataRef
      /\ FlightOk(c.flight, Selection(c), now, c.fetching)
      /\ ~tainted => Pure(c)
  BY PanelFacts
<1>2. /\ DOMAIN x = Fields
      /\ x.ticker = t /\ x.interval = c.interval /\ x.hovered = FALSE
      /\ x.ready = c.ready /\ x.chart = c.chart /\ x.buffer = c.buffer /\ x.shown = c.shown
      /\ x.newData = FALSE /\ x.dataRef = c.dataRef /\ x.fetching = c.fetching
      /\ x.flight = Outdated(c.flight)
  BY <1>1 DEF Fields
<1>3. /\ t # c.ticker
      /\ c' = Settle(x) /\ now' = now
      /\ tainted' = (tainted /\ c.ticker = None) /\ fetched' = {}
  BY DEF Select
<1> HIDE DEF x
<1>4. /\ c.interval \in Intervals /\ c.buffer \in Seq(Ticks)
      /\ c.ready = (c.ticker # None) /\ c.chart = c.ready
      /\ c.shown.ticker = c.ticker /\ c.shown.interval = c.interval /\ c.shown.ready = c.ready
  BY <1>1 DEF Wired
<1>5. Turned(x) BY <1>2, <1>3, <1>4 DEF Turned, Switched, Selection
<1>6. /\ FlightOk(x.flight, Selection(x), now, x.fetching)
      /\ \A i \in 1..Len(x.flight) : x.flight[i].stale = TRUE
  BY <1>1, <1>2, FlightOutdated
<1>7. ASSUME ~tainted' PROVE Clean(x)
  <2>1. x.hovered = FALSE BY <1>2
  <2>2. ASSUME x.shown.ticker = None PROVE x.dataRef = <<>>
    <3>1. c.ticker = None BY <1>2, <1>4, <2>2
    <3>2. Pure(c) BY <1>1, <1>3, <1>7, <3>1
    <3> QED BY <1>1, <1>2, <3>1, <3>2 DEF Pure
  <2> QED BY <2>1, <2>2 DEF Clean
<1>8. tainted' \in BOOLEAN BY <1>3
<1>9. Panel(Settle(x), now, tainted', {}) BY <1>1, <1>5, <1>6, <1>7, <1>8, TurnedPanel
<1> QED BY <1>3, <1>9 DEF PanelInv

LEMMA SetChartIntervalPanel ==
    ASSUME PanelInv, NEW iv \in Intervals, SetChartInterval(iv)
    PROVE  PanelInv'
<1> DEFINE x == [c EXCEPT !.interval = iv, !.hovered = FALSE, !.flight = Outdated(@)]
<1>1. /\ now \in Nat /\ Wired(c) /\ DOMAIN c = Fields /\ c.newData = FALSE
      /\ FlightOk(c.flight, Selection(c), now, c.fetching)
  BY PanelFacts
<1>2. /\ DOMAIN x = Fields
      /\ x.ticker = c.ticker /\ x.interval = iv /\ x.hovered = FALSE
      /\ x.ready = c.ready /\ x.chart = c.chart /\ x.buffer = c.buffer /\ x.shown = c.shown
      /\ x.newData = FALSE /\ x.fetching = c.fetching
      /\ x.flight = Outdated(c.flight)
  BY <1>1 DEF Fields
<1>3. /\ c.ticker # None /\ iv # c.interval
      /\ c' = Settle(x) /\ now' = now /\ tainted' = FALSE /\ fetched' = {}
  BY DEF SetChartInterval
<1> HIDE DEF x
<1>4. /\ c.ticker \in Tickers \cup {None} /\ c.buffer \in Seq(Ticks)
      /\ c.ready = (c.ticker # None) /\ c.chart = c.ready
      /\ c.shown.ticker = c.ticker /\ c.shown.interval = c.interval /\ c.shown.ready = c.ready
  BY <1>1 DEF Wired
<1>5. Turned(x) BY <1>2, <1>3, <1>4 DEF Turned, Switched, Selection
<1>6. /\ FlightOk(x.flight, Selection(x), now, x.fetching)
      /\ \A i \in 1..Len(x.flight) : x.flight[i].stale = TRUE
  BY <1>1, <1>2, FlightOutdated
<1>7. Clean(x) BY <1>2, <1>3, <1>4 DEF Clean
<1>8. Panel(Settle(x), now, FALSE, {}) BY <1>1, <1>5, <1>6, <1>7, TurnedPanel
<1> QED BY <1>3, <1>8 DEF PanelInv

LEMMA TickPanel ==
    ASSUME PanelInv, NEW t \in Tickers, Tick(t)
    PROVE  PanelInv'
<1> DEFINE x == [c EXCEPT !.price = TRUE, !.newPrice = TRUE]
<1>1. /\ now \in Nat /\ tainted \in BOOLEAN /\ Wired(c) /\ DOMAIN c = Fields
      /\ Build(c) = c.dataRef
      /\ FlightOk(c.flight, Selection(c), now, c.fetching)
      /\ ~tainted => Pure(c)
      /\ ~tainted /\ FreshHistory(c.flight) => c.dataRef = <<>>
      /\ Told(c, tainted, fetched)
  BY PanelFacts
<1>2. now' = now /\ tainted' = tainted /\ fetched' = fetched /\ (c' = c \/ c' = Settle(x))
  BY DEF Tick
<1>3. CASE c' = c BY <1>2, <1>3 DEF PanelInv
<1>4. CASE c' = Settle(x)
  <2>1. /\ DOMAIN x = Fields
        /\ \A f \in Fields \ {"price", "newPrice"} : x[f] = c[f]
    BY <1>1 DEF Fields
  <2> HIDE DEF x
  <2>2. /\ x.ticker = c.ticker /\ x.interval = c.interval /\ x.intervalRef = c.intervalRef
        /\ x.buffer = c.buffer /\ x.ready = c.ready /\ x.chart = c.chart /\ x.shown = c.shown
        /\ x.newData = c.newData /\ x.data = c.data /\ x.dataRef = c.dataRef
        /\ x.series = c.series /\ x.legend = c.legend /\ x.hovered = c.hovered
        /\ x.flight = c.flight /\ x.fetching = c.fetching /\ x.noMore = c.noMore
    BY <2>1 DEF Fields
  <2>3. Wired(x) BY <1>1, <2>1, <2>2 DEF Wired
  <2>4. Selection(x) = Selection(c) /\ Build(x) = Build(c) BY <2>2 DEF Selection, Build
  <2>5. Pure(c) => Pure(x) BY <2>2, <2>4 DEF Pure
  <2>6. Told(x, tainted, fetched) BY <1>1, <2>2, <2>4 DEF Told
  <2>7. Prepared(x, now, tainted, fetched) BY <1>1, <2>2, <2>3, <2>4, <2>5, <2>6 DEF Prepared
  <2>8. Panel(Settle(x), now, tainted, fetched) BY <2>7, SettlePanel
  <2> QED BY <1>2, <1>4, <2>8 DEF PanelInv
<1> QED BY <1>2, <1>3, <1>4

LEMMA PassTimePanel ==
    ASSUME PanelInv, PassTime
    PROVE  PanelInv'
<1>1. now' = now + 1 /\ c' = c /\ tainted' = tainted /\ fetched' = fetched /\ now \in Nat
  BY PanelFacts DEF PassTime
<1>2. FlightOk(c.flight, Selection(c), now + 1, c.fetching) BY <1>1, PanelFacts, FlightLater
<1>3. Panel(c, now + 1, tainted, fetched) BY <1>1, <1>2 DEF PanelInv, Panel, Prepared
<1> QED BY <1>1, <1>3 DEF PanelInv


LEMMA CrosshairMovePanel ==
    ASSUME PanelInv, CrosshairMove
    PROVE  PanelInv'
<1>1. /\ now \in Nat /\ tainted \in BOOLEAN /\ Wired(c) /\ DOMAIN c = Fields /\ Settled(c)
      /\ Build(c) = c.dataRef
      /\ FlightOk(c.flight, Selection(c), now, c.fetching)
      /\ ~tainted => Pure(c)
      /\ ~tainted /\ FreshHistory(c.flight) => c.dataRef = <<>>
      /\ Told(c, tainted, fetched)
  BY PanelFacts
<1>2. PICK l \in {None} \cup {c.series[i].from : i \in DOMAIN c.series} :
        c' = [c EXCEPT !.legend = l, !.hovered = TRUE]
  BY DEF CrosshairMove
<1>3. now' = now /\ tainted' = tainted /\ fetched' = fetched BY DEF CrosshairMove
<1> DEFINE y == [c EXCEPT !.legend = l, !.hovered = TRUE]
<1>4. DOMAIN y = Fields /\ y.legend = l /\ \A f \in Fields \ {"legend", "hovered"} : y[f] = c[f]
  BY <1>1 DEF Fields
<1> HIDE DEF y
<1>5. /\ y.ticker = c.ticker /\ y.interval = c.interval /\ y.intervalRef = c.intervalRef
      /\ y.buffer = c.buffer /\ y.ready = c.ready /\ y.chart = c.chart /\ y.shown = c.shown
      /\ y.newData = c.newData /\ y.data = c.data /\ y.dataRef = c.dataRef
      /\ y.series = c.series /\ y.flight = c.flight /\ y.fetching = c.fetching
      /\ y.newPrice = c.newPrice /\ y.loaded = c.loaded /\ y.noMore = c.noMore
  BY <1>4 DEF Fields
<1>6. Wired(y) BY <1>1, <1>4, <1>5 DEF Wired
<1>7. Selection(y) = Selection(c) /\ Build(y) = Build(c) BY <1>5 DEF Selection, Build
<1>8. Settled(y) BY <1>1, <1>5 DEF Settled, Deps
<1>9. ASSUME ~tainted PROVE Pure(y)
  <2> DEFINE sel == Selection(c)
             bars == Build(c)
             series == c.series
  <2>1. Pure(c) BY <1>1, <1>9
  <2>2. \A i \in DOMAIN series : series[i].from = {sel}
    <3>1. CASE bars = <<>>
      <4>1. series = <<>> BY <2>1, <3>1 DEF Pure
      <4> HIDE DEF series
      <4>2. DOMAIN series = {} BY <4>1
      <4> QED BY <4>2
    <3>2. CASE bars # <<>>
      <4>1. Drawn(series, bars, sel) BY <2>1, <3>2 DEF Pure
      <4> HIDE DEF bars, series, sel
      <4> QED BY <4>1, DrawnFacts
    <3> QED BY <3>1, <3>2
  <2>3. l = None \/ l = {sel} BY <2>2
  <2> QED BY <1>4, <1>5, <1>7, <2>1, <2>3 DEF Pure, sel
<1>10. Told(y, tainted, fetched) BY <1>1, <1>5, <1>7 DEF Told
<1>11. Prepared(y, now, tainted, fetched) BY <1>1, <1>5, <1>6, <1>7, <1>9, <1>10 DEF Prepared
<1>12. c' = y BY <1>2 DEF y
<1> QED BY <1>3, <1>8, <1>11, <1>12 DEF PanelInv, Panel

\* The page asked for ends at an instant.
LEMMA EndDateIsInt ==
    ASSUME NEW sel, NEW bars, Good(bars, sel), bars # <<>>, NEW iv
    PROVE  EndDate(iv, bars) \in Int
<1> DEFINE n == Len(bars)
           T == Times(bars)
<1>1. /\ bars \in Seq(BarsOf(sel)) /\ n \in Nat /\ DOMAIN bars = 1..n
      /\ \A i \in 1..n : bars[i].time \in Nat
  BY GoodFacts
<1>2. n # 0 BY <1>1, EmptySeq
<1>3. T = {bars[i].time : i \in 1..n} BY <1>1 DEF Times
<1>4. T \in SUBSET Nat BY <1>1, <1>3
<1>5. bars[1].time \in T BY <1>1, <1>2, <1>3
<1> HIDE DEF T
<1>6. Min(T) \in T
  <2>1. PICK low \in T : \A y \in T : low <= y BY <1>4, <1>5, LeastElement
  <2>2. Min(T) = CHOOSE k \in T : \A y \in T : k <= y BY DEF Min
  <2> QED BY <2>1, <2>2, Zenon
<1> DEFINE earliest == Min(T)
<1>7. earliest \in Nat BY <1>4, <1>6
<1>8. EndDate(iv, bars) = IF IsDaily(iv) THEN 2 * (earliest \div 2) ELSE earliest - 2
  BY DEF EndDate, T
<1> HIDE DEF earliest
<1> QED BY <1>7, <1>8

LEMMA LoadMorePanel ==
    ASSUME PanelInv, LoadMore
    PROVE  PanelInv'
<1> DEFINE sel == Selection(c)
           q == Request("more", sel, EndDate(c.interval, c.dataRef), c.dataRef)
           g == Append(c.flight, q)
           y == [c EXCEPT !.fetching = TRUE, !.flight = g]
<1>1. /\ now \in Nat /\ tainted \in BOOLEAN /\ Wired(c) /\ DOMAIN c = Fields /\ Settled(c)
      /\ Build(c) = c.dataRef
      /\ FlightOk(c.flight, sel, now, c.fetching)
      /\ ~tainted => Pure(c)
      /\ ~tainted /\ FreshHistory(c.flight) => c.dataRef = <<>>
      /\ Told(c, tainted, fetched)
  BY PanelFacts
<1>2. /\ c' = y /\ now' = now /\ tainted' = tainted /\ fetched' = fetched
      /\ ~c.fetching /\ ~c.noMore /\ c.dataRef # <<>>
  BY DEF LoadMore
<1>3. FlightOk(c.flight, sel, now, FALSE)
  <2>1. c.fetching = FALSE BY <1>1, <1>2 DEF FlightOk
  <2> QED BY Zenon, <1>1, <2>1
<1>4. /\ DOMAIN q = RequestFields /\ q.kind = "more" /\ q.sel = sel /\ q.sent = now
      /\ q.end = EndDate(c.interval, c.dataRef) /\ q.current = c.dataRef
      /\ q.stale = (c.dataRef # <<>> /\ tainted)
  BY DEF Request, RequestFields
<1>5. sel[2] = c.interval BY DEF Selection
<1> HIDE DEF q
<1>6. ASSUME ~q.stale
      PROVE  sel \in Selections /\ Good(c.dataRef, sel) /\ ~FreshHistory(c.flight) /\ q.end \in Int
  <2>1. ~tainted BY <1>2, <1>4, <1>6
  <2>2. Pure(c) /\ c.ticker # None /\ Good(c.dataRef, sel) BY <1>1, <1>2, <2>1 DEF Pure
  <2>3. sel \in Selections BY <1>1, <2>2 DEF Wired, Selection, Selections
  <2>4. q.end \in Int BY <1>2, <1>4, <2>2, EndDateIsInt
  <2> QED BY <1>1, <1>2, <2>1, <2>2, <2>3, <2>4
<1>7. RequestOk(q, sel, now)
  <2>1. q.stale \in BOOLEAN BY Zenon, <1>4
  <2>2. q.sent \in 0..now BY <1>1, <1>4
  <2> HIDE DEF sel
  <2> QED BY <1>2, <1>4, <1>5, <1>6, <2>1, <2>2 DEF RequestOk
<1> HIDE DEF sel
<1>8. FlightOk(g, sel, now, TRUE) /\ (FreshHistory(g) => FreshHistory(c.flight))
  BY <1>1, <1>3, <1>4, <1>6, <1>7, FlightMore
<1>8a. \A j \in 1..Len(g) : g[j].kind = "more" => g[j] = q
  <2> DEFINE m == Len(c.flight)
  <2>1. /\ m \in Nat /\ Len(g) = m + 1 /\ g[m + 1] = q
        /\ \A j \in 1..m : g[j] = c.flight[j]
    BY <1>1, AppendElements DEF FlightOk
  <2>2. \A j \in 1..m : c.flight[j].kind # "more" BY <1>3 DEF FlightOk
  <2> HIDE DEF m, g
  <2>3. \A j \in 1..m + 1 : j = m + 1 \/ j \in 1..m BY <2>1
  <2> QED BY <2>1, <2>2, <2>3
<1> HIDE DEF g
<1>9. /\ DOMAIN y = Fields /\ y.flight = g /\ y.fetching = TRUE
      /\ \A f \in Fields \ {"flight", "fetching"} : y[f] = c[f]
  BY <1>1 DEF Fields
<1> HIDE DEF y
<1>10. /\ y.ticker = c.ticker /\ y.interval = c.interval /\ y.intervalRef = c.intervalRef
       /\ y.buffer = c.buffer /\ y.ready = c.ready /\ y.chart = c.chart /\ y.shown = c.shown
       /\ y.newData = c.newData /\ y.data = c.data /\ y.dataRef = c.dataRef
       /\ y.series = c.series /\ y.legend = c.legend /\ y.hovered = c.hovered
       /\ y.newPrice = c.newPrice /\ y.loaded = c.loaded /\ y.noMore = c.noMore
  BY <1>9 DEF Fields
<1>11. Wired(y) BY <1>1, <1>9, <1>10 DEF Wired
<1>12. Selection(y) = sel /\ Build(y) = Build(c) BY <1>10 DEF Selection, Build, sel
<1>13. Settled(y) BY <1>1, <1>10 DEF Settled, Deps
<1>14. Pure(c) => Pure(y) BY <1>10, <1>12 DEF Pure, sel
<1>15. FlightOk(y.flight, sel, now, y.fetching) BY Zenon, <1>8, <1>9
<1>16. ~tainted /\ FreshHistory(y.flight) => Build(y) = <<>> BY <1>1, <1>8, <1>9, <1>12
<1>17. Told(y, tainted, fetched)
  <2>1. FreshHistory(y.flight) => fetched = {} BY <1>1, <1>8, <1>9 DEF Told
  <2>2. ASSUME ~tainted
        PROVE  /\ FetchedTimes(c.dataRef) \subseteq fetched /\ fetched \subseteq Times(c.dataRef)
               /\ Grown(c.dataRef, c.dataRef)
    <3>1. /\ FetchedTimes(c.dataRef) \subseteq fetched
          /\ ~c.noMore => fetched \subseteq Times(c.dataRef)
      BY <1>1, <2>2 DEF Told
    <3>2. Grown(c.dataRef, c.dataRef) BY <1>1, <2>2, PureGrows
    <3> QED BY <1>2, <3>1, <3>2
  <2> QED BY <1>1, <1>4, <1>8a, <1>9, <1>12, <2>1, <2>2 DEF Told
<1>18. Prepared(y, now, tainted, fetched)
  BY <1>1, <1>11, <1>12, <1>14, <1>15, <1>16, <1>17 DEF Prepared
<1> QED BY <1>2, <1>13, <1>18 DEF PanelInv, Panel

\* The bars of an answer with the history, and the ticks of the selection after them.
LEMMA TakeHistoryFacts ==
    ASSUME NEW x, Wired(x), NEW bars, NEW y, y = TakeHistory(x, bars)
    PROVE  /\ Frame(x, y, {"data", "newData", "series", "buffer", "hovered"})
           /\ y.newData = TRUE /\ y.buffer = <<>> /\ y.hovered = FALSE
           /\ /\ x.ticker # None /\ Good(bars, Selection(x))
              /\ x.dataRef = <<>> \/ \A k \in 1..Len(x.buffer) : x.buffer[k].ticker = x.ticker
              => /\ Good(y.data, Selection(x)) /\ Drawn(y.series, y.data, Selection(x))
                 /\ Grown(bars, y.data)
<1> DEFINE last == IF bars = <<>> THEN 0 ELSE Last(bars).time
           u == [x EXCEPT !.data = bars, !.newData = TRUE]
           v == UpdateChartData(u, bars)
           w == ApplyPending(v, last)
           sel == Selection(x)
<1>1. DOMAIN x = Fields /\ x.buffer \in Seq(Ticks) BY DEF Wired
<1>2. Frame(x, u, {"data", "newData"}) /\ u.data = bars /\ u.newData = TRUE
  BY <1>1 DEF Frame, Fields
<1>3. y = [w EXCEPT !.buffer = <<>>, !.hovered = FALSE] BY DEF TakeHistory
<1> HIDE DEF last, u
<1>4. Frame(u, v, {"series"}) BY <1>2, UpdateChartFrame DEF Frame
<1>5. DOMAIN v = Fields /\ v.buffer = x.buffer /\ v.dataRef = x.dataRef
      /\ v.data = bars /\ v.newData = TRUE
      /\ v.chart = x.chart /\ v.intervalRef = x.intervalRef /\ v.interval = x.interval
  BY <1>2, <1>4 DEF Frame, Fields
<1>6. /\ x.ticker # None /\ Good(bars, sel) =>
            /\ sel \in Selections /\ sel[1] = x.ticker /\ sel[2] = x.interval
            /\ x.chart /\ x.intervalRef = sel[2]
            /\ Drawn(v.series, bars, sel)
  <2> SUFFICES ASSUME x.ticker # None, Good(bars, sel)
      PROVE /\ sel \in Selections /\ sel[1] = x.ticker /\ sel[2] = x.interval
            /\ x.chart /\ x.intervalRef = sel[2]
            /\ Drawn(v.series, bars, sel)
    OBVIOUS
  <2>1. /\ sel \in Selections /\ sel[1] = x.ticker /\ sel[2] = x.interval
        /\ x.chart /\ x.intervalRef = sel[2]
    BY DEF Wired, Selection, Selections
  <2>2. DOMAIN u = Fields /\ u.chart /\ u.intervalRef = sel[2]
    BY <1>2, <2>1 DEF Frame, Fields
  <2> HIDE DEF sel
  <2> QED BY <2>1, <2>2, UpdateChartDraws
<1> HIDE DEF v
<1>7. /\ Frame(v, w, {"data", "series"})
      /\ v.dataRef = <<>> => w = v
  BY <1>1, <1>5, PendingFrame
<1>8. /\ x.ticker # None /\ Good(bars, sel)
      /\ x.dataRef = <<>> \/ \A k \in 1..Len(x.buffer) : x.buffer[k].ticker = x.ticker
      => Good(w.data, sel) /\ Drawn(w.series, w.data, sel) /\ Grown(bars, w.data)
  <2> SUFFICES ASSUME x.ticker # None, Good(bars, sel),
                      x.dataRef = <<>> \/ \A k \in 1..Len(x.buffer) : x.buffer[k].ticker = x.ticker
               PROVE  Good(w.data, sel) /\ Drawn(w.series, w.data, sel) /\ Grown(bars, w.data)
    OBVIOUS
  <2>1. CASE x.dataRef = <<>>
    <3>1. w = v BY <1>5, <1>7, <2>1
    <3>2. Grown(bars, bars) BY GrownSame DEF Good
    <3> HIDE DEF w, sel
    <3> QED BY <1>5, <1>6, <3>1, <3>2
  <2>2. CASE \A k \in 1..Len(x.buffer) : x.buffer[k].ticker = x.ticker
    <3>1. \A k \in 1..Len(v.buffer) : v.buffer[k].ticker = sel[1] BY <1>5, <1>6, <2>2
    <3>2. v.chart /\ v.intervalRef = sel[2] /\ v.interval = sel[2] BY <1>5, <1>6
    <3>3. Good(v.data, sel) /\ Drawn(v.series, v.data, sel) BY <1>5, <1>6
    <3>4. v.buffer \in Seq(Ticks) /\ sel \in Selections BY <1>1, <1>5, <1>6
    <3> HIDE DEF sel
    <3> QED BY <1>5, <3>1, <3>2, <3>3, <3>4, PendingKeepsGood
  <2> QED BY <2>1, <2>2
<1> HIDE DEF w
<1>9. /\ Frame(x, y, {"data", "newData", "series", "buffer", "hovered"})
      /\ y.newData = w.newData /\ y.buffer = <<>> /\ y.hovered = FALSE
      /\ y.data = w.data /\ y.series = w.series
  <2>1. Frame(x, w, {"data", "newData", "series"}) BY <1>2, <1>4, <1>7 DEF Frame
  <2>2. /\ DOMAIN y = Fields /\ y.buffer = <<>> /\ y.hovered = FALSE
        /\ \A f \in Fields \ {"buffer", "hovered"} : y[f] = w[f]
    BY <1>3, <2>1 DEF Frame, Fields
  <2> QED BY <2>1, <2>2 DEF Frame, Fields
<1>10. w.newData = TRUE BY <1>5, <1>7 DEF Frame, Fields
<1> QED BY <1>8, <1>9, <1>10


\* What an answer may change: none of it decides which chart there is.
Content == {"data", "newData", "series", "buffer", "hovered", "noMore", "flight", "fetching",
            "loaded"}

LEMMA SameChart ==
    ASSUME NEW x, Wired(x), NEW y, Frame(x, y, Content), y.buffer \in Seq(Ticks)
    PROVE  /\ Wired(y) /\ y.ticker = x.ticker /\ Selection(y) = Selection(x)
           /\ y.legend = x.legend /\ y.dataRef = x.dataRef
<1>1. /\ DOMAIN y = Fields
      /\ y.ticker = x.ticker /\ y.interval = x.interval /\ y.intervalRef = x.intervalRef
      /\ y.ready = x.ready /\ y.chart = x.chart /\ y.shown = x.shown
      /\ y.legend = x.legend /\ y.dataRef = x.dataRef
  BY DEF Frame, Fields, Content
<1> QED BY <1>1 DEF Wired, Selection

LEMMA HistoryAnswerPanel ==
    ASSUME PanelInv, NEW i \in 1..Len(c.flight), HistoryAnswer(i)
    PROVE  PanelInv'
<1> DEFINE q == c.flight[i]
           g == RemoveAt(c.flight, i)
           x == [c EXCEPT !.flight = g]
           sel == Selection(c)
<1>1. /\ now \in Nat /\ tainted \in BOOLEAN /\ Wired(c) /\ DOMAIN c = Fields
      /\ c.newData = FALSE /\ Build(c) = c.dataRef
      /\ FlightOk(c.flight, sel, now, c.fetching)
      /\ ~tainted => Pure(c)
      /\ ~tainted /\ FreshHistory(c.flight) => c.dataRef = <<>>
      /\ Told(c, tainted, fetched)
  BY PanelFacts
<1>2. q.kind = "history" /\ now' = now BY DEF HistoryAnswer
<1>3. RequestOk(q, sel, now) BY <1>1 DEF FlightOk
<1>4. /\ FlightOk(g, sel, now, c.fetching)
      /\ FreshHistory(g) => FreshHistory(c.flight)
      /\ ~q.stale => ~FreshHistory(g) /\ FreshHistory(c.flight)
  <2>1. FreshHistory(g) => FreshHistory(c.flight) BY <1>1, FlightAnswered
  <2>2. ~q.stale => ~FreshHistory(g) BY <1>1, <1>2, FlightAnswered
  <2>3. FlightOk(g, sel, now, c.fetching) BY <1>1, <1>2, FlightAnswered
  <2>4. ~q.stale => FreshHistory(c.flight) BY <1>2 DEF FreshHistory
  <2> QED BY <2>1, <2>2, <2>3, <2>4
<1>5. DOMAIN x = Fields /\ x.flight = g /\ \A f \in Fields \ {"flight"} : x[f] = c[f]
  BY <1>1 DEF Fields
<1>6. \/ /\ c' = Settle([x EXCEPT !.loaded = TRUE])
         /\ tainted' = tainted /\ fetched' = fetched
      \/ /\ \E at \in q.sent..now : \E bars \in Answers(q.sel, HistoryDays, at, FALSE) :
               /\ c' = Settle([TakeHistory(x, bars) EXCEPT !.loaded = TRUE])
               /\ fetched' = IF q.stale THEN fetched ELSE Times(bars)
         /\ tainted' = (q.stale \/ (tainted /\ Alien(c.buffer)))
  BY DEF HistoryAnswer
<1> HIDE DEF x
<1>7. /\ x.ticker = c.ticker /\ x.interval = c.interval /\ x.legend = c.legend
      /\ x.buffer = c.buffer /\ x.dataRef = c.dataRef /\ x.data = c.data
      /\ x.newData = c.newData /\ x.series = c.series /\ x.fetching = c.fetching
      /\ x.hovered = c.hovered /\ x.noMore = c.noMore
  BY <1>5 DEF Fields
<1>8. c.buffer \in Seq(Ticks) BY <1>1 DEF Wired
<1>9. Wired(x) /\ Selection(x) = sel
  <2>1. Frame(c, x, Content) BY <1>5 DEF Frame, Content
  <2> QED BY <1>1, <1>7, <1>8, <2>1, SameChart
<1> HIDE DEF q, g, sel
<1>10. ASSUME c' = Settle([x EXCEPT !.loaded = TRUE]), tainted' = tainted, fetched' = fetched
       PROVE  PanelInv'
  <2> DEFINE y == [x EXCEPT !.loaded = TRUE]
  <2>1. DOMAIN y = Fields /\ \A f \in Fields \ {"loaded"} : y[f] = x[f]
    BY <1>5 DEF Fields
  <2> HIDE DEF y
  <2>2. /\ y.ticker = c.ticker /\ y.data = c.data /\ y.newData = c.newData /\ y.series = c.series
        /\ y.buffer = c.buffer /\ y.flight = g /\ y.fetching = c.fetching /\ y.dataRef = c.dataRef
        /\ y.legend = c.legend /\ y.hovered = c.hovered /\ y.noMore = c.noMore
    BY <1>5, <1>7, <2>1 DEF Fields
  <2>3. Wired(y) /\ Selection(y) = sel
    <3>1. Frame(x, y, Content) BY <2>1 DEF Frame, Content
    <3> QED BY <1>8, <1>9, <2>2, <3>1, SameChart
  <2>4. Build(y) = Build(c) BY <2>2 DEF Build
  <2>5. Pure(c) => Pure(y) BY <2>2, <2>3, <2>4 DEF Pure, sel
  <2>6. Told(y, tainted, fetched) BY <1>1, <2>2, <2>4, TellRemoved DEF g
  <2>7. Prepared(y, now, tainted, fetched)
    BY <1>1, <1>4, <2>2, <2>3, <2>4, <2>5, <2>6 DEF Prepared
  <2>8. Panel(Settle(y), now, tainted, fetched) BY <2>7, SettlePanel
  <2> QED BY <1>2, <1>10, <2>8 DEF PanelInv, y
<1>11. ASSUME NEW at \in q.sent..now, NEW bars \in Answers(q.sel, HistoryDays, at, FALSE),
              c' = Settle([TakeHistory(x, bars) EXCEPT !.loaded = TRUE]),
              fetched' = (IF q.stale THEN fetched ELSE Times(bars)),
              tainted' = (q.stale \/ (tainted /\ Alien(c.buffer)))
       PROVE  PanelInv'
  <2> DEFINE u == TakeHistory(x, bars)
             y == [u EXCEPT !.loaded = TRUE]
  <2>1. /\ Frame(x, u, {"data", "newData", "series", "buffer", "hovered"})
        /\ u.newData = TRUE /\ u.buffer = <<>> /\ u.hovered = FALSE
    BY <1>9, TakeHistoryFacts
  <2>2. /\ x.ticker # None /\ Good(bars, sel)
        /\ x.dataRef = <<>> \/ \A k \in 1..Len(x.buffer) : x.buffer[k].ticker = x.ticker
        => Good(u.data, sel) /\ Drawn(u.series, u.data, sel) /\ Grown(bars, u.data)
    BY <1>9, TakeHistoryFacts
  <2> HIDE DEF u
  <2>3. DOMAIN y = Fields /\ \A f \in Fields \ {"loaded"} : y[f] = u[f]
    BY <2>1 DEF Frame, Fields
  <2> HIDE DEF y
  <2>4. Frame(x, y, Content) BY <2>1, <2>3 DEF Frame, Fields, Content
  <2>5. /\ y.data = u.data /\ y.series = u.series /\ y.newData = TRUE /\ y.buffer = <<>>
        /\ y.flight = g /\ y.fetching = c.fetching /\ y.hovered = FALSE
    BY <1>5, <1>7, <2>1, <2>3 DEF Frame, Fields
  <2>6. <<>> \in Seq(Ticks) OBVIOUS
  <2>7. Wired(y) /\ Selection(y) = sel /\ y.ticker = c.ticker
    BY <1>7, <1>9, <2>4, <2>5, <2>6, SameChart
  <2>8. Build(y) = u.data BY <2>5 DEF Build
  <2>9. ASSUME ~tainted'
        PROVE  /\ Pure(y) /\ ~FreshHistory(g)
               /\ Good(bars, sel) /\ Good(u.data, sel) /\ Grown(bars, u.data)
    <3>1. ~q.stale /\ (~tainted \/ ~Alien(c.buffer)) BY <1>11, <2>9
    <3>2. q.sel = sel /\ sel \in Selections /\ q.sent \in 0..now BY <1>3, <3>1 DEF RequestOk
    <3>3. c.ticker # None
      BY <3>2, PriceChartAssumption DEF sel, Selection, Selections
    <3>4. Good(bars, sel)
      <4>1. HistoryDays \in Nat BY PriceChartAssumption
      <4>2. at \in Int BY <1>1, <3>2
      <4> QED BY <3>2, <4>1, <4>2, AnswersGood
    <3>5. x.dataRef = <<>> \/ \A k \in 1..Len(x.buffer) : x.buffer[k].ticker = x.ticker
      <4>1. CASE ~tainted BY <1>1, <1>4, <1>7, <3>1, <4>1
      <4>2. CASE ~Alien(c.buffer)
        <5>1. DOMAIN c.buffer = 1..Len(c.buffer) BY <1>8
        <5> QED BY <1>7, <4>2, <5>1 DEF Alien
      <4> QED BY <3>1, <4>1, <4>2
    <3>6. Good(u.data, sel) /\ Drawn(u.series, u.data, sel) /\ Grown(bars, u.data)
      BY <1>7, <2>2, <3>3, <3>4, <3>5
    <3>7. u.data = <<>> => u.series = <<>> BY <3>6, LastDrawn
    <3>8. Pure(y) BY <2>5, <2>7, <2>8, <3>3, <3>6, <3>7 DEF Pure
    <3> QED BY <1>4, <3>1, <3>4, <3>6, <3>8
  <2>10. tainted' \in BOOLEAN BY Zenon, <1>11
  <2>11. FlightOk(y.flight, sel, now, y.fetching) BY <1>4, <2>5
  <2>12. Told(y, tainted', fetched')
    <3>1. FreshHistory(g) => fetched' = {}
      <4>1. CASE q.stale BY <1>1, <1>4, <1>11, <4>1 DEF Told
      <4>2. CASE ~q.stale BY <1>4, <4>2
      <4> QED BY <4>1, <4>2
    <3>2. ASSUME ~tainted'
          PROVE  /\ FetchedTimes(u.data) \subseteq fetched' /\ fetched' \subseteq Times(u.data)
                 /\ \A j \in 1..Len(g) : ~(~g[j].stale /\ g[j].kind = "more")
      <4>1. ~q.stale /\ fetched' = Times(bars) BY <1>11, <3>2
      <4>2. /\ FetchedTimes(u.data) \subseteq FetchedTimes(bars)
            /\ Times(bars) \subseteq Times(u.data)
        BY <2>9, <3>2, GrownFacts DEF Good
      <4>3. FetchedTimes(bars) \subseteq Times(bars) BY DEF FetchedTimes, Times
      <4>4. \A j \in 1..Len(g) : ~(~g[j].stale /\ g[j].kind = "more")
        <5> DEFINE m == Len(c.flight)
        <5>1. /\ i \in 1..m /\ c.flight[i].kind = "history" /\ ~c.flight[i].stale
              /\ m \in Nat /\ Len(g) = m - 1
              /\ \A j \in 1..m - 1 : g[j] = IF j < i THEN c.flight[j] ELSE c.flight[j + 1]
          BY <1>1, <1>2, <4>1, RemoveAtElements DEF FlightOk, g, q
        <5>2. \A j \in 1..m : ~c.flight[j].stale => j = i BY <1>1, <5>1 DEF FlightOk
        <5> HIDE DEF m
        <5> TAKE j \in 1..Len(g)
        <5>3. PICK k \in 1..m : g[j] = c.flight[k]
          <6>1. j \in 1..m /\ j + 1 \in 1..m BY <5>1
          <6> QED BY <5>1, <6>1
        <5> QED BY <5>1, <5>2, <5>3
      <4> QED BY <4>1, <4>2, <4>3, <4>4
    <3> QED BY <2>5, <2>8, <3>1, <3>2 DEF Told
  <2> DEFINE stained == tainted'
             F == fetched'
  <2> HIDE DEF stained, F
  <2>13. Prepared(y, now, stained, F)
    BY <1>1, <2>5, <2>7, <2>9, <2>10, <2>11, <2>12 DEF Prepared, stained, F
  <2>14. Panel(Settle(y), now, stained, F) BY <2>13, SettlePanel
  <2> QED BY <1>2, <1>11, <2>14 DEF PanelInv, y, u, stained, F
<1> QED BY <1>6, <1>10, <1>11


\* The bars with a further page before them, or the mark that there is none.
MoreTaken(x, q, more, y) ==
    \/ /\ y = [x EXCEPT !.noMore = TRUE]
       /\ ~(more # <<>> /\ Len(UniqueSorted(more, q.current)) > Len(q.current))
    \/ /\ Frame(x, y, {"data", "newData", "series"})
       /\ y.newData = TRUE /\ y.data = UniqueSorted(more, q.current)
       /\ x.ticker # None /\ Good(y.data, Selection(x)) => Drawn(y.series, y.data, Selection(x))

LEMMA TakeMoreFacts ==
    ASSUME NEW x, Wired(x), NEW q, NEW more
    PROVE  MoreTaken(x, q, more, TakeMore(x, q, more))
<1> DEFINE y == TakeMore(x, q, more)
           all == UniqueSorted(more, q.current)
           u == [x EXCEPT !.data = all, !.newData = TRUE]
           v == UpdateChartData(u, all)
           sel == Selection(x)
<1>1. DOMAIN x = Fields BY DEF Wired
<1>2. \/ /\ y = [x EXCEPT !.noMore = TRUE]
         /\ ~(more # <<>> /\ Len(all) > Len(q.current))
      \/ y = v
  BY DEF TakeMore
<1> HIDE DEF all, y
<1>3. Frame(x, u, {"data", "newData"}) /\ u.data = all /\ u.newData = TRUE
  BY <1>1 DEF Frame, Fields
<1> HIDE DEF u
<1>4. Frame(u, v, {"series"}) BY <1>3, UpdateChartFrame DEF Frame
<1>5. x.ticker # None /\ Good(all, sel) => Drawn(v.series, all, sel)
  <2> SUFFICES ASSUME x.ticker # None, Good(all, sel) PROVE Drawn(v.series, all, sel)
    OBVIOUS
  <2>1. sel \in Selections /\ sel[2] = x.interval /\ x.chart /\ x.intervalRef = sel[2]
    BY DEF Wired, Selection, Selections
  <2>2. DOMAIN u = Fields /\ u.chart /\ u.intervalRef = sel[2]
    BY <1>3, <2>1 DEF Frame, Fields
  <2> HIDE DEF sel
  <2> QED BY <2>1, <2>2, UpdateChartDraws
<1> HIDE DEF v
<1>6. Frame(x, v, {"data", "newData", "series"}) /\ v.data = all /\ v.newData = TRUE
  BY <1>3, <1>4 DEF Frame, Fields
<1>7. MoreTaken(x, q, more, y) BY <1>2, <1>5, <1>6 DEF all, MoreTaken
<1> QED BY <1>7 DEF y

LEMMA MoreAnswerPanel ==
    ASSUME PanelInv, NEW i \in 1..Len(c.flight), MoreAnswer(i)
    PROVE  PanelInv'
<1> DEFINE q == c.flight[i]
           g == RemoveAt(c.flight, i)
           x == [c EXCEPT !.flight = g, !.fetching = FALSE]
           sel == Selection(c)
<1>1. /\ now \in Nat /\ tainted \in BOOLEAN /\ Wired(c) /\ DOMAIN c = Fields
      /\ c.newData = FALSE /\ Build(c) = c.dataRef
      /\ FlightOk(c.flight, sel, now, c.fetching)
      /\ ~tainted => Pure(c)
      /\ ~tainted /\ FreshHistory(c.flight) => c.dataRef = <<>>
      /\ Told(c, tainted, fetched)
  BY PanelFacts
<1>2. q.kind = "more" /\ now' = now BY DEF MoreAnswer
<1>3. RequestOk(q, sel, now) BY <1>1 DEF FlightOk
<1>4. FlightOk(g, sel, now, FALSE) /\ (FreshHistory(g) => FreshHistory(c.flight))
  BY <1>1, <1>2, FlightAnswered
<1>5. ~q.stale => ~FreshHistory(c.flight)
  BY <1>1, <1>2 DEF FlightOk, FreshHistory
<1>6. /\ DOMAIN x = Fields /\ x.flight = g /\ x.fetching = FALSE
      /\ \A f \in Fields \ {"flight", "fetching"} : x[f] = c[f]
  BY <1>1 DEF Fields
<1>7. \/ c' = Settle(x) /\ tainted' = tainted /\ fetched' = fetched
      \/ /\ \E bars \in Answers(q.sel, MoreDays, q.end, TRUE) :
               /\ c' = Settle(TakeMore(x, q, bars))
               /\ fetched' = IF q.stale THEN fetched ELSE fetched \cup Times(bars)
         /\ tainted' = (tainted \/ q.stale)
  BY DEF MoreAnswer
<1> HIDE DEF x
<1>8. /\ x.ticker = c.ticker /\ x.interval = c.interval
      /\ x.legend = c.legend /\ x.hovered = c.hovered
      /\ x.buffer = c.buffer /\ x.dataRef = c.dataRef /\ x.data = c.data
      /\ x.newData = c.newData /\ x.series = c.series /\ x.noMore = c.noMore
  BY <1>6 DEF Fields
<1>9. c.buffer \in Seq(Ticks) BY <1>1 DEF Wired
<1>10. Wired(x) /\ Selection(x) = sel
  <2>1. Frame(c, x, Content) BY <1>6 DEF Frame, Content
  <2> QED BY <1>1, <1>8, <1>9, <2>1, SameChart
<1>10a. \A j \in 1..Len(g) : g[j].kind # "more"
  <2>1. FlightOk(g, sel, now, FALSE) BY <1>4
  <2> HIDE DEF g
  <2> QED BY <2>1 DEF FlightOk
<1> HIDE DEF g
<1>11. ASSUME NEW y, DOMAIN y = Fields, \A f \in Fields \ {"noMore"} : y[f] = x[f],
              NEW stained \in BOOLEAN, ~stained => ~tainted,
              NEW F, FreshHistory(g) => F = {},
              ~stained => /\ FetchedTimes(c.dataRef) \subseteq F
                          /\ ~y.noMore \/ OnePerTime(c.dataRef) => F \subseteq Times(c.dataRef)
       PROVE  Panel(Settle(y), now, stained, F)
  <2>1. /\ y.ticker = c.ticker /\ y.data = c.data /\ y.newData = c.newData /\ y.series = c.series
        /\ y.buffer = c.buffer /\ y.flight = g /\ y.fetching = FALSE /\ y.dataRef = c.dataRef
        /\ y.legend = c.legend /\ y.hovered = c.hovered
    BY <1>6, <1>8, <1>11 DEF Fields
  <2>2. Wired(y) /\ Selection(y) = sel
    <3>1. Frame(x, y, Content) BY <1>11 DEF Frame, Content
    <3> QED BY <1>9, <1>10, <2>1, <3>1, SameChart
  <2>3. Build(y) = Build(c) BY <2>1 DEF Build
  <2>4. Pure(c) => Pure(y) BY <2>1, <2>2, <2>3 DEF Pure, sel
  <2>5. FlightOk(y.flight, sel, now, y.fetching) BY Zenon, <1>4, <2>1
  <2> HIDE DEF sel
  <2>6. Told(y, stained, F) BY <1>1, <1>10a, <1>11, <2>1, <2>3 DEF Told
  <2>7. Prepared(y, now, stained, F)
    BY <1>1, <1>4, <1>11, <2>1, <2>2, <2>3, <2>4, <2>5, <2>6 DEF Prepared
  <2> QED BY <2>7, SettlePanel
<1>11a. /\ FreshHistory(g) => fetched = {}
        /\ ~tainted => /\ FetchedTimes(c.dataRef) \subseteq fetched
                       /\ ~c.noMore \/ OnePerTime(c.dataRef) => fetched \subseteq Times(c.dataRef)
  BY <1>1, <1>4 DEF Told
<1>12. CASE c' = Settle(x) /\ tainted' = tainted /\ fetched' = fetched
  <2>1. Panel(Settle(x), now, tainted, fetched) BY <1>1, <1>6, <1>8, <1>11, <1>11a
  <2> QED BY <1>2, <1>12, <2>1 DEF PanelInv
<1>13. ASSUME NEW more \in Answers(q.sel, MoreDays, q.end, TRUE),
              c' = Settle(TakeMore(x, q, more)), tainted' = (tainted \/ q.stale),
              fetched' = IF q.stale THEN fetched ELSE fetched \cup Times(more)
       PROVE  PanelInv'
  <2> DEFINE stained == tainted \/ q.stale
             F == IF q.stale THEN fetched ELSE fetched \cup Times(more)
             u == TakeMore(x, q, more)
             all == UniqueSorted(more, q.current)
  <2>1. stained \in BOOLEAN OBVIOUS
  <2>2. ~stained => ~tainted /\ ~q.stale OBVIOUS
  <2>3. tainted' = stained /\ fetched' = F BY <1>13
  <2>3a. FreshHistory(g) => F = {} BY <1>4, <1>5, <1>11a
  <2>3b. ASSUME ~stained
         PROVE  /\ q.sel = sel /\ sel \in Selections /\ q.current # <<>> /\ Good(q.current, sel)
                /\ Good(more, sel) /\ F = fetched \cup Times(more)
                /\ FetchedTimes(q.current) \subseteq fetched /\ fetched \subseteq Times(q.current)
                /\ Grown(q.current, c.dataRef)
    <3>1. ~tainted /\ ~q.stale BY <2>2, <2>3b
    <3>2. /\ q.sel = sel /\ sel \in Selections /\ q.current # <<>> /\ Good(q.current, sel)
          /\ q.end \in Int
      BY <1>2, <1>3, <3>1 DEF RequestOk
    <3>3. MoreDays \in Nat BY PriceChartAssumption
    <3>4. Good(more, sel) BY <3>2, <3>3, AnswersGood
    <3>5. /\ FetchedTimes(q.current) \subseteq fetched /\ fetched \subseteq Times(q.current)
          /\ Grown(q.current, c.dataRef)
      BY <1>1, <1>2, <3>1 DEF Told
    <3> QED BY <3>1, <3>2, <3>4, <3>5
  <2>3c. ASSUME ~stained
         PROVE  /\ Times(all) = Times(more) \cup Times(q.current)
                /\ FetchedTimes(all) \subseteq Times(more) \cup FetchedTimes(q.current)
                /\ ~(more # <<>> /\ Len(all) > Len(q.current)) /\ OnePerTime(q.current) =>
                      Times(more) \subseteq Times(q.current)
    <3> HIDE DEF q, sel
    <3> QED BY <2>3b, <2>3c, JoinedFacts
  <2> HIDE DEF stained, F
  <2>4. Panel(Settle(u), now, stained, F)
    <3>1. CASE /\ u = [x EXCEPT !.noMore = TRUE]
               /\ ~(more # <<>> /\ Len(all) > Len(q.current))
      <4>1. /\ DOMAIN u = Fields /\ \A f \in Fields \ {"noMore"} : u[f] = x[f]
            /\ u.noMore = TRUE
        <5> HIDE DEF u
        <5> QED BY <1>6, <3>1 DEF Fields
      <4> HIDE DEF u
      <4>2. ASSUME ~stained
            PROVE  /\ FetchedTimes(c.dataRef) \subseteq F
                   /\ OnePerTime(c.dataRef) => F \subseteq Times(c.dataRef)
        <5>1. FetchedTimes(c.dataRef) \subseteq F BY <1>11a, <2>2, <2>3b, <4>2
        <5>2. c.dataRef \in Seq(BarsOf(sel)) /\ q.current \in Seq(BarsOf(sel))
          BY <1>1, <2>2, <2>3b, <4>2, PureGrows DEF Good
        <5>3. /\ Times(q.current) \subseteq Times(c.dataRef)
              /\ OnePerTime(c.dataRef) => OnePerTime(q.current)
          BY <2>3b, <4>2, <5>2, GrownFacts
        <5>4. OnePerTime(q.current) => Times(more) \subseteq Times(q.current)
          BY <2>3c, <3>1, <4>2
        <5> QED BY <2>3b, <4>2, <5>1, <5>3, <5>4
      <4> QED BY <1>11, <2>1, <2>2, <2>3a, <4>1, <4>2
    <3>2. CASE /\ Frame(x, u, {"data", "newData", "series"})
               /\ u.newData = TRUE /\ u.data = UniqueSorted(more, q.current)
               /\ x.ticker # None /\ Good(u.data, sel) => Drawn(u.series, u.data, sel)
      <4> HIDE DEF u
      <4>1. /\ u.fetching = FALSE /\ u.flight = g /\ u.buffer = c.buffer
        BY <1>6, <1>8, <3>2 DEF Frame, Fields
      <4>2. Wired(u) /\ Selection(u) = sel /\ u.ticker = c.ticker
            /\ u.legend = c.legend /\ u.hovered = c.hovered
        <5>1. Frame(x, u, Content) BY <3>2 DEF Frame, Content
        <5>2. u.hovered = c.hovered BY <1>8, <3>2 DEF Frame, Fields
        <5> QED BY <1>8, <1>9, <1>10, <4>1, <5>1, <5>2, SameChart
      <4>3. Build(u) = u.data BY <3>2 DEF Build
      <4>4. ASSUME ~stained PROVE Pure(u) /\ ~FreshHistory(g)
        <5>1. ~tainted /\ ~q.stale BY <2>2, <4>4
        <5>2. /\ sel \in Selections /\ Good(q.current, sel) /\ Good(more, sel) BY <2>3b, <4>4
        <5>3. x.ticker # None
          BY <1>8, <5>2, PriceChartAssumption DEF sel, Selection, Selections
        <5>4. Good(u.data, sel)
          <6>3. more \in Seq(BarsOf(sel)) /\ q.current \in Seq(BarsOf(sel)) BY <5>2 DEF Good
          <6>4. u.data = UniqueSorted(more, q.current) BY <3>2
          <6> HIDE DEF sel, q
          <6> QED BY <6>3, <6>4, UniqueSortedGood
        <5>5. Drawn(u.series, u.data, sel) BY <3>2, <5>3, <5>4
        <5>6. c.hovered => c.legend = None \/ c.legend = {sel} BY <1>1, <5>1 DEF Pure
        <5>7. u.data = <<>> => u.series = <<>> BY <5>4, <5>5, LastDrawn
        <5>8. u.ticker # None BY <1>8, <4>2, <5>3
        <5>9. Pure(u) BY <4>2, <4>3, <5>4, <5>5, <5>6, <5>7, <5>8 DEF Pure
        <5> QED BY <1>4, <1>5, <5>1, <5>9
      <4>5. FlightOk(u.flight, sel, now, u.fetching) BY Zenon, <1>4, <4>1
      <4> HIDE DEF sel
      <4>6. Told(u, stained, F)
        <5>1. ASSUME ~stained
              PROVE  FetchedTimes(u.data) \subseteq F /\ F \subseteq Times(u.data)
          BY <2>3b, <2>3c, <3>2, <5>1
        <5> QED BY <1>10a, <2>3a, <4>1, <4>3, <5>1 DEF Told
      <4>7. Prepared(u, now, stained, F) BY <1>1, <2>1, <4>1, <4>2, <4>4, <4>5, <4>6 DEF Prepared
      <4> QED BY <4>7, SettlePanel
    <3>3. MoreTaken(x, q, more, u) BY <1>10, TakeMoreFacts
    <3> HIDE DEF u, q
    <3> QED BY <1>10, <3>1, <3>2, <3>3 DEF MoreTaken
  <2> QED BY <1>2, <1>13, <2>3, <2>4 DEF PanelInv
<1> QED BY <1>7, <1>12, <1>13


LEMMA NextPanel == PanelInv /\ [Next]_vars => PanelInv'
<1> SUFFICES ASSUME PanelInv, [Next]_vars PROVE PanelInv'
  OBVIOUS
<1>1. \A i \in 1..MaxFlight : i <= Len(c.flight) => i \in 1..Len(c.flight)
  <2>1. MaxFlight \in Nat BY PriceChartAssumption
  <2>2. IsSeq(c.flight) BY PanelFacts DEF FlightOk
  <2>3. Len(c.flight) \in Nat BY <2>2 DEF IsSeq
  <2> QED BY <2>1, <2>3
<1>2. ASSUME NEW t \in Tickers \cup {None}, Select(t) PROVE PanelInv' BY <1>2, SelectPanel
<1>3. ASSUME NEW iv \in Intervals, SetChartInterval(iv) PROVE PanelInv'
  BY <1>3, SetChartIntervalPanel
<1>4. ASSUME NEW t \in Tickers, Tick(t) PROVE PanelInv' BY <1>4, TickPanel
<1>5. CASE PassTime BY <1>5, PassTimePanel
<1>6. CASE CrosshairMove BY <1>6, CrosshairMovePanel
<1>7. CASE LoadMore BY <1>7, LoadMorePanel
<1>8. ASSUME NEW i \in 1..Len(c.flight), HistoryAnswer(i) PROVE PanelInv'
  BY <1>8, HistoryAnswerPanel
<1>9. ASSUME NEW i \in 1..Len(c.flight), MoreAnswer(i) PROVE PanelInv'
  BY <1>9, MoreAnswerPanel
<1>10. CASE UNCHANGED vars
  <2>1. c' = c /\ now' = now /\ tainted' = tainted /\ fetched' = fetched BY <1>10 DEF vars
  <2> QED BY <2>1 DEF PanelInv
<1> QED BY <1>1, <1>2, <1>3, <1>4, <1>5, <1>6, <1>7, <1>8, <1>9, <1>10 DEF Next

-----------------------------------------------------------------------------
(***************************************************************************)
(* The theorems                                                            *)
(***************************************************************************)
\* The invariant holds in every state: every event is rendered to the end within four renders,
\* the wiring of price-chart.tsx's refs, flags and requests is that of the selection, and unless
\* a late answer was taken so are the bars of the refs.
THEOREM PanelHolds == Spec => []PanelInv
<1>1. Init => PanelInv BY InitPanel
<1>2. PanelInv /\ [Next]_vars => PanelInv' BY NextPanel
<1> QED BY <1>1, <1>2, PTL DEF Spec

\* isFetchingRef is set exactly while one loadMore request is in flight, over every switch,
\* error and late answer.
THEOREM FetchingHolds == Spec => []FetchingIffRequested
<1>1. PanelInv => FetchingIffRequested
  <2> SUFFICES ASSUME PanelInv PROVE FetchingIffRequested OBVIOUS
  <2> DEFINE more == {i \in DOMAIN c.flight : c.flight[i].kind = "more"}
  <2>1. FlightOk(c.flight, Selection(c), now, c.fetching) BY PanelFacts
  <2>2. DOMAIN c.flight = 1..Len(c.flight) BY <2>1 DEF FlightOk, IsSeq
  <2>3. CASE c.fetching
    <3>1. PICK i \in 1..Len(c.flight) : c.flight[i].kind = "more" BY <2>1, <2>3 DEF FlightOk
    <3>2. more = {i} BY <2>1, <2>2, <3>1 DEF FlightOk
    <3> HIDE DEF more
    <3>3. Cardinality(more) = 1 BY <3>2, FS_Singleton
    <3> QED BY <2>3, <3>3 DEF FetchingIffRequested, more
  <2>4. CASE ~c.fetching
    <3>1. more = {} BY <2>1, <2>2, <2>4 DEF FlightOk
    <3> HIDE DEF more
    <3>2. Cardinality(more) = 0 BY <3>1, FS_EmptySet
    <3> QED BY <2>4, <3>2 DEF FetchingIffRequested, more
  <2> QED BY <2>3, <2>4
<1> QED BY <1>1, PanelHolds, PTL

\* Unless a late answer of an earlier selection was taken, the bars applyTick and loadMore build
\* on, every drawn bar and the bar hovered since they came are those of the selection; where there
\* are bars, the series draws exactly them in order, and so does the legend.
THEOREM ShownHolds == Spec => []ShownIsSelected
<1>1. PanelInv => ShownIsSelected
  <2> SUFFICES ASSUME PanelInv PROVE ShownIsSelected OBVIOUS
  <2>1. Settled(c) /\ Wired(c) /\ Build(c) = c.dataRef /\ (~tainted => Pure(c)) BY PanelFacts
  <2> DEFINE sel == Selection(c)
             bars == c.dataRef
             series == c.series
             Hovered == c.hovered /\ c.legend # None => c.legend = {sel}
  <2>2. CASE tainted BY <2>1, <2>2 DEF ShownIsSelected, RendersSettle
  <2>3. CASE ~tainted /\ bars = <<>>
    <3>1. series = <<>> /\ Hovered BY <2>1, <2>3 DEF Pure
    <3>2. SourcesOf(bars) = {} /\ SourcesOf(series) = {}
      <4>1. DOMAIN bars = {} /\ DOMAIN series = {} BY <2>3, <3>1
      <4> QED BY <4>1 DEF SourcesOf
    <3> QED BY <2>1, <2>3, <3>1, <3>2 DEF ShownIsSelected, RendersSettle
  <2>4. CASE ~tainted /\ bars # <<>>
    <3>1. /\ c.data = bars /\ c.ticker # None
          /\ Good(bars, sel) /\ Drawn(series, bars, sel) /\ Hovered
      BY <2>1, <2>4 DEF Pure
    <3>2. sel[2] = c.interval BY DEF Selection
    <3>3. bars # <<>> BY <2>4
    <3> HIDE DEF sel, bars, series
    <3>4. /\ Len(bars) \in Nat /\ DOMAIN bars = 1..Len(bars)
          /\ \A i \in 1..Len(bars) : bars[i].from = {sel}
      BY <3>1, GoodFacts
    <3>5. /\ Len(series) \in Nat /\ DOMAIN series = 1..Len(series)
          /\ \A i \in 1..Len(series) : series[i].from = {sel}
          /\ \A i, j \in 1..Len(series) : i < j => series[i].key < series[j].key
          /\ DotKeys(series) = ChartKeys(bars, sel)
      BY <3>1, DrawnFacts
    <3>6. SourcesOf(bars) \subseteq {sel} /\ SourcesOf(series) \subseteq {sel}
      BY <3>4, <3>5 DEF SourcesOf
    <3>7. {series[i].key : i \in DOMAIN series} = Keys(bars)
      BY <3>2, <3>5 DEF DotKeys, ChartKeys, Keys
    <3>8. \A i \in 2..Len(series) : series[i-1].key < series[i].key
      <4> TAKE i \in 2..Len(series)
      <4>1. i - 1 \in 1..Len(series) /\ i \in 1..Len(series) /\ i - 1 < i BY <3>5
      <4> QED BY <3>5, <4>1
    <3>9. c.legend = None => Legend = {sel}
      <4> HAVE c.legend = None
      <4>1. Len(bars) \in 1..Len(bars) BY <3>1, <3>3, LastDrawn
      <4>2. Last(bars).from = {sel} BY <3>4, <4>1 DEF Last
      <4> QED BY <3>1, <3>3, <4>2 DEF Legend
    <3> QED BY <2>1, <2>4, <3>1, <3>3, <3>6, <3>7, <3>8, <3>9
         DEF ShownIsSelected, RendersSettle, sel, bars, series
  <2> QED BY <2>2, <2>3, <2>4
<1> QED BY <1>1, PanelHolds, PTL

\* Pages only add: unless a late answer was taken, the bars of the server on the chart were
\* answered for the selection, and every bar answered for it is there, but for a last page
\* refused because the bars on the chart shared times.
THEOREM FetchedKeptHolds == Spec => []FetchedIsKept
<1>1. PanelInv => FetchedIsKept
  <2> SUFFICES ASSUME PanelInv PROVE FetchedIsKept OBVIOUS
  <2>1. Told(c, tainted, fetched) /\ Build(c) = c.dataRef BY PanelFacts
  <2> QED BY <2>1 DEF Told, FetchedIsKept
<1> QED BY <1>1, PanelHolds, PTL

=============================================================================
