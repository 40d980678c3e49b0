----------------------------- MODULE PriceChart -----------------------------
(***************************************************************************)
(* The chart panel of the dashboard (components/dashboard/price-chart.tsx) *)
(* and the service that answers its requests (StockService.getOhlcv).      *)
(* The component is one record c: its React state, its refs, the drawn     *)
(* series, and the dependencies it was last rendered with (c.shown).  Each *)
(* useEffect is an operator from (what was rendered, the component) to the *)
(* component; Commit runs the cleanup and the effects whose dependencies   *)
(* changed, in the order the source declares them.  React re-renders until *)
(* nothing changes before the next browser event is taken: every action    *)
(* ends in Settle.  Answers of fetch calls are actions of their own and    *)
(* come in any order; no request is ever cancelled.                        *)
(* Time is counted in half units.  On the minute chart instants 2m and     *)
(* 2m + 1 share a minute; on the others 2d is day d in Seoul before 09:00  *)
(* and 2d + 1 the rest of it: 09:00 in Seoul is 00:00 UTC.                 *)
(***************************************************************************)
EXTENDS Integers, FiniteSets, SequencesExt, FiniteSetsExt

CONSTANTS
    Tickers,      \* the stocks that can be selected
    None,         \* no stock selected, no legend
    Intervals,    \* the interval buttons offered: names among 1m, 1d, 1w, 1M
    HistoryDays,  \* days an initial load asks for (days=500)
    MoreDays,     \* days a further page asks for (days=200)
    MinuteDays,   \* days of minute bars the server reads at most (3)
    DayMinutes,   \* minutes of a day
    MaxRows,      \* bound on the bars of an answer
    Start,        \* the instant of the first render
    MaxNow,       \* bound on the clock
    MaxFlight,    \* bound on the requests in flight
    MaxBuffer,    \* bound on the buffered ticks
    MaxSwitches   \* bound on the changes of stock or interval

ASSUME PriceChartAssumption ==
    /\ None \notin Tickers
    /\ Intervals \subseteq {"1m", "1d", "1w", "1M"}
    /\ "1d" \in Intervals
    /\ {HistoryDays, MoreDays, MinuteDays, DayMinutes} \subseteq Nat \ {0}
    /\ {MaxRows, MaxFlight, MaxBuffer, MaxSwitches} \subseteq Nat \ {0}
    /\ Start \in Nat /\ MaxNow \in Nat /\ Start <= MaxNow

VARIABLES
    c,        \* the component
    priced,   \* the stocks whose price prop is a number other than 0
    now,      \* Date.now()
    switches, \* changes of stock or interval so far
    tainted,  \* history: an answer to a request of an earlier selection was
              \* taken, and c.dataRef has not been made anew since
    fetched   \* history: the times of the bars the server has answered to the
              \* requests of the present selection

vars == <<c, priced, now, switches, tainted, fetched>>

-----------------------------------------------------------------------------
(* Times, bars and what the server holds.                                  *)

Selection(x) == <<x.ticker, x.interval>>

\* getKstDateString and the minute rounding: the key a bar has on the chart.
IsDaily(iv) == iv # "1m"
TimeKey(iv, t) == IF IsDaily(iv) THEN t \div 2 ELSE 2 * (t \div 2)

\* The key setData is given: a minute bar keeps its time.
ChartKey(iv, t) == IF IsDaily(iv) THEN t \div 2 ELSE t

\* A bar: its time, the selections whose prices went into it, and whether a
\* live tick started it.
Bar(t, from, live) == [time |-> t, from |-> from, live |-> live]

Times(bars) == {bars[i].time : i \in DOMAIN bars}

\* The numbers of S in ascending order: i - 1 of them are below the i-th.
Sorted(S) ==
    [i \in 1..Cardinality(S) |-> CHOOSE x \in S : Cardinality({y \in S : y < x}) = i - 1]

\* getOhlcv, the range of its query: from `days` days before its end, which is
\* the instant of an initial load or the endDate of a page.  Minute charts read
\* at most MinuteDays.
RangeStart(iv, days, end) ==
    IF IsDaily(iv) THEN 2 * (end \div 2) - 2 * days - 1
    ELSE end - 2 * DayMinutes * (IF days < MinuteDays THEN days ELSE MinuteDays)

\* Bars lie at whole minutes, or at 00:00 UTC of a day; there are none before
\* instant 0.
OnGrid(iv, t) == t % 2 = IF IsDaily(iv) THEN 1 ELSE 0
Grid(iv, first, last) == {t \in first..last : t >= 0 /\ OnGrid(iv, t)}

\* findOhlcv: the rows the database may hold in a range, 2 * t for a cached bar
\* of time t and 2 * t + 1 for one aggregated from live ticks, which is labelled
\* with the end of its window or of the range.  The two may have one time.
FindOhlcv(iv, start, end) ==
    SUBSET ({2 * t : t \in Grid(iv, start, end - 1)}
            \cup {2 * t + 1 : t \in {u \in start + 1..end : u >= 0 /\ (OnGrid(iv, u) \/ u = end)}})

\* fetchMinuteOhlcv: minute bars of the day up to `end`; none before 09:00, after
\* an error or without a token.
FetchMinuteOhlcv(end) == SUBSET Grid("1m", end - 2 * DayMinutes, end)

\* fetchHistoricalOhlcv: `days` bars of a day, a week or a month, up to the day of
\* `end`, that day's bar included for an initial load.
FetchHistoricalOhlcv(iv, days, end, page) ==
    LET reach == CASE iv = "1w" -> 7 [] iv = "1M" -> 30 [] OTHER -> 1
        day == end \div 2
    IN  IF iv = "1m" THEN FetchMinuteOhlcv(end)
        ELSE SUBSET Grid(iv, 2 * (day - reach * days) - 1, IF page THEN 2 * day - 1 ELSE 2 * day + 1)

\* Few rows send getOhlcv to the broker, whose bars are merged in by time.
NeedsApiFetch(iv, rows, page) ==
    Cardinality(rows) < IF page THEN 10 ELSE IF iv = "1m" THEN 20 ELSE 50

\* getOhlcv: the rows of an answer.  The database's are sent as they are when the
\* broker is not asked (the user may have no keys) or has nothing; merged ones
\* are one per time, for a page up to its end.
GetOhlcv(iv, days, end, page) ==
    LET found == FindOhlcv(iv, RangeStart(iv, days, end), end)
        api   == FetchHistoricalOhlcv(iv, days, end, page) \ {{}}
        asks  == {{row \div 2 : row \in rows} : rows \in {r \in found : NeedsApiFetch(iv, r, page)}}
    IN  found \cup {{2 * t : t \in {u \in held \cup sent : page => u <= end}} :
                        held \in asks, sent \in api}

\* The answer for sel with these rows: its bars by time.
ServerBars(sel, rows) ==
    [i \in 1..Cardinality(rows) |-> Bar(Sorted(rows)[i] \div 2, {sel}, FALSE)]

\* The sequences of bars the server may answer.
Answers(sel, days, end, page) ==
    {ServerBars(sel, rows) :
        rows \in {r \in GetOhlcv(sel[2], days, end, page) : Cardinality(r) <= MaxRows}}

\* The endDate of the page asked for: one minute before the earliest bar on the
\* chart, or the end (UTC) of the day before the bar's day in Seoul.
EndDate(iv, bars) ==
    LET earliest == Min(Times(bars))
    IN  IF IsDaily(iv) THEN 2 * (earliest \div 2) ELSE earliest - 2

\* new Map(...) over the old page and the current bars: one bar per time, the
\* current one where both have it, ascending.
UniqueSorted(more, current) ==
    LET all == more \o current
        times == Sorted(Times(all))
    IN  [i \in 1..Len(times) |->
            all[Max({j \in DOMAIN all : all[j].time = times[i]})]]

-----------------------------------------------------------------------------
(* The drawn series: bars [key, from]; empty without a chart.              *)

\* updateChartData: sort, one bar per key (the last wins), setData.
UpdateChartData(x, bars) ==
    IF ~x.chart THEN x
    ELSE LET KeyOf(b) == ChartKey(x.intervalRef, b.time)
             keys == Sorted({KeyOf(bars[i]) : i \in DOMAIN bars})
             LastOf(k) == CHOOSE i \in DOMAIN bars :
                             /\ KeyOf(bars[i]) = k
                             /\ \A j \in DOMAIN bars :
                                   KeyOf(bars[j]) = k => bars[j].time <= bars[i].time
         IN  [x EXCEPT !.series =
                [i \in 1..Len(keys) |-> [key |-> keys[i], from |-> bars[LastOf(keys[i])].from]]]

ReplaceLast(s, bar) == Append(Front(s), bar)

\* series.update of the charting library: extends or replaces the last bar,
\* refuses an older one (the exception is caught by the caller).
SeriesUpdate(series, key, from) ==
    LET n == Len(series)
        bar == [key |-> key, from |-> from]
    IN  IF n = 0 THEN <<bar>>
        ELSE IF key > series[n].key THEN Append(series, bar)
        ELSE IF key = series[n].key THEN ReplaceLast(series, bar)
        ELSE series

\* applyTick: ignored without a chart or without bars in the ref, and when
\* older than the last bar; merged into the last bar of the same key, else a
\* new bar (a daily one keeps the raw time, a minute one the rounded).
ApplyTick(x, ticker, t) ==
    IF ~x.chart \/ x.dataRef = <<>> THEN x
    ELSE LET iv   == x.intervalRef
             key  == TimeKey(iv, t)
             n    == Len(x.data)
             last == IF n = 0 THEN -1 ELSE TimeKey(iv, x.data[n].time)
             src  == <<ticker, x.interval>>
         IN  IF key < last THEN x
             ELSE IF key = last
             THEN LET bar == [x.data[n] EXCEPT !.from = @ \cup {src}]
                  IN  [x EXCEPT !.data = ReplaceLast(@, bar),
                                !.series = SeriesUpdate(@, IF IsDaily(iv) THEN last ELSE bar.time,
                                                        bar.from)]
             ELSE [x EXCEPT !.data = Append(@, Bar(IF IsDaily(iv) THEN t ELSE key, {src}, TRUE)),
                            !.series = SeriesUpdate(@, key, {src})]

-----------------------------------------------------------------------------
(* The component and its effects.                                          *)

\* What the effects depend on, as it was rendered.
Deps(x) == [ticker |-> x.ticker, interval |-> x.interval,
            ready |-> x.ready, loaded |-> x.loaded]

Component ==
    [ticker |-> None, interval |-> "1d", ready |-> FALSE, loaded |-> FALSE,
     data |-> <<>>, newData |-> FALSE,       \* ohlcvData; set since the last render
     price |-> FALSE, newPrice |-> FALSE,    \* price prop usable; changed
     legend |-> None,                        \* legendData: the hovered bar's sources
     hovered |-> FALSE,                      \* history: set since the selection's bars came
     dataRef |-> <<>>, intervalRef |-> "1d", historyRef |-> FALSE,
     fetching |-> FALSE, noMore |-> FALSE,
     buffer |-> <<>>, flight |-> <<>>,
     chart |-> FALSE, series |-> <<>>,       \* the refs to the chart are set; what it draws
     shown |-> [ticker |-> None, interval |-> "1d", ready |-> FALSE, loaded |-> FALSE]]

\* A request: what it asks, the bars loadMore captured, when it was sent, and
\* whether its answer belongs to an earlier selection (the selection has
\* changed since, or the captured bars were tainted already).
Request(kind, sel, end, current) ==
    [kind |-> kind, sel |-> sel, end |-> end, current |-> current,
     sent |-> now, stale |-> (current # <<>> /\ tainted)]

\* Effects on ohlcvData, interval and isHistoryLoaded: the refs follow.
SyncDataRef(r, x) == IF x.newData THEN [x EXCEPT !.dataRef = x.data] ELSE x
SyncIntervalRef(r, x) == [x EXCEPT !.intervalRef = r.interval]
SyncHistoryRef(r, x) == [x EXCEPT !.historyRef = r.loaded]

KeepRefOnCleanup(x) ==      \* mutant: the ref survives the switch
    [x EXCEPT !.noMore = FALSE, !.ready = FALSE, !.chart = FALSE, !.series = <<>>]

\* The cleanup of the chart effect.
RemoveChart(x) ==
    [x EXCEPT !.dataRef = <<>>, !.noMore = FALSE, !.ready = FALSE,
              !.chart = FALSE, !.series = <<>>]

\* The chart effect: a new empty chart for the selection.
CreateChart(r, x) ==
    IF r.ticker = None \/ Selection(r) = Selection(x.shown) THEN x
    ELSE [x EXCEPT !.chart = TRUE, !.series = <<>>, !.ready = TRUE, !.noMore = FALSE]

\* The history effect: clears the data without a selection, waits for the
\* chart, else sends fetchHistory's request.
LoadHistory(r, x) ==
    IF Selection(r) = Selection(x.shown) /\ r.ready = x.shown.ready THEN x
    ELSE IF r.ticker = None
    THEN [x EXCEPT !.loaded = FALSE, !.data = <<>>, !.newData = TRUE, !.series = <<>>]
    ELSE IF ~r.ready THEN x
    ELSE [x EXCEPT !.loaded = FALSE,
                   !.flight = Append(@, Request("history", Selection(r), now, <<>>))]

\* The live effect: the price is buffered until the history is loaded.
LivePrice(r, x, newPrice) ==
    IF ~(newPrice \/ r.loaded # x.shown.loaded) \/ r.ticker = None \/ ~x.price THEN x
    ELSE IF ~r.loaded
    THEN [x EXCEPT !.buffer = Append(@, [ticker |-> r.ticker, at |-> now])]
    ELSE LET y == ApplyTick(x, r.ticker, now)
         IN  [y EXCEPT !.newData = @ \/ y.data # x.data]

\* A chain of steps from one component to the next.
Only(S) == CHOOSE x \in S : TRUE

Settled(x) == Deps(x) = x.shown /\ ~x.newData /\ ~x.newPrice

\* One render and its effects; nothing to render leaves the component alone.
Commit(x) ==
    IF Settled(x) THEN x
    ELSE LET r        == Deps(x)
             switched == Selection(r) # Selection(x.shown) /\ x.shown.ticker # None
             cleaned  == {IF switched THEN RemoveChart(x) ELSE x}
             synced   == {SyncHistoryRef(r, SyncIntervalRef(r, SyncDataRef(r, y))) : y \in cleaned}
             charted  == {CreateChart(r, [y EXCEPT !.newData = FALSE, !.newPrice = FALSE]) :
                             y \in synced}
             asked    == {LoadHistory(r, y) : y \in charted}
             live     == {LivePrice(r, y, x.newPrice) : y \in asked}
         IN  Only({[y EXCEPT !.shown = r] : y \in live})

\* React renders until nothing changes; ShownIsSelected says four are enough.
Settle(x) ==
    Only({Commit(y) : y \in {Commit(z) : z \in {Commit(w) : w \in {Commit(v) : v \in {x}}}}})

-----------------------------------------------------------------------------
(* The user, the price stream and the answers of the server.               *)

Init ==
    /\ c = Component
    /\ priced = {}
    /\ now = Start
    /\ switches = 0
    /\ tainted = FALSE
    /\ fetched = {}

Outdated(q) == [i \in DOMAIN q |-> [q[i] EXCEPT !.stale = TRUE]]

\* The parent passes another stock, or none (t = None).  The legend keeps the bar
\* it shows until the pointer moves on a chart again.
Select(t) ==
    /\ t # c.ticker
    /\ t # None => Len(c.flight) < MaxFlight /\ Len(c.buffer) < MaxBuffer
    /\ c' = Settle([c EXCEPT !.ticker = t, !.price = (t \in priced), !.newPrice = TRUE,
                             !.hovered = FALSE, !.flight = Outdated(@)])
    /\ tainted' = (tainted /\ c.ticker = None)
    /\ fetched' = {}
    /\ switches < MaxSwitches /\ switches' = switches + 1
    /\ UNCHANGED <<priced, now>>

\* One of the interval buttons, shown with a selected stock.
SetChartInterval(iv) ==
    /\ c.ticker # None /\ iv # c.interval
    /\ Len(c.flight) < MaxFlight /\ Len(c.buffer) < MaxBuffer
    /\ c' = Settle([c EXCEPT !.interval = iv, !.hovered = FALSE, !.flight = Outdated(@)])
    /\ tainted' = FALSE
    /\ fetched' = {}
    /\ switches < MaxSwitches /\ switches' = switches + 1
    /\ UNCHANGED <<priced, now>>

\* A tick changes the price prop of stock t; only the selected one's is a prop
\* of the chart.
Tick(t) ==
    /\ t = c.ticker /\ ~c.loaded => Len(c.buffer) < MaxBuffer
    /\ priced' = priced \cup {t}
    /\ c' = IF t = c.ticker THEN Settle([c EXCEPT !.price = TRUE, !.newPrice = TRUE]) ELSE c
    /\ UNCHANGED <<now, switches, tainted, fetched>>

PassTime ==
    /\ now < MaxNow
    /\ now' = now + 1
    /\ UNCHANGED <<c, priced, switches, tainted, fetched>>

\* subscribeCrosshairMove: the legend follows the bar under the pointer; none
\* where there is no bar, and when the pointer leaves.
CrosshairMove ==
    /\ c.chart
    /\ \E l \in {None} \cup {c.series[i].from : i \in DOMAIN c.series} :
          /\ l # c.legend \/ ~c.hovered
          /\ c' = [c EXCEPT !.legend = l, !.hovered = TRUE]
    /\ UNCHANGED <<priced, now, switches, tainted, fetched>>

\* The visible range came near the left edge: the scroll handler's guards and
\* loadMore's, and loadMore up to its fetch.
LoadMore ==
    /\ c.series # <<>>
    /\ ~c.fetching /\ ~c.noMore
    /\ c.dataRef # <<>>
    /\ c.historyRef
    /\ Len(c.flight) < MaxFlight
    /\ c' = [c EXCEPT !.fetching = TRUE,
                !.flight = Append(@, Request("more", Selection(c),
                                             EndDate(c.interval, c.dataRef), c.dataRef))]
    /\ UNCHANGED <<priced, now, switches, tainted, fetched>>

Alien(b) == \E i \in DOMAIN b : b[i].ticker # c.ticker

LoadedOnSuccessOnly(i) ==   \* mutant: an error leaves the panel loading
    LET q == c.flight[i]
        x == [c EXCEPT !.flight = RemoveAt(@, i)]
    IN  /\ q.kind = "history"
        /\ c' = Settle(x)
        /\ UNCHANGED <<priced, now, switches, tainted, fetched>>

\* pendingTicks: the buffered ticks after the instant `last`, each handed to applyTick.
ApplyPending(x, last) ==
    LET ticks == x.buffer
        applied[n \in 0..Len(ticks)] ==
            IF n = 0 THEN x
            ELSE IF ticks[n].at > last THEN ApplyTick(applied[n - 1], ticks[n].ticker, ticks[n].at)
            ELSE applied[n - 1]
    IN  applied[Len(ticks)]

\* An answer replaces the bars, redraws, hands the newer buffered ticks to
\* applyTick and empties the buffer.
TakeHistory(x, bars) ==
    LET last == IF bars = <<>> THEN 0 ELSE Last(bars).time
        y    == UpdateChartData([x EXCEPT !.data = bars, !.newData = TRUE], bars)
    IN  [ApplyPending(y, last) EXCEPT !.buffer = <<>>, !.hovered = FALSE]

\* fetchHistory after its await, for the i-th request: an error answer (or a
\* network error) only ends the loading.
HistoryAnswer(i) ==
    LET q == c.flight[i]
        x == [c EXCEPT !.flight = RemoveAt(@, i)]
    IN  /\ q.kind = "history"
        /\ \/ /\ c' = Settle([x EXCEPT !.loaded = TRUE])
              /\ UNCHANGED <<tainted, fetched>>
           \/ /\ \E at \in q.sent..now : \E bars \in Answers(q.sel, HistoryDays, at, FALSE) :
                    /\ c' = Settle([TakeHistory(x, bars) EXCEPT !.loaded = TRUE])
                    /\ fetched' = IF q.stale THEN fetched ELSE Times(bars)
              /\ tainted' = (q.stale \/ (tainted /\ Alien(c.buffer)))
        /\ UNCHANGED <<priced, now, switches>>

PageReplacesBars(x, q, more) ==     \* mutant: the page without the captured bars
    IF more # <<>> /\ Len(UniqueSorted(more, q.current)) > Len(q.current)
    THEN UpdateChartData([x EXCEPT !.data = more, !.newData = TRUE], more)
    ELSE [x EXCEPT !.noMore = TRUE]

\* The bars after a further page, taken with the bars captured when it was
\* asked for; nothing new marks the end of the data.
TakeMore(x, q, more) ==
    LET all == UniqueSorted(more, q.current)
    IN  IF more # <<>> /\ Len(all) > Len(q.current)
        THEN UpdateChartData([x EXCEPT !.data = all, !.newData = TRUE], all)
        ELSE [x EXCEPT !.noMore = TRUE]

FetchingKeptOnError(i) ==   \* mutant: isFetchingRef not reset on an error
    LET q == c.flight[i]
    IN  /\ q.kind = "more"
        /\ c' = Settle([c EXCEPT !.flight = RemoveAt(@, i)])
        /\ UNCHANGED <<priced, now, switches, tainted, fetched>>

\* loadMore after its await: an error only ends the fetching.
MoreAnswer(i) ==
    LET q == c.flight[i]
        x == [c EXCEPT !.flight = RemoveAt(@, i), !.fetching = FALSE]
    IN  /\ q.kind = "more"
        /\ \/ /\ c' = Settle(x)
              /\ UNCHANGED <<tainted, fetched>>
           \/ /\ \E bars \in Answers(q.sel, MoreDays, q.end, TRUE) :
                    /\ c' = Settle(TakeMore(x, q, bars))
                    /\ fetched' = IF q.stale THEN fetched ELSE fetched \cup Times(bars)
              /\ tainted' = (tainted \/ q.stale)
        /\ UNCHANGED <<priced, now, switches>>

Answer(i) == HistoryAnswer(i) \/ MoreAnswer(i)

Next ==
    \/ \E t \in Tickers \cup {None} : Select(t)
    \/ \E iv \in Intervals : SetChartInterval(iv)
    \/ \E t \in Tickers : Tick(t)
    \/ PassTime
    \/ CrosshairMove
    \/ LoadMore
    \/ \E i \in 1..MaxFlight : i <= Len(c.flight) /\ HistoryAnswer(i)
    \/ \E i \in 1..MaxFlight : i <= Len(c.flight) /\ MoreAnswer(i)

\* The browser settles every fetch, with an answer or with an error: the
\* oldest request is not left waiting for ever.
OldestAnswered == c.flight # <<>> /\ Answer(1)

Spec == Init /\ [][Next]_vars /\ WF_vars(OldestAnswered)

-----------------------------------------------------------------------------
(* What the panel shows.                                                   *)

\* The status line under the chart.
StatusLine ==
    CASE c.ticker = None -> "placeholder"
      [] c.ticker # None /\ c.fetching -> "loading older"
      [] c.ticker # None /\ ~c.fetching /\ ~c.loaded -> "loading"
      [] c.ticker # None /\ ~c.fetching /\ c.loaded /\ c.data = <<>> -> "no data"
      [] OTHER -> "streaming"

\* The OHLC legend: the hovered bar, else the last bar; the selections its
\* prices come from.
Legend ==
    IF c.ticker = None THEN {}
    ELSE IF c.legend # None THEN c.legend
    ELSE IF c.data # <<>> THEN Last(c.data).from ELSE {}

-----------------------------------------------------------------------------
(* Properties.                                                             *)

SourcesOf(bars) == UNION {bars[i].from : i \in DOMAIN bars}
Keys(bars) == {ChartKey(c.interval, bars[i].time) : i \in DOMAIN bars}

\* Every event is rendered to the end within four commits: the effects that
\* set state (isChartReady, isHistoryLoaded, ohlcvData) never re-trigger each
\* other without end.
RendersSettle == Settled(c)

\* And then, unless a late answer of an earlier selection was taken in, the bars that
\* applyTick and loadMore build on and every drawn bar are those of the selected
\* stock and interval, and so is the bar the pointer was moved to since they came.
\* When there are bars, they are the state's, the series draws exactly their
\* keys in ascending order, and the legend of a panel without a hovered bar shows
\* the last one; without, nothing is drawn.  (Before the bars come, or when the
\* request for them fails, the state keeps the earlier selection's bars and the
\* legend shows them; and it keeps a hovered bar until the pointer moves.)
ShownIsSelected ==
    RendersSettle /\ (~tainted =>
        /\ SourcesOf(c.dataRef) \subseteq {Selection(c)}
        /\ SourcesOf(c.series) \subseteq {Selection(c)}
        /\ c.hovered /\ c.legend # None => c.legend = {Selection(c)}
        /\ c.dataRef = <<>> => c.series = <<>>
        /\ c.dataRef # <<>> =>
              /\ c.data = c.dataRef
              /\ {c.series[i].key : i \in DOMAIN c.series} = Keys(c.dataRef)
              /\ \A i \in 2..Len(c.series) : c.series[i-1].key < c.series[i].key
              /\ c.legend = None => Legend = {Selection(c)})

\* The times of the bars that came from the server.
FetchedTimes(bars) == {bars[i].time : i \in {j \in DOMAIN bars : ~bars[j].live}}

OnePerTime(bars) == \A i, j \in DOMAIN bars : bars[i].time = bars[j].time => i = j

\* Pages only add: the bars of the server on the chart were answered for the
\* present selection, and every bar answered for it is there, however ticks,
\* pages, errors and switches interleave; but for a last page refused because
\* the bars on the chart shared times.
FetchedIsKept ==
    ~tainted =>
        /\ FetchedTimes(c.dataRef) \subseteq fetched
        /\ ~c.noMore \/ OnePerTime(c.dataRef) => fetched \subseteq Times(c.dataRef)

\* isFetchingRef is set exactly while one loadMore request is in flight, over
\* every switch and error: paging is neither doubled nor blocked for good.
FetchingIffRequested ==
    LET more == {i \in DOMAIN c.flight : c.flight[i].kind = "more"}
    IN  Cardinality(more) = IF c.fetching THEN 1 ELSE 0

\* A panel that says it is loading says something else later.
LoadingEnds ==
    (StatusLine \in {"loading", "loading older"}) ~>
        (StatusLine \notin {"loading", "loading older"})

\* The claim of the comments in the cleanup and in loadMore: after a switch of
\* the interval, loadMore never builds on bars of the earlier interval.
LoadMoreNotPolluted ==
    \A i \in DOMAIN c.flight :
        c.flight[i].kind = "more" =>
            \A src \in SourcesOf(c.flight[i].current) : src[2] = c.flight[i].sel[2]

=============================================================================
