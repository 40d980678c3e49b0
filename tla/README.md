# A TLA+ model of the stock anomaly detection system

The repository is a pipeline of four programs:

    KIS exchange --websocket--> api-server --Kafka raw-market-data--> trading-engine
         trading-engine --candle-data--> ai-signal-service --ai-signals--> trading-engine
         trading-engine --urgent-signals, anomaly-alerts--> api-server --SSE--> web-app

Modelled are the trading engine (C++, several threads, lock-free structures), which decides on
orders; the web application (TypeScript); and of the API server (Java) its subscription calls, its
answers to requests for bars, the websocket sessions with the broker and the event streams to the
browsers. Of the AI service (Python) only its answers are modelled. All paths are relative to the repository; line numbers are those
of the modelled commit. `PROJECT.json` maps every definition to the lines it models.

## Inventory

| Component | State | Operations | Interacts with |
|---|---|---|---|
| `MPSCQueue` (core/lock_free_queue.hpp) | ring of slots with a sequence each, enqueue and dequeue position | `push`, `pop` | market consumer thread -> drain thread |
| `ObjectPool`, `PoolHandle` (core/object_pool.hpp) | free list, head | `acquire`, `release`/`reset` | message buffers of `KafkaProducer`, states of `TickAggregator` |
| `TickAggregator`, scalping path | per-ticker rolling volume z-score and price change | `scalping_drain_loop` | pops the queue, calls the signal callback |
| `TickAggregator`, swing path, `Candle` | registry of ticker states, two candles each | `get_or_create_state`, `update_swing_state`, `emit_swing_candle` | consumer threads; signal callback |
| `EventBus` (events/event_bus.hpp) | two queues, mutexes, condition variables, handler lists, `running_` | `subscribe`, `publish`, `dispatch_loop`, destructor | drain, market and AI threads publish; handlers consume |
| `SwingHandler` | per ticker: idle or armed, close time, position | `on_candle_closed`, `on_ai_confirmed`, `on_ttl_expired`, `check_exit` | bus, order executor |
| `ScalpingHandler` | positions per ticker | `on_event`, `check_exit` | bus, order executor |
| `main.cpp`, Kafka wrappers | threads, offsets, shutdown flag | callbacks, poll loops | everything above |
| ai-signal-service | candle buffer per ticker and interval | poll, warm start, score, publish | candle-data, ai-signals, InfluxDB |
| api-server `SubscriptionService`, Redis cache, `KisWebSocketClient` | rows, cached list, sessions per app key | `subscribe`, `unsubscribe`, `getSubscriptions`, `initSubscriptions`, close callback | MySQL, Redis, KIS |
| api-server `SseService`, Kafka consumers | one emitter per user | `subscribe`, broadcasts, callbacks | dashboard |
| api-server `StockService`, `KisApiService`, `InfluxDbRepository` | none of their own; bars in InfluxDB | `getOhlcv`, `findOhlcv`, the broker's bars | price chart, KIS |
| api-server authentication | tokens, blacklist | login, logout, filter | Redis |
| web-app `price-chart.tsx` | bars in state, in a ref and in the drawn series; fetching and loaded flags; buffered ticks | effects on ticker and interval, `applyTick`, `loadMore`, answers | page (props, `registerTickCallback`), api-server, lightweight-charts |
| web-app `page.tsx`, `stock-list.tsx` | subscribed list, selection, search text with debounce and results, EventSource | mount effect, search, subscribe, unsubscribe, tick callback | api-server `SubscriptionService`, price chart |
| web-app login, signup, profile pages, `proxy.ts` | token in localStorage and in a session cookie, forms, profile | login, signup, logout, save keys, guard | api-server authentication |
| web-app `alarm-log.tsx`, `ai-signal-log.tsx` | the newest 50 events each, active tab, scroll position | SSE callbacks, tab, scroll | page |
| web-app `use-toast.ts`, `toaster.tsx` | module-level list of toasts, removal timers, listeners | `toast`, `dismiss`, timers, render and effect of a listener | any component |
| web-app `sidebar.tsx`, `use-mobile.ts`, `sheet.tsx` | open, open on a narrow window, cookie, measured width | toggle, rail, shortcut, sheet, resize, reload | owner component, window |
| web-app `carousel.tsx` | Embla instance and a copy of what it can do | effects, buttons, keys, drags | Embla, parent |

What makes these hard: five threads in the engine share the queue, the pool, the registry and
the bus; Kafka delivers at least once and in no order across topics; the AI's answer races the
event that arms the ticker; ticks arrive late; pools and rings run full; the bus is torn down
while its threads may be going to sleep. In the browser nothing runs in parallel, but no request is
ever cancelled: answers come late, in any order, for a stock, a text, a page or a login that is no
longer the current one; state is kept twice (state and ref, token and cookie, list and selection,
store and listener); and the server reads and caches a list while another request changes it. `PROJECT.json` lists the hazards at their lines, each
with the properties aimed at it, or a note on the plan for it.

What correct means, component by component: the queue is a bounded FIFO without data races that
loses nothing it accepted; the pool hands out a slot to one user at a time; every ticker has one
state, its candles come out in order and an hour is the sum of its quarters; the bus dispatches
every event in order and never sleeps on work; the swing handler, by its own account, holds at most one position,
enters at most once per armed bar and never on stale advice; the chart shows the bars of what is
selected, keeps what the server answered, pages once at a time and does not load for ever; list, cache
and rows agree once nothing is in flight; the page's stream is connected exactly on the dashboard of
somebody logged in; toasts leave and everybody shows the same ones; copies of a state (token, flags of
the carousel, width) are true; the rolling statistics of the scalping path are those of its window, and a ticker is
bought and asked to be sold in turns; every open session with the broker is the one the client knows for its key, and
every open stream the one broadcasts go to.

A candle is emitted only when a later tick of its ticker arrives (`tick_aggregator.hpp:161`): there
is no timer, by design, so the last bar of a session is never emitted and no property promises it.

## Modules

| Module | Models | Remarks |
|---|---|---|
| `MPSCQueue` | `MPSCQueue::push`, `pop` | one step per atomic or plain access; `pc`/`pos` are `push`'s locals, `cpc`/`item` `pop`'s |
| `TickFifo` | what the queue promises | abstract specification, refined by `MPSCQueue` |
| `MPSCQueueProofs` | | TLAPS proofs |
| `ObjectPool` | `acquire`, `release` | a slot is either given back (message buffers) or kept for ever (ticker states) |
| `SlotAllocator` | what the pool promises | abstract specification, refined by `ObjectPool` for two threads: the free list is the set of free slots, a nullptr on its way a refusal |
| `ObjectPoolProofs` | | TLAPS proofs, for two threads |
| `SwingPath` | registry, candles | `Lookup` is the shared lock, `Create...` the unique lock, `UpdateQuarter`/`UpdateHour` the two halves under `state->mtx` |
| `SwingPathProofs` | | TLAPS proofs |
| `EventBus` | the bus and its destructor | a condition variable is the set of blocked threads; predicate and blocking are separate steps |
| `SwingTrading` | bar -> Kafka and bus -> AI -> order | composes the aggregator callback, the AI service, the AI consumer and `SwingHandler`, one ticker; an exit order is sold or, when the executor rejects it, unsold |
| `SwingTradingProofs` | | TLAPS proofs |
| `EventBusProofs` | | TLAPS proofs |
| `PriceChart` | `price-chart.tsx`; `StockService.getOhlcv`, `InfluxDbRepository.findOhlcv`, the bars of `KisApiService` | the component is one record; each `useEffect` is an operator, `Commit` runs cleanups and effects in source order, `Settle` re-renders until nothing changes; `chart` says whether the refs to the chart are set; `HistoryAnswer`, `MoreAnswer` are the code after an `await`; `GetOhlcv` is the set of answers the server may give to a request |
| `PriceChartProofs` | | TLAPS proofs |
| `WatchList` | `page.tsx`, `stock-list.tsx`; `SubscriptionService.getSubscriptions`, `subscribe`, `unsubscribe` with their transaction and Redis entry | a call goes through the stages sent, filling or writing, done or error, each a step of its own; `rows` is the table, `cache` the Redis entry |
| `Session` | login, signup, profile pages, logout, `proxy.ts` | navigation is `Goto` (handlers live on) or a page load (they do not) |
| `WebApp` | the two together | the dashboard is mounted exactly while the page is "home"; `MountByRoute`, `MountByLoad` |
| `WebAppProofs` | | TLAPS proofs, all about the composition `WebApp` |
| `EventLogs` | the two logs of the page | `Prepend` is the slice of both handlers; `received` keeps what came for each log |
| `ToastStore`, `Toasts` | `hooks/use-toast.ts`; `toaster.tsx` and the second copy `components/ui/use-toast.ts` | `Render` and `Listen` are the two steps between which a component misses a dispatch; the copy is an INSTANCE with its own state |
| `Sidebar` | state of `sidebar.tsx`, `use-mobile.ts`, `sheet.tsx` | `Presentation` says where it is drawn, from collapsible, width and measurement |
| `Carousel` | `carousel.tsx` | Embla is external: where it can scroll and which event it emits |
| `Widgets` | the parts that share no state | `focus` chooses one part per behaviour, so their states add up instead of multiplying |
| `WidgetsProofs` | | TLAPS proofs about all of `Widgets`: logs, toasts, sidebar and carousel |
| `Scalping` | drain loop, `ZScoreCalculator`, `PriceChangeTracker`, the scalping branch of the callback, `ScalpingHandler` | the handler's two critical sections are steps of their own, with the executor between them |
| `KisFeed` | `KisWebSocketClient`; `SubscriptionService` as its caller, with `registerAppKey` and `initSubscriptions` | a call goes through register, enter, connect, put, send, commit or rollback; the client's monitor is a variable, the close callback does not take it |
| `SseFanout` | `SseService` with its callbacks, pushed to by the Kafka consumers | a listener goes through the map one user at a time, each push two steps (read, send) |
| `Services` | swing trading, scalping, feed and streams | chosen by `focus`, as in `Widgets`: they reach one another through Kafka only |
| `MC*` | instances for TLC | only constants |

Operators whose comment starts with "Mutant:", or that carry a `\* mutant:` remark, are plausible
bugs of the definition that follows them. They take part in no specification; replacing the
definition by its mutant must violate the property `PROJECT.json` pairs it with, which shows that
the property looks at the code.

### Abstractions

- Memory is sequentially consistent. The queue relies on the acquire/release pair on
  `Slot::sequence` only; instead of weak memory, races on the plain field `data` are a property.
  Positions are naturals; `size_t` does not wrap in the life of a process.
- `pos & kMask` is the remainder, which is what the power of two in the static assertion is for.
- Prices and volumes of `SwingPath` are integers, times are minutes. In `SwingTrading` an answer is
  strong or weak, and `check_exit` is called with a price that meets an exit level.
- The executor may reject any order, as its contract allows; the stub of this commit accepts all. Neither
  handler looks at the answer to an exit order, so the history has exits that were sold and exits that
  were not, and what is stated of positions is stated of what the handlers believe.
- The doubles of the scalping path are exact integers: n times the mean, n times the sum of squared
  deviations; scores are compared squared. Rounding is left out. Ages and prices of signals are any; alerts
  go to Kafka, where the engine does not read them.
- Volume: the feed passes KIS's *cumulative* volume as the tick's volume
  (`KisWebSocketClient.java:121-125`), and `Candle::update` adds it up. The model adds up what it is
  given, as the code does; no property says the sum is the traded volume.
- `on_ttl_expired` and `check_exit` (of both handlers) are public operations that `main.cpp` never
  triggers at this commit: nobody publishes `TTLExpired`, and the callers the comments speak of
  (scalping_handler.hpp:34 and :69, swing_handler.hpp:125) are not there; they are modelled as operations that may
  be called at any time, so what is proved covers the day they are wired up.
- `push_tick` is called by one market consumer thread today; `MPSCQueue` and `SwingPath` allow any
  number, which is what their locking is for.
- A message produced to Kafka may be lost (no buffer, queue full, delivery failure); both consumers
  may read messages again. Redelivery goes back one message per step.
- The browser runs one event at a time, and React renders and runs effects until nothing changes
  before the next one is taken. A step between a render and its effects is modelled only for
  `useToast`, where a dispatch of another component's effect may fall into it.
- One tab of the browser is open. A second one would share token and cookie with it.
- A bar of the chart carries which selections its prices come from instead of prices. Time is in half
  units: on the minute chart two of them are a minute, on the others a day in Seoul, split at 00:00 UTC.
  lightweight-charts draws what it is given.
- What the database and the broker hold is any set of bars within the range the code computes for the
  request, and may differ from one request to the next: pages may be empty, partial or repeat bars, cached
  bars and bars aggregated from ticks may share a time, and the broker may be asked or not. `MaxRows`
  bounds the bars of an answer.
- In `KisFeed` the initial price and what a tick carries are left out; rows are committed at the end of a
  call, after the session has been dealt with. The broker may refuse an approval key, a connection or break a session
  at any time. In `SseFanout` the servlet container is modelled from its use: it may notice a broken
  connection at any time or never, and a write to one may fail or seem to go out.
- A call of the page may fail at any stage: refused, timed out, or carried out with its answer lost.
  A call's script lives on after its page is left through the router and dies with a page load; the
  server carries on in either case.
- A list is a set of stocks with whether a tick changed it; search results are named by the text
  they were found for.
- Some variables only record the past, to say what a property excuses. No guard of the code's
  actions reads them. `tainted`: a late answer of an earlier selection was taken and the bars have not been
  made anew since. `fetched`: the times of the bars answered for the selection. `raced`: the cache may have
  been filled across a write. `clean`: the list is the rows, through any number of unsubscribes, also
  overlapping ones, since the last list; it ends with an unsubscribe that fails or whose answer is lost, with
  the answer to a subscribe until the list asked for then comes, and it does not begin with a list fetched beside a write or
  from a raced cache. `found`: the last search answer was for the current text. `missed`: a dispatch between
  render and effect. `displaced`: sessions and streams whose entry the late end of an earlier one has
  removed. `moved`, `received`: a log was scrolled, and what came for it. (`hovered` of the chart's record says whether the pointer
  moved since the bars came.)

## Runs

| Run | Instance | Shows |
|---|---|---|
| `queue` | 2 producers, capacity 2, 3 pushes each | inductive invariant, no slot race, per-producer FIFO, nothing lost, refinement of `TickFifo`, delivery. Six pushes lap the ring of two three times, so a producer can be overtaken by a lap between any two steps |
| `candles` | 2 threads, 2 pooled states, tickers A, B and C, 7 ticks around 15, 60 and 120 minutes, 5 of them in any order | inductive invariant, ownership of states, drops, order of emission, hours and quarters. Two states for three tickers exhaust the pool |
| `pool` | the drain and the market thread, 4 slots | each slot once, refinement of `SlotAllocator`, lock-freedom. Two threads hold two slots at most; the others are free or kept, so the free list is long, short and empty |
| `bus` | drain, market and AI thread, one event each, swing handler may hang | order, no lost wakeup, liveness. The two swing publishers meet the dispatch thread at every step; a second event each adds no new situation and takes minutes |
| `bus_shutdown` | the same, no slow handler | violation: the join never returns |
| `services` | swing: bars closing at 60 (15m), 60 (1h), 75 (15m), TTL 1, clock up to 2, one redelivery; scalping: one ticker, a window of 4, two signals queued, three orders; feed: 2 users, 1 key, 2 threads, 2 sessions, 1 restart; streams: 2 users, 3 streams, 2 listeners | position, entries, staleness; statistics, orders in turns; sessions; streams. The window of four is filled and its samples replaced any number of times, with thresholds low enough for all severities; two sessions are enough for one to replace another, three streams for a reconnect beside another user |
| `swing_bar` | the bars of `services` | violation: entry on another bar |
| `price_chart` | 2 stocks (interchangeable), minute and daily chart, 2 switches, initial loads and pages of one day, answers of at most 2 bars, 2 requests in flight, 2 buffered ticks; a day is one minute long and the clock crosses one | selected bars and no others, pages only add, paging neither doubled nor blocked. Two switches leave a selection and come back to it, or to another, with answers still out; an answer of two bars may be empty, partial, new or a repetition, and two bars may share a time |
| `chart_loading` | the same with answers of at most one bar, one buffered tick and the clock at rest | loading ends. What ends it does not depend on the bars |
| `chart_stale` | that of `price_chart` | violation: `loadMore` on bars of another interval |
| `web_app` | 1 stock, 2 texts, 2 calls in flight, 3 inputs (changes of the text and writes) | cache, list, selection, search results, saved keys, session. Two calls are enough for a reader across a write, two searches out of order and an answer to a page that is gone. The properties speak of one stock at a time, and the proofs cover any number |
| `widgets` | logs of 2 out of 4 events; 2 toasts, 1 shown, 2 components; the sidebar as it is; 3 slides | logs, toasts, sidebar, carousel. A limit of one makes the second toast push out the first with its timer running; three slides have a first, a middle and a last one |

Fairness. `queue`: the drain thread keeps polling and a producer past its CAS is never stopped
(both are straight-line code); nothing is assumed of a producer that owns no slot. `pool`: a thread
inside a call keeps running, and `compare_exchange_weak` does not fail spuriously for ever. `bus`:
dispatch threads keep running, handlers return except those of slow types, a publisher that has
queued an event notifies; nobody is obliged to publish, to wake up spuriously or to shut down.
`std::mutex` is not fair, but weak fairness of a dispatch thread suffices because publications are
finite. `chart_loading`: the browser settles every fetch, with an answer or an error
(`OldestAnswered`); the user and the ticks are under no obligation. `widgets`: the browser fires every
timer that was set (`TimersFire`). `services` and `web_app` state no fairness and no liveness:
their properties are about what may be relied on at any time, or when nothing is in flight.

### Findings

1. `bus_shutdown`: `~EventBus` sets `running_` and notifies without the mutex. A dispatch thread that
   has just found its queue empty goes to sleep after the notification and is never woken; the
   process hangs in the destructor main.cpp:273 relies on.
2. `swing_bar`: the handler matches answers to bars by close time only. Once an hour a 15-minute and a
   1-hour bar close together, and the answer about one enters on the other, which
   swing_handler.hpp:21-23 says the match prevents. What does hold, and is proved, is that an
   answer never enters on a bar with a *different* close time (`NeverAnOlderBar`).
3. `chart_stale`: a history answer that comes after a switch of the interval fills state and ref again with
   bars of the earlier interval, and `loadMore` builds on them, against the comments at
   price-chart.tsx:192 and :206. `ShownIsSelected` shows that late answers are the only way the ref and the drawn
   series come to hold anything but the selection. The state and the legend may hold old bars without
   one: after a switch until the new bars come, or for good when the request for them fails.

The following are behaviours of the models as well, and each is what one of the properties leaves out by
name. No run of the project is about them.

- `ObjectPool` with three threads: the untagged head suffers the ABA problem and a slot in use is handed
  out again, although object_pool.hpp:13 calls the pool thread-safe. The engine calls each pool from two threads.
- `check_exit` of both handlers (swing_handler.hpp:144, scalping_handler.hpp:88): after a rejected sell the
  shares are held and the handler may buy again. `PositionMatchesOrders` and `OrdersAlternate` say what holds then.
- The score of a sample in a window of 20 that contains it is at most 19 / sqrt(20), about 4.25, so the
  threshold of 5 for HIGH (tick_aggregator.hpp:20) is never met and scalping never orders.
- `loadMore` merges a page with the bars it captured before the `await`: a bar that a tick has started
  since is gone until the next tick (price-chart.tsx:260-268). And it counts: two bars of one time on the
  chart hide a new one in the page, and paging stops (`OnePerTime` in `FetchedIsKept`).
- The close callback of the websocket client and those of an emitter remove the entry of the key or user,
  whoever has it by then: a replaced session leaves one that nobody can stop, a reconnected user gets nothing
  (KisWebSocketClient.java:96, SseService.java:22). `displaced` stands for exactly these.
- A user without broker keys cannot unsubscribe: the null key makes the session map throw and the deletion is
  rolled back (KisWebSocketClient.java:70). Users stay registered for a key they no longer have
  (SubscriptionService.java:166).

## Proofs

Every theorem holds for all values of the constants that satisfy the named assumptions.

`MPSCQueueProofs` (any producers, capacity above one). `IndInv` is the conjunction of five
named parts. The properties alone are not inductive: that no two producers own one slot follows
from *where* their positions lie. `LineInv` places the claimed positions in a window of `Capacity`
positions from `HeadPos` on; within it remainders are distinct, so each slot stands for one
position; `SlotInv` says a slot's sequence is its position or, once published, one more;
`ProducerInv` and `ConsumerInv` say what a thread in the middle of a call may rely on;
`OrderInv` ties the history to the calls. The lemmas about `%` come first, then one lemma per
part and action. `NothingLost` needs one more part, `FateInv`:
the item of every call whose fate is settled was refused or has a position. From `IndInv` follow `DataRaceFreedom`, `PerProducerFifo` and `Refinement` (each
step is a step of `TickFifo` or changes none of its variables; `FullIsDefinite` is the lemma behind
"returns false if definitely full").

`SwingPathProofs` (any threads, states, ticks and windows with the long one a multiple, at least
two, of the short one). `PathInv` adds to the properties `LockInv` (a thread holds `state->mtx`
exactly between the two halves of its update) and, per ticker, `CandleInv`: both candles cover
exactly one window and are newer than everything emitted (`Newest`); while nobody holds the mutex
the current quarter lies in the current hour (`Resting`); between the halves a tick that is about to
close the hour has already emitted a quarter of it (`Halfway`). The last two carry
`HourFollowsQuarter`, which says nothing about candles still open and so is not inductive alone.
`SwingInv` adds what makes an hour the sum of its quarters, `GatherInv`: while nobody holds the mutex the
open hour has the open, high, low, close, volume and tick count of the quarters emitted since the last
hour merged with the open quarter (`Gathered`); between the halves the tick is in the quarter and not
yet in the hour (`Gathering`). The lemmas about windows (a multiple of the length lies before the window of `t` or after its end) come
first, then one lemma per half of the update on plain values, then one per part of the invariant.
`DroppedStayOut` needs no more than itself.

`SwingTradingProofs` (any bars, TTL, number of redeliveries). `TradeInv` adds to the three
properties that a ticker in position is never armed, that an armed ticker carries the close time of
the newest bar the handler saw, and that its arming number is new. That the types hold (`TypeCorrect`) is
proved without a run.

`EventBusProofs` (any types, publishers, events). `BusInv` adds to the two properties of the run the
types, that a thread in its handler holds an event (`HandHolds`), that nothing is published before every
type has its handler (`HandlersFirst`), and that a thread between the predicate and the wait still has
an empty queue because it holds the mutex (`BlocksWhenEmpty`); the last is what makes a notification
outside the mutex harmless to `NoSleepingOnWork`.

`ObjectPoolProofs` (any pool size, two threads: the hypothesis `TwoThreads`). The free list is a stack
`L` of distinct slots with `head` at its top, and every slot is in it, kept, or in the hands of exactly
one thread (`Apart`). A compare-and-swap without a version tag is safe for two threads because of
`SlotInTransit`: as long as the other thread owns the very slot this one is about to take, the head is
where the slot's link pointed when this thread read it, so putting the slot back restores what was read.
A third thread can change the list meanwhile, and then it does not hold. The property counts
the free list along `next`; that this chain is the stack is an induction over its length, done as one over
a set of naturals. From the same invariant follows that the pool implements `SlotAllocator`
(`PoolAllocates`): the successful compare-and-swaps are the moments a slot changes hands, and the load
that reads the end mark is the moment a thread is refused, with nothing free (`FreeApart`).

`PriceChartProofs` (any stocks, intervals, bar lengths, page sizes, bounds). A commit is first written
without the sets that chain its steps, and `Frame` says which fields each step of it leaves alone.
`PanelInv` says: everything is rendered (`Settled`); the chart and its refs exist exactly with a stock, and what was
rendered is what is selected (`Wired`); a request that is not stale is of the selection, a fresh request
for the history is the only fresh one, and there is one request for a page exactly while fetching
(`FlightOk`); and unless `tainted`, the bars are `Good`, the series draws them, and a bar the pointer was moved to
since they came is the selection's (`Pure`), and the server's bars among them were answered for the selection and the answered
ones are there, also in what an open request for a page has captured (`Told`). `Good` bars are of the selection,
ascending in time, ticks included; no more can be said of them, since the server may leave out what it likes and a page may
share times with the bars it is put before. `Told` is kept by a tick in each of its three cases, by the ticks
buffered before an answer, and by a further page, whose merge with the captured bars is where the proof needs what the
request captured. That four renders settle is proved from below: with the same selection two are enough
(`CommitTwice`), after a switch between stocks or intervals one more, and from or to no stock two more
(`TurnedSettles`), so the four of `Settle` are enough. While `tainted` the invariant promises nothing about the bars, which
is what finding 3 is about; control and requests it covers always.

`WebAppProofs` (any stocks, texts and calls) is about the composition: a mounting, a page load and every
step of watch list and session are among its steps. `WatchInv` has one part per property of the watch
list. `CacheInv`: a write evicts before it commits, so without a race nothing is cached and nobody is
about to cache while a write is under way, and afterwards whoever is about to cache has read the rows.
`SearchInv` is about the searches the mounted dashboard still waits for (`Awaited`) where the property
speaks of all searches. `ListInv` says of every list call that no write accompanied what it will bring
(`Alone`), and of a clean list that it is the rows up to the unsubscribes under way (`Listed`). The lemma
`RemoveAtElements` carries these over the answered call. `SessionAgrees` is inductive as it stands.
`SavedIsShown` needs `ProfileInv`: a profile page waits for at most one profile answer, is loading while
it does, and lets nothing be typed, saved or reported until then; so no profile answer comes after a
saved key.

`WidgetsProofs` (any toasts, components, slides and log size). `SidebarInv`: once
measured, the hook's isMobile is the window's width; `CarouselInv`: while there is an instance, both
handlers are registered and the buttons are what Embla says; `ToastInv`: a component that missed nothing
holds the store's list; `LogInv`: each log is the newest entries received for it, and a log nobody
scrolled is at its top.

Induction. The library's theorems with an operator parameter cannot be instantiated, so where an induction
over a number is needed (the length of the free list, the number of buffered ticks, the candles of an
hour) it is done over a *set* of naturals that contains zero and every successor, from the
well-foundedness of finite sets (`LeastElement`, `Induction`).

TLC checks `IndInv` and `SwingInv` in the runs above. Only model-checked are, out of the prover's reach, liveness
(`AcceptedIsDelivered`, `LockFree`, `PublishedIsHandled`, `LoadingEnds`, `DismissedLeave`) and
`StatsAreTheWindows`, an induction over the window; and the safety of the newest modules (`OrdersAlternate`,
`OneFeedPerKey`, `ConnectedIsRegistered`), whose proofs are planned. Every other safety property a passing
run checks is a theorem. The pool is proved for two threads because with three it does not hold.

## Plan

Done: the queue with its refinement and proofs, the pool, the swing path, the bus and its proofs, swing
trading, the price chart with the server's answers and its proofs, the pages with the subscription rows and cache and
their proofs, the logs, the toasts, the components of the library that keep a state, the scalping path, the broker's
websocket sessions and the event streams. Next, in this order:

1. Proofs of `OrdersAlternate`, `OneFeedPerKey` and `ConnectedIsRegistered`: each needs the steps of a call or a
   push in its invariant (what a thread in the middle may rely on), as `ProducerInv` of the queue does.
2. Feed and streams composed: from a tick of the broker to the users of its key.
3. `CandleBuffer`: the warm start against the concurrent writer of the time series store.
4. The token life cycle: expiry and the blacklist.

### Not modelled

On purpose: indicators and scorer (floating-point numerics without control), cryptography and token
signing (library code), HTTP mapping and query building (pure I/O), `SPSCQueue` (unused), page layout,
those components of the library that pass properties and class names to a Radix element and keep no
state (menus, dialogs, tables, the header, footer, inset and skeleton of the sidebar), what a menu entry of the
sidebar looks like, and `chart.tsx`, `form.tsx` and `field.tsx`, whose names, colours and ids are settled by one render.
Planned above and absent now: the candle buffer and the token life cycle.
