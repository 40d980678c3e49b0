----------------------------- MODULE WatchList -----------------------------
(***************************************************************************)
(* The watch list of the dashboard (app/page.tsx and stock-list.tsx): the  *)
(* subscribed stocks, the selection, the search box with its debounce, the *)
(* tick stream; and the server side of its calls (SubscriptionService):    *)
(* the subscription rows and the cached list of the user.                  *)
(* A call is sent, handled by the server in the steps another request can  *)
(* come between, and its answer is taken by the handler that waits for it. *)
(* Calls are handled and answered in any order and may fail at any point.  *)
(***************************************************************************)
EXTENDS Naturals, FiniteSets, SequencesExt

CONSTANTS
    Stocks,      \* tickers
    Queries,     \* texts of the search box of two characters or more
    NoText,      \* a text shorter than two characters
    Match,       \* Match[q]: the tickers the server finds for q
    Nil,         \* nothing selected, cached or found
    MaxCalls,    \* bound on the calls in flight
    MaxInputs    \* bound on the changes of the search box and on writes

ASSUME WatchListAssumption ==
    /\ NoText \notin Queries
    /\ Nil \notin Stocks
    /\ Match \in [Queries -> SUBSET Stocks]
    /\ MaxCalls \in Nat \ {0} /\ MaxInputs \in Nat

VARIABLES
    open,        \* the dashboard is mounted and its EventSource connected
    ui,          \* its React state
    calls,       \* its calls in flight, oldest first
    rows,        \* committed subscription rows of the user
    cache,       \* the cached list, Nil when absent
    inputs,      \* changes of the search box and writes so far
    raced,       \* history: the cache may have been filled across a write
    clean,       \* history: a list came with no write beside it, and since then
                 \* no subscribe was answered and no unsubscribe's answer lost
    found        \* history: the last search answer was for the current text

watchVars == <<open, ui, calls, rows, cache, inputs, raced, clean, found>>

-----------------------------------------------------------------------------
(* The page's state and its calls.                                         *)

\* stocks: the list, each with whether its change came from a tick (TRUE) or
\* is the "0.00%" of a fetched list.
Fresh == [stocks |-> <<>>, selected |-> Nil, text |-> NoText, timer |-> TRUE,
          results |-> Nil, show |-> FALSE]

InFlight(kinds) == {i \in DOMAIN calls : calls[i].kind \in kinds}
At(stage) == {i \in DOMAIN calls : calls[i].stage = stage}
Writes == {"add", "drop"}

\* A call: who hears its answer (the page, a script whose page is gone, none)
\* and, for a list, whether no write is in flight with it.
Call(kind, arg, heard) ==
    [kind |-> kind, arg |-> arg, stage |-> "sent", got |-> Nil, heard |-> heard,
     alone |-> InFlight(Writes) = {}]

Room == Len(calls) < MaxCalls

\* setNewTicker: another text restarts the debounce timer.
SetText(w, text) == IF text = w.text THEN w ELSE [w EXCEPT !.text = text, !.timer = TRUE]

-----------------------------------------------------------------------------
(* What is drawn.                                                          *)

\* The change beside a stock of the list: that of a tick, or the "0.00%" of a
\* fetched list.
ListChange(t) == ui.stocks[t]

\* The stock the header of the chart names, and the change beside it.
ChartHeader == IF ui.selected = Nil THEN Nil ELSE ui.selected.ticker
PriceChange == ui.selected # Nil /\ ui.selected.ticked

\* The results under the search box.
ResultsShown == ui.show /\ ui.results # Nil /\ Match[ui.results] # {}

-----------------------------------------------------------------------------
(* The user and the page's effects.                                        *)

\* The mount effect with a token: the list is fetched, the stream connected.
\* q: the calls that an earlier mount left in flight.
OpenDashboard(q) ==
    /\ open' = TRUE
    /\ ui' = Fresh
    /\ calls' = Append(q, Call("list", Nil, "page"))
    /\ clean' = FALSE /\ found' = TRUE

\* Unmounting closes the stream; the handlers of calls in flight run to the
\* end but set the state of a component that is gone.  A full page load ends
\* the handlers too.
Hush(q, ears) == [i \in DOMAIN q |-> [q[i] EXCEPT !.heard = IF @ = "none" THEN @ ELSE ears]]

CloseDashboard(ears) ==
    /\ open' = FALSE
    /\ ui' = [Fresh EXCEPT !.timer = FALSE]
    /\ calls' = Hush(calls, ears)
    /\ clean' = FALSE /\ found' = TRUE

Type(text) ==
    /\ open /\ text # ui.text /\ inputs < MaxInputs
    /\ ui' = SetText(ui, text)
    /\ inputs' = inputs + 1
    /\ UNCHANGED <<open, calls, rows, cache, raced, clean, found>>

\* onFocus of the search box.
Focus ==
    /\ open /\ ui.text # NoText
    /\ ui' = [ui EXCEPT !.show = TRUE]
    /\ UNCHANGED <<open, calls, rows, cache, inputs, raced, clean, found>>

KeepResultsOnShortText ==      \* mutant: a short text leaves the results
    /\ open /\ ui.timer
    /\ \/ /\ ui.text = NoText
          /\ ui' = [ui EXCEPT !.timer = FALSE]
          /\ found' = TRUE
          /\ UNCHANGED calls
       \/ /\ ui.text # NoText /\ Room
          /\ ui' = [ui EXCEPT !.timer = FALSE]
          /\ calls' = Append(calls, Call("search", ui.text, "page"))
          /\ UNCHANGED found
    /\ UNCHANGED <<open, rows, cache, inputs, raced, clean>>

\* searchStocks, when the debounce timer fires: a short text clears the
\* results, a longer one asks the server.
SearchStocks ==
    /\ open /\ ui.timer
    /\ \/ /\ ui.text = NoText
          /\ ui' = [ui EXCEPT !.timer = FALSE, !.results = Nil, !.show = FALSE]
          /\ found' = TRUE
          /\ UNCHANGED calls
       \/ /\ ui.text # NoText /\ Room
          /\ ui' = [ui EXCEPT !.timer = FALSE]
          /\ calls' = Append(calls, Call("search", ui.text, "page"))
          /\ UNCHANGED found
    /\ UNCHANGED <<open, rows, cache, inputs, raced, clean>>

\* A write sent: a list in flight is no longer alone.
SendWrite(kind, t) ==
    /\ open /\ Room /\ inputs < MaxInputs
    /\ inputs' = inputs + 1
    /\ calls' = Append([i \in DOMAIN calls |-> [calls[i] EXCEPT !.alone = FALSE]],
                       Call(kind, t, "page"))
    /\ UNCHANGED <<open, ui, rows, cache, raced, clean, found>>

\* handleSubscribe up to its await: a click on a shown search result.
HandleSubscribe(t) ==
    /\ ResultsShown /\ t \in Match[ui.results]
    /\ SendWrite("add", t)

\* handleUnsubscribe up to its await: the cross of a list entry.
HandleUnsubscribe(t) == t \in DOMAIN ui.stocks /\ SendWrite("drop", t)

\* onSelectStock: a click on a list entry.
SelectStock(t) ==
    /\ open /\ t \in DOMAIN ui.stocks
    /\ ui' = [ui EXCEPT !.selected = [ticker |-> t, ticked |-> ui.stocks[t]]]
    /\ UNCHANGED <<open, calls, rows, cache, inputs, raced, clean, found>>

TickListOnly(t) ==             \* mutant: the selected stock is not updated
    /\ open
    /\ ui' = [ui EXCEPT !.stocks = [s \in DOMAIN @ |-> @[s] \/ s = t]]
    /\ UNCHANGED <<open, calls, rows, cache, inputs, raced, clean, found>>

\* The stock-tick handler: list entry and selected stock take the tick.
StockTick(t) ==
    /\ open
    /\ ui' = [ui EXCEPT
                !.stocks = [s \in DOMAIN @ |-> @[s] \/ s = t],
                !.selected = IF @ # Nil /\ @.ticker = t THEN [@ EXCEPT !.ticked = TRUE] ELSE @]
    /\ UNCHANGED <<open, calls, rows, cache, inputs, raced, clean, found>>

-----------------------------------------------------------------------------
(* The server (SubscriptionService; class-level @Transactional: what a     *)
(* write changes in the database is committed when the method returns,     *)
(* after the cache has been evicted).                                      *)

Stage(i, stage) == [calls EXCEPT ![i].stage = stage]

server == <<open, ui, inputs, clean, found>>

\* getSubscriptions: the cached list, or on a miss the committed rows.
FindSubscriptions(i) ==
    /\ i \in InFlight({"list"}) /\ calls[i].stage = "sent"
    /\ \/ /\ cache # Nil
          /\ calls' = [calls EXCEPT ![i].stage = "done", ![i].got = cache]
          /\ UNCHANGED raced
       \/ /\ cache = Nil
          /\ calls' = [calls EXCEPT ![i].stage = "filling", ![i].got = rows]
          /\ raced' = (raced \/ At("writing") # {})
    /\ UNCHANGED <<rows, cache>> /\ UNCHANGED server

\* Its end after a miss: the rows read are cached; an empty list is not.
SaveCache(i) ==
    /\ i \in At("filling")
    /\ cache' = IF calls[i].got = {} THEN Nil ELSE calls[i].got
    /\ calls' = Stage(i, "done")
    /\ UNCHANGED <<rows, raced>> /\ UNCHANGED server

NoEviction(i) ==               \* mutant: the write leaves the cache
    /\ calls[i].stage = "sent" /\ i \in InFlight(Writes)
    /\ calls' = Stage(i, "writing")
    /\ UNCHANGED <<rows, cache, raced>> /\ UNCHANGED server

\* subscribe and unsubscribe up to the commit: a row that exists already ends
\* a subscribe; two writes of the same row wait for each other in the database.
BeginWrite(i) ==
    /\ i \in InFlight(Writes) /\ calls[i].stage = "sent"
    /\ \A j \in At("writing") : calls[j].arg # calls[i].arg
    /\ \/ /\ calls[i].kind = "add" /\ calls[i].arg \in rows
          /\ calls' = Stage(i, "done")
          /\ UNCHANGED <<cache, raced>>
       \/ /\ calls[i].kind = "drop" \/ calls[i].arg \notin rows
          /\ calls' = Stage(i, "writing")
          /\ cache' = Nil
          /\ raced' = (At("filling") # {})
    /\ UNCHANGED rows /\ UNCHANGED server

CommitWrite(i) ==
    /\ i \in At("writing")
    /\ rows' = IF calls[i].kind = "add" THEN rows \cup {calls[i].arg} ELSE rows \ {calls[i].arg}
    /\ calls' = Stage(i, "done")
    /\ UNCHANGED <<cache, raced>> /\ UNCHANGED server

\* GET /stocks/search: the matching stocks.
FindStocks(i) ==
    /\ i \in InFlight({"search"}) /\ calls[i].stage = "sent"
    /\ calls' = Stage(i, "done")
    /\ UNCHANGED <<rows, cache, raced>> /\ UNCHANGED server

\* The request is lost, refused or rolled back (after the eviction, too), its
\* answer is lost on the way, or the connection breaks while the server works: its
\* handler ends then and the server goes on unheard.
FailCall(i) ==
    /\ \/ /\ calls[i].stage # "error"
          /\ calls' = Stage(i, "error")
       \/ /\ calls[i].kind # "search" /\ calls[i].heard # "none"
          /\ calls' = [calls EXCEPT ![i].heard = "none"]
    /\ UNCHANGED <<rows, cache, raced>> /\ UNCHANGED server

-----------------------------------------------------------------------------
(* The handlers after their await.                                         *)

Ok(i) == calls[i].stage = "done"
Answered(i) == calls[i].stage \in {"done", "error"}
Heard(i) == Ok(i) /\ calls[i].heard = "page"
client == <<open, rows, cache, inputs, raced>>

\* fetchSubscriptions: an answer replaces the list.
ListAnswer(i) ==
    /\ i \in InFlight({"list"}) /\ Answered(i)
    /\ calls' = RemoveAt(calls, i)
    /\ ui' = IF Heard(i) THEN [ui EXCEPT !.stocks = [t \in calls[i].got |-> FALSE]] ELSE ui
    /\ clean' = IF Heard(i) THEN calls[i].alone /\ ~raced ELSE clean
    /\ UNCHANGED found /\ UNCHANGED client

\* handleSubscribe: success clears the box, hides the results, fetches the list.
SubscribeAnswer(i) ==
    /\ i \in InFlight({"add"}) /\ Answered(i)
    /\ ui' = IF Heard(i) THEN SetText([ui EXCEPT !.show = FALSE], NoText) ELSE ui
    /\ LET rest == RemoveAt(calls, i)
       IN  calls' = IF Ok(i) /\ calls[i].heard # "none"
                    THEN Append(rest, [Call("list", Nil, calls[i].heard) EXCEPT
                                         !.alone = (InFlight(Writes) = {i})])
                    ELSE rest
    /\ clean' = FALSE
    /\ UNCHANGED found /\ UNCHANGED client

KeepListed(i) ==               \* mutant: the dropped stock stays in the list
    /\ i \in InFlight({"drop"}) /\ Answered(i)
    /\ calls' = RemoveAt(calls, i)
    /\ clean' = (clean /\ Heard(i))
    /\ UNCHANGED <<ui, found>> /\ UNCHANGED client

\* handleUnsubscribe: success takes the stock from the list and, if it is the
\* selected one, ends the selection.
UnsubscribeAnswer(i) ==
    LET t == calls[i].arg
    IN  /\ i \in InFlight({"drop"}) /\ Answered(i)
        /\ calls' = RemoveAt(calls, i)
        /\ ui' = IF Heard(i)
                 THEN [ui EXCEPT !.stocks = [s \in DOMAIN @ \ {t} |-> @[s]],
                                 !.selected = IF @ # Nil /\ @.ticker = t THEN Nil ELSE @]
                 ELSE ui
        /\ clean' = (clean /\ Heard(i))
        /\ UNCHANGED found /\ UNCHANGED client

\* searchStocks: an answer is shown, whatever the box holds by now.
SearchAnswer(i) ==
    /\ i \in InFlight({"search"}) /\ Answered(i)
    /\ calls' = RemoveAt(calls, i)
    /\ ui' = IF Heard(i) THEN [ui EXCEPT !.results = calls[i].arg, !.show = TRUE] ELSE ui
    /\ found' = IF calls[i].heard # "page" THEN found ELSE Ok(i) /\ calls[i].arg = ui.text
    /\ UNCHANGED clean /\ UNCHANGED client

-----------------------------------------------------------------------------
WatchInit ==
    /\ open = FALSE
    /\ ui = [Fresh EXCEPT !.timer = FALSE]
    /\ calls = <<>>
    /\ rows \in SUBSET Stocks
    /\ cache = Nil
    /\ inputs = 0
    /\ raced = FALSE /\ clean = FALSE /\ found = TRUE

UserStep ==
    \/ \E text \in Queries \cup {NoText} : Type(text)
    \/ Focus
    \/ \E t \in Stocks : HandleSubscribe(t)
    \/ \E t \in Stocks : HandleUnsubscribe(t)
    \/ \E t \in Stocks : SelectStock(t)

SystemStep ==
    \/ SearchStocks
    \/ \E t \in Stocks : StockTick(t)
    \/ \E i \in DOMAIN calls : FindSubscriptions(i)
    \/ \E i \in DOMAIN calls : SaveCache(i)
    \/ \E i \in DOMAIN calls : BeginWrite(i)
    \/ \E i \in DOMAIN calls : CommitWrite(i)
    \/ \E i \in DOMAIN calls : FindStocks(i)
    \/ \E i \in DOMAIN calls : FailCall(i)
    \/ \E i \in DOMAIN calls : ListAnswer(i)
    \/ \E i \in DOMAIN calls : SubscribeAnswer(i)
    \/ \E i \in DOMAIN calls : UnsubscribeAnswer(i)
    \/ \E i \in DOMAIN calls : SearchAnswer(i)

WatchNext == UserStep \/ SystemStep

-----------------------------------------------------------------------------
(* Properties.                                                             *)

\* With no write under way the cache is absent or holds the rows, unless a
\* reader filled it across a write (it reads before the commit and saves after
\* the eviction): evicting is what keeps the cached list true.
CacheHoldsRows == ~raced /\ At("writing") = {} => cache \in {Nil, rows}

\* An idle dashboard lists exactly the subscribed rows, through any unsubscribes
\* since the last list, also ones that overlap, unless one of them failed or its
\* answer was lost, a subscribe was answered and the list it asks for did not come,
\* or that last list was fetched beside a write or from a cache filled across one.
ListIsRows == open /\ clean /\ calls = <<>> => DOMAIN ui.stocks = rows

\* A tick the list shows is never missing from the selected stock that the
\* chart draws.
SelectionKeepsUp ==
    ChartHeader \in DOMAIN ui.stocks => (ListChange(ChartHeader) => PriceChange)

\* With no search under way the results on screen are those of the text in the
\* box, unless a search failed or an answer came for an earlier text.
ResultsMatchText ==
    open /\ found /\ ~ui.timer /\ InFlight({"search"}) = {} =>
        (ResultsShown => ui.results = ui.text)

=============================================================================
