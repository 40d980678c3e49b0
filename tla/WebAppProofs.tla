---------------------------- MODULE WebAppProofs ----------------------------
(***************************************************************************)
(* Proofs about WebApp, for any stocks, texts and numbers of calls: first  *)
(* the watch list within it, then the session.                             *)
(***************************************************************************)
EXTENDS WebApp, SequenceTheorems, TLAPS

-----------------------------------------------------------------------------
(* The inductive invariant.                                                *)

CallRecords ==
    [kind  : {"list", "add", "drop", "search"},
     arg   : Stocks \cup Queries \cup {Nil},
     stage : {"sent", "filling", "writing", "done", "error"},
     got   : {Nil} \cup SUBSET Stocks,
     heard : {"page", "script", "none"},
     alone : BOOLEAN]

\* The calls there can be: only lists fill the cache, only writes are committed.
Calls ==
    {c \in CallRecords :
        /\ c.kind \in Writes => c.arg \in Stocks
        /\ c.kind = "search" => c.arg \in Queries
        /\ c.stage = "writing" => c.kind \in Writes
        /\ c.stage = "filling" => c.kind = "list"
        /\ c.kind = "list" /\ c.stage \in {"filling", "done"} => c.got \in SUBSET Stocks}

UiStates ==
    [stocks   : UNION {[D -> BOOLEAN] : D \in SUBSET Stocks},
     selected : {Nil} \cup [ticker : Stocks, ticked : BOOLEAN],
     text     : Queries \cup {NoText},
     timer    : BOOLEAN,
     results  : Queries \cup {Nil},
     show     : BOOLEAN]

WatchTypes ==
    /\ ui \in UiStates
    /\ calls \in Seq(Calls)
    /\ rows \in SUBSET Stocks
    /\ cache \in {Nil} \cup SUBSET Stocks
    /\ {open, raced, clean, found} \subseteq BOOLEAN

\* A write evicts the cache before it commits, so that without a race there is
\* nothing cached and nobody about to cache while it is under way; afterwards
\* whoever is about to cache has read the rows.
CacheInv ==
    /\ ~raced /\ At("writing") # {} => cache = Nil /\ At("filling") = {}
    /\ ~raced /\ At("writing") = {} =>
          /\ cache \in {Nil, rows}
          /\ \A i \in At("filling") : calls[i].got = rows

SelectionInv ==
    ui.selected # Nil /\ ui.selected.ticker \in DOMAIN ui.stocks =>
        (ui.stocks[ui.selected.ticker] => ui.selected.ticked)

\* The searches that the dashboard still waits for.
Awaited == {i \in InFlight({"search"}) : calls[i].heard = "page"}

SearchInv ==
    open /\ found /\ ~ui.timer /\ Awaited = {} => ui.results \in {Nil, ui.text}

Writers(q) == {i \in DOMAIN q : q[i].kind \in Writes}

\* Of the calls q, a list that no write accompanied is, once read, the rows ro,
\* unless (ra) the cache was filled across a write.
Alone(q, ra, ro) ==
    \A i \in DOMAIN q : q[i].kind = "list" /\ q[i].alone =>
        /\ Writers(q) = {}
        /\ q[i].stage = "done" /\ ~ra => q[i].got = ro

\* A clean list D is the rows ro but for stocks with a write among the calls q; an
\* unsubscribed row is back only with a subscribe still to be answered.
Listed(q, ro, D) ==
    /\ \A t \in (D \ ro) \cup (ro \ D) : \E j \in Writers(q) : q[j].arg = t
    /\ \A j \in Writers(q) : q[j].kind = "drop" /\ q[j].stage = "done" /\ q[j].arg \in ro =>
          \E k \in Writers(q) : q[k].kind = "add" /\ q[k].arg = q[j].arg

ListInv ==
    /\ Alone(calls, raced, rows)
    /\ open /\ clean => Listed(calls, rows, DOMAIN ui.stocks)

WatchInv == WatchTypes /\ CacheInv /\ SelectionInv /\ SearchInv /\ ListInv

\* The steps in which the watch list takes part.
WatchStep == WatchNext \/ MountByRoute \/ MountByLoad

-----------------------------------------------------------------------------
(* Sequences.                                                              *)

\* Removing an element leaves exactly the others.
LEMMA RemoveAtElements ==
    ASSUME NEW S, NEW s \in Seq(S), NEW i \in DOMAIN s
    PROVE  /\ RemoveAt(s, i) \in Seq(S)
           /\ DOMAIN RemoveAt(s, i) = 1..Len(s)-1
           /\ \A j \in DOMAIN RemoveAt(s, i) :
                 RemoveAt(s, i)[j] = IF j < i THEN s[j] ELSE s[j+1]
           /\ \A j \in DOMAIN RemoveAt(s, i) :
                 \E k \in DOMAIN s \ {i} : RemoveAt(s, i)[j] = s[k]
           /\ \A k \in DOMAIN s \ {i} :
                 \E j \in DOMAIN RemoveAt(s, i) : RemoveAt(s, i)[j] = s[k]
<1> DEFINE n == Len(s)
           r == RemoveAt(s, i)
<1>1. n \in Nat /\ DOMAIN s = 1..n /\ i \in 1..n
  OBVIOUS
<1>2. /\ SubSeq(s, 1, i-1) \in Seq(S) /\ Len(SubSeq(s, 1, i-1)) = i - 1
      /\ SubSeq(s, i+1, n) \in Seq(S) /\ Len(SubSeq(s, i+1, n)) = n - i
  BY <1>1
<1>3. r \in Seq(S) /\ Len(r) = n - 1
  BY <1>1, <1>2 DEF RemoveAt
<1>4. ASSUME NEW j \in 1..n-1 PROVE r[j] = IF j < i THEN s[j] ELSE s[j+1]
  <2> DEFINE front == SubSeq(s, 1, i-1)
             back  == SubSeq(s, i+1, n)
  <2>1. \A k \in 1..i-1 : front[k] = s[k] BY <1>1
  <2>2. \A k \in 1..n-i : back[k] = s[i + k] BY <1>1
  <2> HIDE DEF front, back
  <2>3. r = front \o back BY DEF RemoveAt, front, back
  <2>4. r[j] = IF j <= i - 1 THEN front[j] ELSE back[j - (i - 1)]
    <3>1. /\ front \in Seq(S) /\ Len(front) = i - 1
          /\ back \in Seq(S) /\ Len(back) = n - i
      BY <1>2 DEF front, back
    <3>2. j \in 1..Len(front) + Len(back) BY <1>1, <3>1
    <3>3. QED BY <2>3, <3>1, <3>2, ConcatProperties
  <2>5. CASE j < i BY <1>1, <2>1, <2>4, <2>5
  <2>6. CASE ~(j < i)
    <3>1. j - (i - 1) \in 1..n-i /\ i + (j - (i - 1)) = j + 1 /\ ~(j <= i - 1) BY <1>1, <2>6
    <3>2. QED BY <2>2, <2>4, <2>6, <3>1
  <2>7. QED BY <2>5, <2>6
<1>5. DOMAIN r = 1..n-1
  BY <1>1, <1>3
<1> HIDE DEF r
<1>6. ASSUME NEW j \in DOMAIN r PROVE \E k \in DOMAIN s \ {i} : r[j] = s[k]
  <2>1. CASE j < i BY <1>1, <1>4, <1>5, <2>1
  <2>2. CASE ~(j < i)
    <3>1. j + 1 \in DOMAIN s \ {i} /\ r[j] = s[j+1] BY <1>1, <1>4, <1>5, <2>2
    <3>2. QED BY <3>1
  <2>3. QED BY <2>1, <2>2
<1>7. ASSUME NEW k \in DOMAIN s \ {i} PROVE \E j \in DOMAIN r : r[j] = s[k]
  <2>1. CASE k < i
    <3>1. k \in DOMAIN r /\ r[k] = s[k] BY <1>1, <1>4, <1>5, <2>1
    <3>2. QED BY <3>1
  <2>2. CASE ~(k < i)
    <3>1. k - 1 \in DOMAIN r /\ ~(k - 1 < i) /\ (k - 1) + 1 = k BY <1>1, <1>5, <2>2
    <3>2. r[k - 1] = s[k] BY <1>4, <1>5, <3>1
    <3>3. QED BY <3>1, <3>2
  <2>3. QED BY <2>1, <2>2
<1>8. QED BY <1>3, <1>4, <1>5, <1>6, <1>7 DEF r

LEMMA AppendElements ==
    ASSUME NEW S, NEW s \in Seq(S), NEW e \in S
    PROVE  /\ Append(s, e) \in Seq(S)
           /\ DOMAIN Append(s, e) = DOMAIN s \cup {Len(s) + 1}
           /\ \A j \in DOMAIN s : Append(s, e)[j] = s[j]
           /\ Append(s, e)[Len(s) + 1] = e
OBVIOUS

LEMMA ReplaceElement ==
    ASSUME NEW S, NEW s \in Seq(S), NEW i \in DOMAIN s, NEW e \in S
    PROVE  /\ [s EXCEPT ![i] = e] \in Seq(S)
           /\ DOMAIN [s EXCEPT ![i] = e] = DOMAIN s
OBVIOUS

-----------------------------------------------------------------------------
(* Types.                                                                  *)

LEMMA NewCallType ==
    ASSUME NEW kind \in {"list", "add", "drop", "search"}, NEW arg, NEW heard \in {"page", "script"},
           kind = "list" => arg = Nil, kind \in Writes => arg \in Stocks,
           kind = "search" => arg \in Queries
    PROVE  /\ Call(kind, arg, heard) \in Calls
           /\ Call(kind, arg, heard).kind = kind /\ Call(kind, arg, heard).stage = "sent"
           /\ Call(kind, arg, heard).heard = heard /\ Call(kind, arg, heard).arg = arg
BY DEF Call, Calls, CallRecords, Writes

\* Unmounting silences the calls in flight and changes nothing else of them.
LEMMA HushType ==
    ASSUME calls \in Seq(Calls), NEW ears \in {"script", "none"}
    PROVE  /\ Hush(calls, ears) \in Seq(Calls)
           /\ DOMAIN Hush(calls, ears) = DOMAIN calls
           /\ \A j \in DOMAIN calls :
                 /\ Hush(calls, ears)[j].heard # "page"
                 /\ Hush(calls, ears)[j].stage = calls[j].stage
                 /\ Hush(calls, ears)[j].got = calls[j].got
<1> DEFINE h == Hush(calls, ears)
<1>1. DOMAIN h = DOMAIN calls BY DEF Hush
<1>2. ASSUME NEW j \in DOMAIN calls
      PROVE  /\ h[j] \in Calls /\ h[j].heard # "page"
             /\ h[j].stage = calls[j].stage /\ h[j].got = calls[j].got
  <2>1. calls[j] \in Calls OBVIOUS
  <2>2. h[j] = [calls[j] EXCEPT !.heard = IF @ = "none" THEN @ ELSE ears] BY DEF Hush
  <2>3. QED BY <2>1, <2>2 DEF Calls, CallRecords
<1>3. Len(calls) \in Nat /\ DOMAIN calls = 1..Len(calls) OBVIOUS
<1> HIDE DEF h
<1>4. h = [j \in 1..Len(calls) |-> h[j]] BY <1>1, <1>3 DEF h, Hush
<1>5. h \in Seq(Calls) BY <1>2, <1>3, <1>4
<1>6. QED BY <1>1, <1>2, <1>5 DEF h
\* What the user does.
LEMMA UserType ==
    ASSUME WatchTypes, UserStep
    PROVE  WatchTypes'
<1> USE DEF WatchTypes
<1>1. CASE \E text \in Queries \cup {NoText} : Type(text)
  BY <1>1 DEF Type, SetText, UiStates
<1>2. CASE Focus
  BY <1>2 DEF Focus, UiStates
<1>3. ASSUME NEW kind \in Writes, NEW t \in Stocks, SendWrite(kind, t) PROVE WatchTypes'
  <2> DEFINE marked == [i \in DOMAIN calls |-> [calls[i] EXCEPT !.alone = FALSE]]
  <2>1. Call(kind, t, "page") \in Calls BY NewCallType DEF Writes
  <2>2. marked \in Seq(Calls)
    <3>1. \A i \in DOMAIN calls : calls[i] \in Calls OBVIOUS
    <3>2. \A i \in DOMAIN calls : [calls[i] EXCEPT !.alone = FALSE] \in Calls
      BY <3>1 DEF Calls, CallRecords
    <3>3. DOMAIN calls = 1..Len(calls) /\ Len(calls) \in Nat OBVIOUS
    <3>4. QED BY <3>2, <3>3
  <2> HIDE DEF marked
  <2>3. calls' = Append(marked, Call(kind, t, "page")) BY <1>3 DEF SendWrite, marked
  <2>4. calls' \in Seq(Calls) BY <2>1, <2>2, <2>3
  <2>5. clean' \in BOOLEAN /\ UNCHANGED <<open, ui, rows, cache, raced, found>>
    BY <1>3 DEF SendWrite
  <2>6. QED BY <2>4, <2>5
<1>4. CASE \E t \in Stocks : HandleSubscribe(t)
  BY <1>3, <1>4 DEF HandleSubscribe, Writes
<1>5. CASE \E t \in Stocks : HandleUnsubscribe(t)
  BY <1>3, <1>5 DEF HandleUnsubscribe, Writes
<1>6. CASE \E t \in Stocks : SelectStock(t)
  BY <1>6 DEF SelectStock, UiStates
<1>7. QED BY <1>1, <1>2, <1>4, <1>5, <1>6 DEF UserStep

\* What the server does.
LEMMA ServerType ==
    ASSUME WatchTypes, NEW i \in DOMAIN calls,
           \/ FindSubscriptions(i) \/ SaveCache(i) \/ BeginWrite(i)
           \/ CommitWrite(i) \/ FindStocks(i) \/ FailCall(i)
    PROVE  WatchTypes'
<1> USE DEF WatchTypes
<1>1. calls[i] \in Calls OBVIOUS
<1>2. ASSUME NEW c \in Calls PROVE [calls EXCEPT ![i] = c] \in Seq(Calls)
  BY ReplaceElement
<1>3. ASSUME NEW stage PROVE Stage(i, stage) = [calls EXCEPT ![i] = [calls[i] EXCEPT !.stage = stage]]
  BY DEF Stage
<1>4. CASE FindSubscriptions(i)
  <2>1. calls[i].kind = "list" BY <1>4 DEF FindSubscriptions, InFlight
  <2>2. CASE cache # Nil
    <3> DEFINE c == [calls[i] EXCEPT !.stage = "done", !.got = cache]
    <3>1. calls' = [calls EXCEPT ![i] = c] BY <1>4, <2>2 DEF FindSubscriptions
    <3>2. c \in Calls BY <1>1, <2>1, <2>2 DEF Calls, CallRecords, Writes
    <3>3. UNCHANGED <<raced, rows, cache, open, ui, clean, found>>
      BY <1>4, <2>2 DEF FindSubscriptions, server
    <3>4. QED BY <1>2, <3>1, <3>2, <3>3
  <2>3. CASE cache = Nil
    <3> DEFINE c == [calls[i] EXCEPT !.stage = "filling", !.got = rows]
    <3>1. calls' = [calls EXCEPT ![i] = c] BY <1>4, <2>3 DEF FindSubscriptions
    <3>2. c \in Calls BY <1>1, <2>1 DEF Calls, CallRecords, Writes
    <3>3. raced' \in BOOLEAN /\ UNCHANGED <<rows, cache, open, ui, clean, found>>
      BY <1>4, <2>3 DEF FindSubscriptions, server
    <3>4. QED BY <1>2, <3>1, <3>2, <3>3
  <2>4. QED BY <2>2, <2>3
<1>5. CASE SaveCache(i)
  <2>1. calls[i].stage = "filling" /\ calls[i].kind = "list"
    BY <1>1, <1>5 DEF SaveCache, At, Calls
  <2>2. calls[i].got \in SUBSET Stocks BY <1>1, <2>1 DEF Calls
  <2>3. [calls[i] EXCEPT !.stage = "done"] \in Calls
    BY <1>1, <2>1, <2>2 DEF Calls, CallRecords, Writes
  <2>4. calls' \in Seq(Calls) BY <1>2, <1>3, <1>5, <2>3 DEF SaveCache
  <2>5. QED BY <1>5, <2>2, <2>4 DEF SaveCache, server
<1>6. CASE BeginWrite(i)
  <2>1. calls[i].kind \in Writes BY <1>6 DEF BeginWrite, InFlight
  <2>2. /\ [calls[i] EXCEPT !.stage = "done"] \in Calls
        /\ [calls[i] EXCEPT !.stage = "writing"] \in Calls
    BY <1>1, <2>1 DEF Calls, CallRecords, Writes
  <2>3. calls' \in {Stage(i, "done"), Stage(i, "writing")} BY <1>6 DEF BeginWrite
  <2>4. calls' \in Seq(Calls) BY <1>2, <1>3, <2>2, <2>3
  <2>5. cache' \in {cache, Nil} /\ raced' \in BOOLEAN BY <1>6 DEF BeginWrite
  <2>6. QED BY <1>6, <2>4, <2>5 DEF BeginWrite, server
<1>7. CASE CommitWrite(i)
  <2>1. calls[i].kind \in Writes /\ calls[i].arg \in Stocks
    BY <1>1, <1>7 DEF CommitWrite, At, Calls
  <2>2. [calls[i] EXCEPT !.stage = "done"] \in Calls
    BY <1>1, <2>1 DEF Calls, CallRecords, Writes
  <2>3. calls' \in Seq(Calls) BY <1>2, <1>3, <1>7, <2>2 DEF CommitWrite
  <2>4. rows' \in SUBSET Stocks BY <1>7, <2>1 DEF CommitWrite
  <2>5. QED BY <1>7, <2>3, <2>4 DEF CommitWrite, server
<1>8. CASE FindStocks(i)
  <2>1. calls[i].kind = "search" BY <1>8 DEF FindStocks, InFlight
  <2>2. [calls[i] EXCEPT !.stage = "done"] \in Calls
    BY <1>1, <2>1 DEF Calls, CallRecords, Writes
  <2>3. calls' \in Seq(Calls) BY <1>2, <1>3, <1>8, <2>2 DEF FindStocks
  <2>4. QED BY <1>8, <2>3 DEF FindStocks, server
<1>9. CASE FailCall(i)
  <2>1. [calls[i] EXCEPT !.stage = "error"] \in Calls /\ [calls[i] EXCEPT !.heard = "none"] \in Calls
    BY <1>1 DEF Calls, CallRecords, Writes
  <2>2. \/ calls' = [calls EXCEPT ![i] = [calls[i] EXCEPT !.stage = "error"]]
        \/ calls' = [calls EXCEPT ![i] = [calls[i] EXCEPT !.heard = "none"]]
    BY <1>3, <1>9 DEF FailCall
  <2>3. calls' \in Seq(Calls) BY <1>2, <2>1, <2>2
  <2>4. QED BY <1>9, <2>3 DEF FailCall, server
<1>10. QED BY <1>4, <1>5, <1>6, <1>7, <1>8, <1>9

\* What the handlers do with the answers.
LEMMA HandlerType ==
    ASSUME WatchTypes, NEW i \in DOMAIN calls,
           ListAnswer(i) \/ SubscribeAnswer(i) \/ UnsubscribeAnswer(i) \/ SearchAnswer(i)
    PROVE  WatchTypes'
<1> USE DEF WatchTypes
<1>1. calls[i] \in Calls OBVIOUS
<1>2. RemoveAt(calls, i) \in Seq(Calls) BY RemoveAtElements
<1>3. CASE ListAnswer(i)
  <2>1. Heard(i) => calls[i].got \in SUBSET Stocks
    BY <1>1, <1>3 DEF ListAnswer, InFlight, Heard, Ok, Calls
  <2>3. ui' \in UiStates
    <3>1. CASE Heard(i)
      <4>1. ui' = [ui EXCEPT !.stocks = [t \in calls[i].got |-> FALSE]]
        BY <1>3, <3>1 DEF ListAnswer
      <4>2. [t \in calls[i].got |-> FALSE] \in [calls[i].got -> BOOLEAN] OBVIOUS
      <4>3. [t \in calls[i].got |-> FALSE] \in UNION {[D -> BOOLEAN] : D \in SUBSET Stocks}
        BY <2>1, <3>1, <4>2
      <4>4. QED BY <4>1, <4>3 DEF UiStates
    <3>2. CASE ~Heard(i) BY <1>3, <3>2 DEF ListAnswer
    <3>3. QED BY <3>1, <3>2
  <2>4. clean' \in BOOLEAN
    BY <1>1, <1>3 DEF ListAnswer, Calls, CallRecords
  <2>5. QED BY <1>2, <1>3, <2>3, <2>4 DEF ListAnswer, client
<1>4. CASE SubscribeAnswer(i)
  <2>1. ui' \in UiStates BY <1>4 DEF SubscribeAnswer, SetText, UiStates
  <2>2. calls' \in Seq(Calls)
    <3>1. CASE Ok(i) /\ calls[i].heard # "none"
      <4> DEFINE alone == InFlight(Writes) = {i}
                 c == [Call("list", Nil, calls[i].heard) EXCEPT !.alone = alone]
      <4>1. calls[i].heard \in {"page", "script"} BY <1>1, <3>1 DEF Calls, CallRecords
      <4>2. Call("list", Nil, calls[i].heard) \in Calls BY <4>1, NewCallType DEF Writes
      <4> HIDE DEF alone
      <4>3. c \in Calls
        <5>1. alone \in BOOLEAN BY DEF alone
        <5>2. ASSUME NEW d \in Calls PROVE [d EXCEPT !.alone = alone] \in Calls
          BY <5>1 DEF Calls, CallRecords
        <5>3. QED BY <4>2, <5>2
      <4>4. calls' = Append(RemoveAt(calls, i), c) BY <1>4, <3>1 DEF SubscribeAnswer, alone
      <4> HIDE DEF c
      <4>5. QED BY <1>2, <4>3, <4>4
    <3>2. CASE ~(Ok(i) /\ calls[i].heard # "none")
      BY <1>2, <1>4, <3>2 DEF SubscribeAnswer
    <3>3. QED BY <3>1, <3>2
  <2>3. QED BY <1>4, <2>1, <2>2 DEF SubscribeAnswer, client
<1>5. CASE UnsubscribeAnswer(i)
  <2>1. ui' \in UiStates
    <3>1. CASE Heard(i)
      <4> DEFINE t == calls[i].arg
                 left == [s \in DOMAIN ui.stocks \ {t} |-> ui.stocks[s]]
                 sel == IF ui.selected # Nil /\ ui.selected.ticker = t THEN Nil ELSE ui.selected
      <4>1. ui' = [ui EXCEPT !.stocks = left, !.selected = sel]
        BY <1>5, <3>1 DEF UnsubscribeAnswer
      <4>2. PICK D \in SUBSET Stocks : ui.stocks \in [D -> BOOLEAN] BY DEF UiStates
      <4>3. left \in [D \ {t} -> BOOLEAN] BY <4>2
      <4>4. left \in UNION {[E -> BOOLEAN] : E \in SUBSET Stocks} BY <4>3
      <4>5. sel \in {Nil, ui.selected} OBVIOUS
      <4> HIDE DEF left, sel
      <4>6. QED BY <4>1, <4>4, <4>5 DEF UiStates
    <3>2. CASE ~Heard(i) BY <1>5, <3>2 DEF UnsubscribeAnswer
    <3>3. QED BY <3>1, <3>2
  <2>2. clean' \in BOOLEAN BY <1>5 DEF UnsubscribeAnswer, Ok
  <2>3. QED BY <1>2, <1>5, <2>1, <2>2 DEF UnsubscribeAnswer, client
<1>6. CASE SearchAnswer(i)
  <2>1. calls[i].arg \in Queries BY <1>1, <1>6 DEF SearchAnswer, InFlight, Calls
  <2>2. ui' \in UiStates BY <1>6, <2>1 DEF SearchAnswer, UiStates
  <2>3. found' \in BOOLEAN BY <1>6 DEF SearchAnswer, Ok
  <2>4. QED BY <1>2, <1>6, <2>2, <2>3 DEF SearchAnswer, client
<1>7. QED BY <1>3, <1>4, <1>5, <1>6

LEMMA PageType ==
    ASSUME WatchTypes, SearchStocks \/ \E t \in Stocks : StockTick(t)
    PROVE  WatchTypes'
<1> USE DEF WatchTypes
<1>1. CASE SearchStocks
  <2>1. ui' \in UiStates BY <1>1 DEF SearchStocks, UiStates
  <2>2. calls' \in Seq(Calls)
    <3>1. CASE ui.text = NoText
      BY <1>1, <3>1, WatchListAssumption DEF SearchStocks
    <3>2. CASE ui.text # NoText
      <4>1. ui.text \in Queries BY <3>2 DEF UiStates
      <4>2. Call("search", ui.text, "page") \in Calls BY <4>1, NewCallType DEF Writes
      <4>3. calls' = Append(calls, Call("search", ui.text, "page"))
        BY <1>1, <3>2 DEF SearchStocks
      <4>4. QED BY <4>2, <4>3
    <3>3. QED BY <3>1, <3>2
  <2>3. found' \in BOOLEAN BY <1>1 DEF SearchStocks
  <2>4. QED BY <1>1, <2>1, <2>2, <2>3 DEF SearchStocks
<1>2. ASSUME NEW t \in Stocks, StockTick(t) PROVE WatchTypes'
  <2> DEFINE ticked == [s \in DOMAIN ui.stocks |-> ui.stocks[s] \/ s = t]
             sel == IF ui.selected # Nil /\ ui.selected.ticker = t
                    THEN [ui.selected EXCEPT !.ticked = TRUE] ELSE ui.selected
  <2>1. ui' = [ui EXCEPT !.stocks = ticked, !.selected = sel] BY <1>2 DEF StockTick
  <2>2. PICK D \in SUBSET Stocks : ui.stocks \in [D -> BOOLEAN] BY DEF UiStates
  <2>3. ticked \in [D -> BOOLEAN] BY <2>2
  <2>4. ticked \in UNION {[E -> BOOLEAN] : E \in SUBSET Stocks} BY <2>3
  <2>5. sel \in {Nil} \cup [ticker : Stocks, ticked : BOOLEAN] BY DEF UiStates
  <2> HIDE DEF ticked, sel
  <2>6. ui' \in UiStates BY <2>1, <2>4, <2>5 DEF UiStates
  <2>7. QED BY <1>2, <2>6 DEF StockTick
<1>3. QED BY <1>1, <1>2

\* The state of a page just mounted.
LEMMA FreshType ==
    /\ Fresh \in UiStates
    /\ [Fresh EXCEPT !.timer = FALSE] \in UiStates
<1>1. <<>> \in [{} -> BOOLEAN] OBVIOUS
<1>2. {} \in SUBSET Stocks OBVIOUS
<1>3. <<>> \in UNION {[D -> BOOLEAN] : D \in SUBSET Stocks} BY <1>1, <1>2
<1>4. QED BY <1>3 DEF Fresh, UiStates

LEMMA MountType ==
    ASSUME WatchTypes, MountByRoute \/ MountByLoad
    PROVE  WatchTypes'
<1> USE DEF WatchTypes
<1>1. ASSUME NEW q \in Seq(Calls), OpenDashboard(q), UNCHANGED <<rows, cache, raced>>
      PROVE  WatchTypes'
  <2>1. Call("list", Nil, "page") \in Calls BY NewCallType DEF Writes
  <2>2. calls' \in Seq(Calls) BY <1>1, <2>1 DEF OpenDashboard
  <2>3. QED BY <1>1, <2>2, FreshType DEF OpenDashboard
<1>2. ASSUME NEW ears \in {"script", "none"}, CloseDashboard(ears), UNCHANGED <<rows, cache, raced>>
      PROVE  WatchTypes'
  BY <1>2, FreshType, HushType DEF CloseDashboard
<1>3. CASE MountByRoute
  BY <1>1, <1>2, <1>3 DEF MountByRoute, watchVars
<1>4. CASE MountByLoad
  BY <1>1, <1>2, <1>4, HushType DEF MountByLoad
<1>5. QED BY <1>3, <1>4

LEMMA TypesKept ==
    ASSUME WatchTypes, WatchStep
    PROVE  WatchTypes'
<1>1. CASE UserStep BY <1>1, UserType
<1>2. CASE SystemStep BY <1>2, PageType, ServerType, HandlerType DEF SystemStep
<1>3. CASE MountByRoute \/ MountByLoad BY <1>3, MountType
<1>4. QED BY <1>1, <1>2, <1>3 DEF WatchStep, WatchNext
-----------------------------------------------------------------------------
(* The cached list.                                                        *)

Staged(q, stage) == {i \in DOMAIN q : q[i].stage = stage}

\* The calls about to cache a list, or to commit, are the same in q and r.
SameWork(q, r) ==
    \A stage \in {"filling", "writing"} :
        /\ \A j \in Staged(r, stage) : \E i \in Staged(q, stage) : r[j].got = q[i].got
        /\ Staged(q, stage) # {} => Staged(r, stage) # {}

LEMMA RemoveKeepsWork ==
    ASSUME NEW q \in Seq(Calls), NEW i \in DOMAIN q, q[i].stage \notin {"filling", "writing"}
    PROVE  SameWork(q, RemoveAt(q, i))
<1> DEFINE r == RemoveAt(q, i)
<1>1. /\ \A j \in DOMAIN r : \E k \in DOMAIN q \ {i} : r[j] = q[k]
      /\ \A k \in DOMAIN q \ {i} : \E j \in DOMAIN r : r[j] = q[k]
  BY RemoveAtElements
<1> HIDE DEF r
<1>2. ASSUME NEW stage \in {"filling", "writing"}, NEW j \in Staged(r, stage)
      PROVE  \E k \in Staged(q, stage) : r[j].got = q[k].got
  BY <1>1 DEF Staged
<1>3. ASSUME NEW stage \in {"filling", "writing"}, NEW k \in Staged(q, stage)
      PROVE  Staged(r, stage) # {}
  BY <1>1 DEF Staged
<1>4. QED BY <1>2, <1>3 DEF SameWork, r

LEMMA AppendKeepsWork ==
    ASSUME NEW q \in Seq(Calls), NEW c \in Calls, c.stage = "sent"
    PROVE  SameWork(q, Append(q, c))
<1> DEFINE r == Append(q, c)
<1>1. /\ DOMAIN r = DOMAIN q \cup {Len(q) + 1}
      /\ \A j \in DOMAIN q : r[j] = q[j]
      /\ r[Len(q) + 1] = c
  BY AppendElements
<1> HIDE DEF r
<1>2. \A stage \in {"filling", "writing"} : Staged(r, stage) = Staged(q, stage)
  BY <1>1 DEF Staged
<1>3. \A j \in DOMAIN q : r[j].got = q[j].got BY <1>1
<1>4. QED BY <1>2, <1>3 DEF SameWork, Staged, r

LEMMA RelabelKeepsWork ==
    ASSUME NEW q, NEW r, DOMAIN r = DOMAIN q,
           \A j \in DOMAIN q :
              \/ r[j].stage = q[j].stage /\ r[j].got = q[j].got
              \/ {q[j].stage, r[j].stage} \cap {"filling", "writing"} = {}
    PROVE  SameWork(q, r)
<1>1. ASSUME NEW stage \in {"filling", "writing"}
      PROVE  /\ Staged(r, stage) = Staged(q, stage)
             /\ \A j \in Staged(q, stage) : r[j].got = q[j].got
  BY DEF Staged
<1>2. QED BY <1>1 DEF SameWork

LEMMA WorkChains ==
    ASSUME NEW q, NEW r, NEW s, SameWork(q, r), SameWork(r, s)
    PROVE  SameWork(q, s)
<1>1. ASSUME NEW stage \in {"filling", "writing"}, NEW j \in Staged(s, stage)
      PROVE  \E i \in Staged(q, stage) : s[j].got = q[i].got
  <2>1. PICK k \in Staged(r, stage) : s[j].got = r[k].got BY DEF SameWork
  <2>2. PICK i \in Staged(q, stage) : r[k].got = q[i].got BY DEF SameWork
  <2>3. QED BY <2>1, <2>2
<1>2. ASSUME NEW stage \in {"filling", "writing"}, Staged(q, stage) # {}
      PROVE  Staged(s, stage) # {}
  BY <1>2 DEF SameWork
<1>3. QED BY <1>1, <1>2 DEF SameWork

\* A step that leaves the server's work alone keeps the invariant.
LEMMA SameWorkKeepsCache ==
    ASSUME CacheInv, SameWork(calls, calls'), UNCHANGED <<rows, cache, raced>>
    PROVE  CacheInv'
<1>1. /\ At("filling") = Staged(calls, "filling") /\ At("writing") = Staged(calls, "writing")
      /\ At("filling")' = Staged(calls', "filling") /\ At("writing")' = Staged(calls', "writing")
  BY DEF At, Staged
<1>2. /\ \A j \in At("filling")' : \E i \in At("filling") : calls'[j].got = calls[i].got
      /\ At("filling") # {} => At("filling")' # {}
      /\ \A j \in At("writing")' : \E i \in At("writing") : calls'[j].got = calls[i].got
      /\ At("writing") # {} => At("writing")' # {}
  BY <1>1 DEF SameWork
<1>3. At("filling") = {} <=> At("filling")' = {} BY <1>2
<1>4. At("writing") = {} <=> At("writing")' = {} BY <1>2
<1>5. QED BY <1>2, <1>3, <1>4 DEF CacheInv
\* The user, the page and the router only add calls or silence them.
LEMMA PageKeepsWork ==
    ASSUME WatchTypes,
           \/ UserStep \/ SearchStocks \/ MountByRoute \/ MountByLoad
           \/ \E t \in Stocks : StockTick(t)
    PROVE  SameWork(calls, calls') /\ UNCHANGED <<rows, cache, raced>>
<1> calls \in Seq(Calls) BY DEF WatchTypes
<1>1. ASSUME UNCHANGED calls PROVE SameWork(calls, calls')
  BY <1>1, RelabelKeepsWork
<1>2. ASSUME NEW kind \in Writes, NEW t \in Stocks, SendWrite(kind, t)
      PROVE  SameWork(calls, calls') /\ UNCHANGED <<rows, cache, raced>>
  <2> DEFINE marked == [i \in DOMAIN calls |-> [calls[i] EXCEPT !.alone = FALSE]]
  <2>1. \A i \in DOMAIN calls : calls[i] \in Calls OBVIOUS
  <2>2. \A i \in DOMAIN calls : marked[i] \in Calls /\ marked[i].stage = calls[i].stage
                                /\ marked[i].got = calls[i].got
    BY <2>1 DEF Calls, CallRecords
  <2>3. DOMAIN marked = DOMAIN calls OBVIOUS
  <2>4. marked \in Seq(Calls)
    <3>1. DOMAIN calls = 1..Len(calls) /\ Len(calls) \in Nat OBVIOUS
    <3>2. QED BY <2>2, <3>1
  <2> HIDE DEF marked
  <2>5. SameWork(calls, marked) BY <2>2, <2>3, RelabelKeepsWork
  <2>6. /\ Call(kind, t, "page") \in Calls /\ Call(kind, t, "page").stage = "sent"
    BY NewCallType DEF Writes
  <2>7. calls' = Append(marked, Call(kind, t, "page")) BY <1>2 DEF SendWrite, marked
  <2>8. SameWork(marked, calls') BY <2>4, <2>6, <2>7, AppendKeepsWork
  <2>9. QED BY <1>2, <2>5, <2>8, WorkChains DEF SendWrite
<1>3. ASSUME NEW q \in Seq(Calls), SameWork(calls, q), OpenDashboard(q)
      PROVE  SameWork(calls, calls')
  <2>1. Call("list", Nil, "page") \in Calls /\ Call("list", Nil, "page").stage = "sent"
    BY NewCallType DEF Writes
  <2>2. calls' = Append(q, Call("list", Nil, "page")) BY <1>3 DEF OpenDashboard
  <2>3. QED BY <1>3, <2>1, <2>2, AppendKeepsWork, WorkChains
<1>4. ASSUME NEW ears \in {"script", "none"}
      PROVE  Hush(calls, ears) \in Seq(Calls) /\ SameWork(calls, Hush(calls, ears))
  BY HushType, RelabelKeepsWork
<1>5. CASE UserStep
  BY <1>1, <1>2, <1>5 DEF UserStep, Type, Focus, HandleSubscribe, HandleUnsubscribe, SelectStock, Writes
<1>6. CASE SearchStocks
  <2>1. CASE ui.text = NoText BY <1>1, <1>6, <2>1, WatchListAssumption DEF SearchStocks
  <2>2. CASE ui.text # NoText
    <3>1. ui.text \in Queries BY <2>2 DEF WatchTypes, UiStates
    <3>2. /\ Call("search", ui.text, "page") \in Calls
          /\ Call("search", ui.text, "page").stage = "sent"
      BY <3>1, NewCallType DEF Writes
    <3>3. calls' = Append(calls, Call("search", ui.text, "page"))
      BY <1>6, <2>2 DEF SearchStocks
    <3>4. QED BY <1>6, <3>2, <3>3, AppendKeepsWork DEF SearchStocks
  <2>3. QED BY <2>1, <2>2
<1>7. CASE \E t \in Stocks : StockTick(t) BY <1>1, <1>7 DEF StockTick
<1>8. CASE MountByRoute
  <2>1. SameWork(calls, calls) BY RelabelKeepsWork
  <2>2. QED BY <1>1, <1>3, <1>4, <1>8, <2>1 DEF MountByRoute, CloseDashboard, watchVars
<1>9. CASE MountByLoad
  BY <1>3, <1>4, <1>9 DEF MountByLoad, CloseDashboard
<1>10. QED BY <1>5, <1>6, <1>7, <1>8, <1>9

\* So do the handlers, and the server's steps that touch neither rows nor cache.
LEMMA AnswerKeepsWork ==
    ASSUME WatchTypes, NEW i \in DOMAIN calls,
           \/ ListAnswer(i) \/ SubscribeAnswer(i) \/ UnsubscribeAnswer(i) \/ SearchAnswer(i)
           \/ FindStocks(i)
    PROVE  SameWork(calls, calls') /\ UNCHANGED <<rows, cache, raced>>
<1> calls \in Seq(Calls) BY DEF WatchTypes
<1> DEFINE rest == RemoveAt(calls, i)
<1>1. rest \in Seq(Calls) BY RemoveAtElements
<1>2. ASSUME Answered(i) PROVE SameWork(calls, rest)
  BY <1>2, RemoveKeepsWork DEF Answered
<1>3. CASE ListAnswer(i) \/ UnsubscribeAnswer(i) \/ SearchAnswer(i)
  BY <1>2, <1>3 DEF ListAnswer, UnsubscribeAnswer, SearchAnswer, client
<1>4. CASE SubscribeAnswer(i)
  <2>1. UNCHANGED <<rows, cache, raced>> BY <1>4 DEF SubscribeAnswer, client
  <2>2. SameWork(calls, rest) BY <1>2, <1>4 DEF SubscribeAnswer
  <2>3. CASE Ok(i) /\ calls[i].heard # "none"
    <3> DEFINE alone == InFlight(Writes) = {i}
               c == [Call("list", Nil, calls[i].heard) EXCEPT !.alone = alone]
    <3>1. calls' = Append(rest, c) BY <1>4, <2>3 DEF SubscribeAnswer
    <3>2. calls[i].heard \in {"page", "script"} BY <2>3 DEF Calls, CallRecords
    <3>3. /\ Call("list", Nil, calls[i].heard) \in Calls
          /\ Call("list", Nil, calls[i].heard).stage = "sent"
      BY <3>2, NewCallType DEF Writes
    <3>4. alone \in BOOLEAN OBVIOUS
    <3> HIDE DEF alone
    <3>5. ASSUME NEW d \in Calls
          PROVE  /\ [d EXCEPT !.alone = alone] \in Calls
                 /\ [d EXCEPT !.alone = alone].stage = d.stage
      BY <3>4 DEF Calls, CallRecords
    <3>6. c \in Calls /\ c.stage = "sent" BY <3>3, <3>5
    <3> HIDE DEF c, rest
    <3>7. SameWork(rest, calls') BY <1>1, <3>1, <3>6, AppendKeepsWork
    <3>8. QED BY <2>1, <2>2, <3>7, WorkChains
  <2>4. CASE ~(Ok(i) /\ calls[i].heard # "none")
    BY <1>4, <2>1, <2>2, <2>4 DEF SubscribeAnswer
  <2>5. QED BY <2>3, <2>4
<1>5. CASE FindStocks(i)
  <2>1. calls[i] \in Calls /\ calls[i].stage = "sent" BY <1>5 DEF FindStocks
  <2>2. calls' = [calls EXCEPT ![i].stage = "done"] BY <1>5 DEF FindStocks, Stage
  <2>3. DOMAIN calls' = DOMAIN calls /\ \A j \in DOMAIN calls \ {i} : calls'[j] = calls[j]
    BY <2>2
  <2>4. calls'[i].stage = "done" BY <2>1, <2>2 DEF Calls, CallRecords
  <2>5. SameWork(calls, calls') BY <2>1, <2>3, <2>4, RelabelKeepsWork
  <2>6. QED BY <1>5, <2>5 DEF FindStocks, server
<1>6. QED BY <1>3, <1>4, <1>5

LEMMA CacheKept ==
    ASSUME WatchTypes, CacheInv, WatchStep
    PROVE  CacheInv'
<1> calls \in Seq(Calls) BY DEF WatchTypes
<1>1. CASE UserStep \/ SearchStocks \/ MountByRoute \/ MountByLoad \/ \E t \in Stocks : StockTick(t)
  BY <1>1, PageKeepsWork, SameWorkKeepsCache
<1>2. ASSUME NEW i \in DOMAIN calls,
             \/ ListAnswer(i) \/ SubscribeAnswer(i) \/ UnsubscribeAnswer(i) \/ SearchAnswer(i)
             \/ FindStocks(i)
      PROVE  CacheInv'
  BY <1>2, AnswerKeepsWork, SameWorkKeepsCache
<1>3. ASSUME NEW i \in DOMAIN calls, NEW stage \in {"writing", "done"},
             calls' = [calls EXCEPT ![i].stage = stage]
      PROVE  /\ DOMAIN calls' = DOMAIN calls
             /\ calls'[i].stage = stage
             /\ \A j \in DOMAIN calls : calls'[j].got = calls[j].got
             /\ \A j \in DOMAIN calls \ {i} : calls'[j] = calls[j]
  <2>1. calls[i] \in Calls OBVIOUS
  <2>2. QED BY <1>3, <2>1 DEF Calls, CallRecords
<1>4. ASSUME NEW i \in DOMAIN calls, FindSubscriptions(i) PROVE CacheInv'
  <2>1. calls[i] \in Calls /\ calls[i].stage = "sent" BY <1>4 DEF FindSubscriptions
  <2>2. CASE cache # Nil
    <3>1. calls' = [calls EXCEPT ![i].stage = "done", ![i].got = cache]
      BY <1>4, <2>2 DEF FindSubscriptions
    <3>2. DOMAIN calls' = DOMAIN calls /\ \A j \in DOMAIN calls \ {i} : calls'[j] = calls[j]
      BY <3>1
    <3>3. calls'[i].stage = "done" BY <2>1, <3>1 DEF Calls, CallRecords
    <3>4. SameWork(calls, calls') BY <2>1, <3>2, <3>3, RelabelKeepsWork
    <3>5. QED BY <1>4, <2>2, <3>4, SameWorkKeepsCache DEF FindSubscriptions
  <2>3. CASE cache = Nil
    <3>1. /\ calls' = [calls EXCEPT ![i].stage = "filling", ![i].got = rows]
          /\ raced' = (raced \/ At("writing") # {}) /\ UNCHANGED <<rows, cache>>
      BY <1>4, <2>3 DEF FindSubscriptions
    <3>2. DOMAIN calls' = DOMAIN calls /\ \A j \in DOMAIN calls \ {i} : calls'[j] = calls[j]
      BY <3>1
    <3>3. calls'[i].stage = "filling" /\ calls'[i].got = rows
      BY <2>1, <3>1 DEF Calls, CallRecords
    <3>4. At("writing")' = At("writing") BY <2>1, <3>2, <3>3 DEF At
    <3>5. \A j \in At("filling")' \ {i} : j \in At("filling") /\ calls'[j].got = calls[j].got
      BY <3>2 DEF At
    <3>6. QED BY <3>1, <3>3, <3>4, <3>5 DEF CacheInv
  <2>4. QED BY <2>2, <2>3
<1>5. ASSUME NEW i \in DOMAIN calls, SaveCache(i) PROVE CacheInv'
  <2>1. /\ i \in At("filling") /\ calls' = [calls EXCEPT ![i].stage = "done"]
        /\ cache' \in {Nil, calls[i].got} /\ UNCHANGED <<rows, raced>>
    BY <1>5 DEF SaveCache, Stage
  <2>2. At("writing")' = At("writing") /\ At("filling")' = At("filling") \ {i}
    BY <1>3, <2>1 DEF At
  <2>3. \A j \in At("filling")' : calls'[j].got = calls[j].got BY <1>3, <2>1 DEF At
  <2>4. QED BY <2>1, <2>2, <2>3 DEF CacheInv
<1>6. ASSUME NEW i \in DOMAIN calls, BeginWrite(i) PROVE CacheInv'
  <2>1. calls[i].stage = "sent" /\ UNCHANGED rows BY <1>6 DEF BeginWrite
  <2>2. CASE calls' = Stage(i, "done") /\ UNCHANGED <<cache, raced>>
    <3>1. calls' = [calls EXCEPT ![i].stage = "done"] BY <2>2 DEF Stage
    <3>2. /\ DOMAIN calls' = DOMAIN calls /\ calls'[i].stage = "done"
          /\ \A j \in DOMAIN calls \ {i} : calls'[j] = calls[j]
      BY <1>3, <3>1
    <3>3. SameWork(calls, calls') BY <2>1, <3>2, RelabelKeepsWork
    <3>4. QED BY <2>1, <2>2, <3>3, SameWorkKeepsCache
  <2>3. CASE calls' = Stage(i, "writing") /\ cache' = Nil /\ raced' = (At("filling") # {})
    <3>1. At("filling")' = At("filling") BY <1>3, <2>1, <2>3 DEF At, Stage
    <3>2. QED BY <2>3, <3>1 DEF CacheInv
  <2>4. QED BY <1>6, <2>2, <2>3 DEF BeginWrite
<1>7. ASSUME NEW i \in DOMAIN calls, CommitWrite(i) PROVE CacheInv'
  <2>1. /\ i \in At("writing") /\ calls' = [calls EXCEPT ![i].stage = "done"]
        /\ UNCHANGED <<cache, raced>>
    BY <1>7 DEF CommitWrite, Stage
  <2>2. At("filling")' = At("filling") BY <1>3, <2>1 DEF At
  <2>3. ~raced => cache = Nil /\ At("filling") = {} BY <2>1 DEF CacheInv
  <2>4. QED BY <2>1, <2>2, <2>3 DEF CacheInv
<1>8. ASSUME NEW i \in DOMAIN calls, FailCall(i) PROVE CacheInv'
  <2>1. calls[i] \in Calls /\ UNCHANGED <<rows, cache, raced>> BY <1>8 DEF FailCall
  <2>2. \/ calls' = [calls EXCEPT ![i].stage = "error"]
        \/ calls' = [calls EXCEPT ![i].heard = "none"]
    BY <1>8 DEF FailCall, Stage
  <2>3. DOMAIN calls' = DOMAIN calls /\ \A j \in DOMAIN calls \ {i} : calls'[j] = calls[j]
    BY <2>2
  <2>4. calls'[i].got = calls[i].got /\ calls'[i].stage \in {calls[i].stage, "error"}
    BY <2>1, <2>2 DEF Calls, CallRecords
  <2>5. /\ At("filling")' \subseteq At("filling") /\ At("writing")' \subseteq At("writing")
        /\ \A j \in At("filling")' : calls'[j].got = calls[j].got
    BY <2>3, <2>4 DEF At
  <2>6. CASE At("writing") = {} BY <2>1, <2>5, <2>6 DEF CacheInv
  <2>7. CASE At("writing") # {} BY <2>1, <2>5, <2>7 DEF CacheInv
  <2>8. QED BY <2>6, <2>7
<1>9. CASE SystemStep
  BY <1>1, <1>2, <1>4, <1>5, <1>6, <1>7, <1>8, <1>9 DEF SystemStep
<1>10. QED BY <1>1, <1>9 DEF WatchStep, WatchNext
-----------------------------------------------------------------------------
(* The selection and the search.                                           *)

LEMMA SelectionKept ==
    ASSUME WatchTypes, SelectionInv, WatchStep
    PROVE  SelectionInv'
<1>1. ASSUME UNCHANGED <<ui.stocks, ui.selected>> PROVE SelectionInv'
  BY <1>1 DEF SelectionInv
<1>2. ASSUME NEW x \in {Fresh, [Fresh EXCEPT !.timer = FALSE]}, ui' = x PROVE SelectionInv'
  BY <1>2 DEF Fresh, SelectionInv
<1>3. \A w \in UiStates : w.stocks \in UNION {[D -> BOOLEAN] : D \in SUBSET Stocks}
  BY DEF UiStates
<1>4. ui \in UiStates BY DEF WatchTypes
<1>5. CASE UserStep
  <2>1. CASE \E text \in Queries \cup {NoText} : Type(text)
    BY <1>1, <1>4, <2>1 DEF Type, SetText, UiStates
  <2>2. CASE Focus BY <1>1, <1>4, <2>2 DEF Focus, UiStates
  <2>3. CASE \E t \in Stocks : HandleSubscribe(t) \/ HandleUnsubscribe(t)
    BY <1>1, <2>3 DEF HandleSubscribe, HandleUnsubscribe, SendWrite
  <2>4. ASSUME NEW t \in Stocks, SelectStock(t) PROVE SelectionInv'
    <3>1. ui' = [ui EXCEPT !.selected = [ticker |-> t, ticked |-> ui.stocks[t]]]
      BY <2>4 DEF SelectStock
    <3>2. ui'.stocks = ui.stocks /\ ui'.selected = [ticker |-> t, ticked |-> ui.stocks[t]]
      BY <1>4, <3>1 DEF UiStates
    <3>3. QED BY <3>2 DEF SelectionInv
  <2>5. QED BY <1>5, <2>1, <2>2, <2>3, <2>4 DEF UserStep
<1>6. CASE SearchStocks BY <1>1, <1>4, <1>6 DEF SearchStocks, UiStates
<1>7. ASSUME NEW t \in Stocks, StockTick(t) PROVE SelectionInv'
  <2> DEFINE ticked == [s \in DOMAIN ui.stocks |-> ui.stocks[s] \/ s = t]
             sel == IF ui.selected # Nil /\ ui.selected.ticker = t
                    THEN [ui.selected EXCEPT !.ticked = TRUE] ELSE ui.selected
  <2>1. ui' = [ui EXCEPT !.stocks = ticked, !.selected = sel] BY <1>7 DEF StockTick
  <2> HIDE DEF ticked, sel
  <2>2. ui'.stocks = ticked /\ ui'.selected = sel BY <1>4, <2>1 DEF UiStates
  <2>3. ui.selected \in {Nil} \cup [ticker : Stocks, ticked : BOOLEAN] BY <1>4 DEF UiStates
  <2>4. CASE ui.selected # Nil /\ ui.selected.ticker = t
    <3>1. sel.ticked BY <2>3, <2>4 DEF sel
    <3>2. QED BY <2>2, <3>1 DEF SelectionInv
  <2>5. CASE ~(ui.selected # Nil /\ ui.selected.ticker = t)
    <3>1. sel = ui.selected BY <2>5 DEF sel
    <3>2. DOMAIN ticked = DOMAIN ui.stocks
          /\ \A s \in DOMAIN ui.stocks : s # t => ticked[s] = ui.stocks[s]
      <4>1. ASSUME NEW s \in DOMAIN ui.stocks, s # t PROVE ticked[s] = ui.stocks[s]
        <5>1. ui.stocks[s] \in BOOLEAN BY <1>3, <1>4
        <5>2. ticked[s] = (ui.stocks[s] \/ s = t) BY DEF ticked
        <5>3. QED BY <4>1, <5>1, <5>2
      <4>2. QED BY <4>1 DEF ticked
    <3>3. QED BY <2>2, <2>5, <3>1, <3>2 DEF SelectionInv
  <2>6. QED BY <2>4, <2>5
<1>8. ASSUME NEW i \in DOMAIN calls, ListAnswer(i) PROVE SelectionInv'
  <2>1. CASE Heard(i)
    <3>1. ui' = [ui EXCEPT !.stocks = [t \in calls[i].got |-> FALSE]]
      BY <1>8, <2>1 DEF ListAnswer
    <3>2. ui'.stocks = [t \in calls[i].got |-> FALSE] BY <1>4, <3>1 DEF UiStates
    <3>3. QED BY <3>2 DEF SelectionInv
  <2>2. CASE ~Heard(i) BY <1>1, <1>8, <2>2 DEF ListAnswer
  <2>3. QED BY <2>1, <2>2
<1>9. ASSUME NEW i \in DOMAIN calls, UnsubscribeAnswer(i) PROVE SelectionInv'
  <2>1. CASE Heard(i)
    <3> DEFINE t == calls[i].arg
               left == [s \in DOMAIN ui.stocks \ {t} |-> ui.stocks[s]]
               sel == IF ui.selected # Nil /\ ui.selected.ticker = t THEN Nil ELSE ui.selected
    <3>1. ui' = [ui EXCEPT !.stocks = left, !.selected = sel]
      BY <1>9, <2>1 DEF UnsubscribeAnswer
    <3> HIDE DEF left, sel
    <3>2. ui'.stocks = left /\ ui'.selected = sel BY <1>4, <3>1 DEF UiStates
    <3>3. /\ DOMAIN left \subseteq DOMAIN ui.stocks
          /\ \A s \in DOMAIN left : left[s] = ui.stocks[s]
          /\ sel \in {Nil, ui.selected}
      BY DEF left, sel
    <3>4. QED BY <3>2, <3>3 DEF SelectionInv
  <2>2. CASE ~Heard(i) BY <1>1, <1>9, <2>2 DEF UnsubscribeAnswer
  <2>3. QED BY <2>1, <2>2
<1>10. ASSUME NEW i \in DOMAIN calls, SubscribeAnswer(i) \/ SearchAnswer(i) PROVE SelectionInv'
  BY <1>1, <1>4, <1>10 DEF SubscribeAnswer, SearchAnswer, SetText, UiStates
<1>11. ASSUME NEW i \in DOMAIN calls,
              \/ FindSubscriptions(i) \/ SaveCache(i) \/ BeginWrite(i)
              \/ CommitWrite(i) \/ FindStocks(i) \/ FailCall(i)
       PROVE  SelectionInv'
  BY <1>1, <1>11 DEF FindSubscriptions, SaveCache, BeginWrite, CommitWrite, FindStocks, FailCall, server
<1>12. CASE SystemStep
  BY <1>6, <1>7, <1>8, <1>9, <1>10, <1>11, <1>12 DEF SystemStep
<1>13. CASE MountByRoute
  BY <1>1, <1>2, <1>13 DEF MountByRoute, OpenDashboard, CloseDashboard, watchVars
<1>14. CASE MountByLoad
  BY <1>2, <1>14 DEF MountByLoad, OpenDashboard, CloseDashboard
<1>15. QED BY <1>5, <1>12, <1>13, <1>14 DEF WatchStep, WatchNext
Waits(q) == \E i \in DOMAIN q : q[i].kind = "search" /\ q[i].heard = "page"

LEMMA AwaitedMeansWaits == /\ Awaited = {} <=> ~Waits(calls)
                           /\ Awaited' = {} <=> ~Waits(calls')
BY DEF Awaited, Waits, InFlight

\* A step that neither answers an awaited search nor changes text or results.
LEMMA SameSearchKept ==
    ASSUME SearchInv, Waits(calls) => Waits(calls'),
           open' => open, found' => found, ~ui'.timer => ~ui.timer,
           ui'.results = ui.results, ~ui'.timer => ui'.text = ui.text
    PROVE  SearchInv'
BY AwaitedMeansWaits DEF SearchInv

LEMMA RemoveWaits ==
    ASSUME NEW q \in Seq(Calls), NEW i \in DOMAIN q,
           q[i].kind # "search" \/ q[i].heard # "page", Waits(q)
    PROVE  Waits(RemoveAt(q, i))
<1>1. PICK k \in DOMAIN q : q[k].kind = "search" /\ q[k].heard = "page" BY DEF Waits
<1>2. k \in DOMAIN q \ {i} BY <1>1
<1>3. PICK j \in DOMAIN RemoveAt(q, i) : RemoveAt(q, i)[j] = q[k] BY <1>2, RemoveAtElements
<1>4. QED BY <1>1, <1>3 DEF Waits

LEMMA AppendWaits ==
    ASSUME NEW q \in Seq(Calls), NEW c \in Calls,
           Waits(q) \/ (c.kind = "search" /\ c.heard = "page")
    PROVE  Waits(Append(q, c))
<1> DEFINE r == Append(q, c)
<1>1. /\ DOMAIN r = DOMAIN q \cup {Len(q) + 1}
      /\ \A j \in DOMAIN q : r[j] = q[j]
      /\ r[Len(q) + 1] = c
  BY AppendElements
<1> HIDE DEF r
<1>2. Waits(r) BY <1>1 DEF Waits
<1>3. QED BY <1>2 DEF r

LEMMA UserKeepsSearch ==
    ASSUME WatchTypes, SearchInv, UserStep
    PROVE  SearchInv'
<1>1. ui \in UiStates /\ calls \in Seq(Calls) BY DEF WatchTypes
<1>2. CASE \E text \in Queries \cup {NoText} : Type(text)
  <2>1. ui'.timer BY <1>1, <1>2 DEF Type, SetText, UiStates
  <2>2. QED BY <2>1 DEF SearchInv
<1>3. CASE Focus
  <2>1. ui'.timer = ui.timer /\ ui'.text = ui.text /\ ui'.results = ui.results
    BY <1>1, <1>3 DEF Focus, UiStates
  <2>2. QED BY <1>3, <2>1, SameSearchKept DEF Focus
<1>4. ASSUME NEW kind \in Writes, NEW t \in Stocks, SendWrite(kind, t) PROVE SearchInv'
  <2> DEFINE marked == [i \in DOMAIN calls |-> [calls[i] EXCEPT !.alone = FALSE]]
  <2>1. \A i \in DOMAIN calls : calls[i] \in Calls BY <1>1
  <2>2. \A i \in DOMAIN calls : marked[i] \in Calls /\ marked[i].kind = calls[i].kind
                                /\ marked[i].heard = calls[i].heard
    BY <2>1 DEF Calls, CallRecords
  <2>3. DOMAIN marked = DOMAIN calls OBVIOUS
  <2>4. marked \in Seq(Calls)
    <3>1. DOMAIN calls = 1..Len(calls) /\ Len(calls) \in Nat BY <1>1
    <3>2. QED BY <2>2, <3>1
  <2>5. calls' = Append(marked, Call(kind, t, "page")) BY <1>4 DEF SendWrite
  <2> HIDE DEF marked
  <2>6. Waits(calls) => Waits(marked) BY <2>2, <2>3 DEF Waits
  <2>7. Call(kind, t, "page") \in Calls BY NewCallType DEF Writes
  <2>8. Waits(calls) => Waits(calls') BY <2>4, <2>5, <2>6, <2>7, AppendWaits
  <2>9. QED BY <1>4, <2>8, SameSearchKept DEF SendWrite
<1>5. CASE \E t \in Stocks : HandleSubscribe(t) \/ HandleUnsubscribe(t)
  BY <1>4, <1>5 DEF HandleSubscribe, HandleUnsubscribe, Writes
<1>6. CASE \E t \in Stocks : SelectStock(t)
  <2>1. ui'.timer = ui.timer /\ ui'.text = ui.text /\ ui'.results = ui.results
    BY <1>1, <1>6 DEF SelectStock, UiStates
  <2>2. QED BY <1>6, <2>1, SameSearchKept DEF SelectStock
<1>7. QED BY <1>2, <1>3, <1>5, <1>6 DEF UserStep

LEMMA PageKeepsSearch ==
    ASSUME WatchTypes, SearchInv,
           SearchStocks \/ MountByRoute \/ MountByLoad \/ \E t \in Stocks : StockTick(t)
    PROVE  SearchInv'
<1>1. ui \in UiStates /\ calls \in Seq(Calls) BY DEF WatchTypes
<1>2. CASE SearchStocks
  <2>1. CASE ui.text = NoText
    <3>1. ui'.results = Nil
      BY <1>1, <1>2, <2>1, WatchListAssumption DEF SearchStocks, UiStates
    <3>2. QED BY <3>1 DEF SearchInv
  <2>2. CASE ui.text # NoText
    <3>1. ui.text \in Queries BY <1>1, <2>2 DEF UiStates
    <3>2. /\ Call("search", ui.text, "page") \in Calls
          /\ Call("search", ui.text, "page").kind = "search"
          /\ Call("search", ui.text, "page").heard = "page"
      BY <3>1, NewCallType DEF Writes
    <3>3. calls' = Append(calls, Call("search", ui.text, "page"))
      BY <1>2, <2>2 DEF SearchStocks
    <3>4. Waits(calls') BY <1>1, <3>2, <3>3, AppendWaits
    <3>5. QED BY <3>4, AwaitedMeansWaits DEF SearchInv
  <2>3. QED BY <2>1, <2>2
<1>3. CASE \E t \in Stocks : StockTick(t)
  <2>1. ui'.timer = ui.timer /\ ui'.text = ui.text /\ ui'.results = ui.results
    BY <1>1, <1>3 DEF StockTick, UiStates
  <2>2. UNCHANGED <<open, calls, found>> BY <1>3 DEF StockTick
  <2>3. QED BY <2>1, <2>2, SameSearchKept
<1>4. ASSUME NEW q, OpenDashboard(q) PROVE SearchInv'
  BY <1>4 DEF OpenDashboard, Fresh, SearchInv
<1>5. ASSUME NEW ears, CloseDashboard(ears) PROVE SearchInv'
  BY <1>5 DEF CloseDashboard, SearchInv
<1>6. CASE MountByRoute
  <2>1. CASE UNCHANGED watchVars
    BY <2>1, SameSearchKept DEF watchVars
  <2>2. QED BY <1>4, <1>5, <1>6, <2>1 DEF MountByRoute
<1>7. CASE MountByLoad BY <1>4, <1>5, <1>7 DEF MountByLoad
<1>8. QED BY <1>2, <1>3, <1>6, <1>7

LEMMA ServerKeepsSearch ==
    ASSUME WatchTypes, SearchInv, NEW i \in DOMAIN calls,
           \/ FindSubscriptions(i) \/ SaveCache(i) \/ BeginWrite(i)
           \/ CommitWrite(i) \/ FindStocks(i) \/ FailCall(i)
    PROVE  SearchInv'
<1>1. calls[i] \in Calls BY DEF WatchTypes
<1>2. UNCHANGED <<open, ui, found>>
  BY DEF FindSubscriptions, SaveCache, BeginWrite, CommitWrite, FindStocks, FailCall, server
<1>3. \/ calls' = [calls EXCEPT ![i].stage = "done", ![i].got = cache]
      \/ calls' = [calls EXCEPT ![i].stage = "filling", ![i].got = rows]
      \/ \E stage \in {"writing", "done", "error"} : calls' = [calls EXCEPT ![i].stage = stage]
      \/ calls[i].kind # "search" /\ calls' = [calls EXCEPT ![i].heard = "none"]
  BY DEF FindSubscriptions, SaveCache, BeginWrite, CommitWrite, FindStocks, FailCall, Stage
<1>4. DOMAIN calls' = DOMAIN calls /\ \A j \in DOMAIN calls \ {i} : calls'[j] = calls[j]
  BY <1>3
<1>5. /\ calls'[i].kind = calls[i].kind
      /\ calls[i].kind = "search" => calls'[i].heard = calls[i].heard
  BY <1>1, <1>3 DEF Calls, CallRecords
<1>6. Waits(calls) => Waits(calls') BY <1>4, <1>5 DEF Waits
<1>7. QED BY <1>2, <1>6, SameSearchKept

LEMMA HandlerKeepsSearch ==
    ASSUME WatchTypes, SearchInv, NEW i \in DOMAIN calls,
           ListAnswer(i) \/ SubscribeAnswer(i) \/ UnsubscribeAnswer(i) \/ SearchAnswer(i)
    PROVE  SearchInv'
<1> DEFINE rest == RemoveAt(calls, i)
<1>1. ui \in UiStates /\ calls \in Seq(Calls) /\ rest \in Seq(Calls)
  BY RemoveAtElements DEF WatchTypes
<1>2. calls[i] \in Calls BY <1>1
<1>3. calls[i].kind # "search" \/ calls[i].heard # "page" => (Waits(calls) => Waits(rest))
  BY <1>1, RemoveWaits
<1>4. CASE ListAnswer(i) \/ UnsubscribeAnswer(i)
  <2>1. calls[i].kind # "search" /\ calls' = rest
    BY <1>4 DEF ListAnswer, UnsubscribeAnswer, InFlight
  <2>2. ui'.timer = ui.timer /\ ui'.text = ui.text /\ ui'.results = ui.results
    BY <1>1, <1>4 DEF ListAnswer, UnsubscribeAnswer, UiStates
  <2>3. UNCHANGED <<open, found>> BY <1>4 DEF ListAnswer, UnsubscribeAnswer, client
  <2>4. QED BY <1>3, <2>1, <2>2, <2>3, SameSearchKept
<1>5. CASE SubscribeAnswer(i)
  <2>1. calls[i].kind # "search" /\ UNCHANGED <<open, found>>
    BY <1>5 DEF SubscribeAnswer, InFlight, client
  <2>2. /\ ui'.results = ui.results
        /\ ~ui'.timer => ~ui.timer /\ ui'.text = ui.text
    BY <1>1, <1>5 DEF SubscribeAnswer, SetText, UiStates
  <2>3. Waits(calls) => Waits(calls')
    <3>1. CASE Ok(i) /\ calls[i].heard # "none"
      <4> DEFINE alone == InFlight(Writes) = {i}
                 c == [Call("list", Nil, calls[i].heard) EXCEPT !.alone = alone]
      <4>1. calls' = Append(rest, c) BY <1>5, <3>1 DEF SubscribeAnswer
      <4>2. calls[i].heard \in {"page", "script"} BY <1>2, <3>1 DEF Calls, CallRecords
      <4>3. Call("list", Nil, calls[i].heard) \in Calls BY <4>2, NewCallType DEF Writes
      <4>4. alone \in BOOLEAN OBVIOUS
      <4> HIDE DEF alone
      <4>5. ASSUME NEW d \in Calls PROVE [d EXCEPT !.alone = alone] \in Calls
        BY <4>4 DEF Calls, CallRecords
      <4>6. c \in Calls BY <4>3, <4>5
      <4> HIDE DEF c, rest
      <4>7. QED BY <1>1, <1>3, <2>1, <4>1, <4>6, AppendWaits
    <3>2. CASE ~(Ok(i) /\ calls[i].heard # "none")
      BY <1>3, <1>5, <2>1, <3>2 DEF SubscribeAnswer
    <3>3. QED BY <3>1, <3>2
  <2>4. QED BY <2>1, <2>2, <2>3, SameSearchKept
<1>6. CASE SearchAnswer(i)
  <2>1. calls' = rest /\ UNCHANGED open BY <1>6 DEF SearchAnswer, client
  <2>2. CASE calls[i].heard # "page"
    <3>1. UNCHANGED <<ui, found>> BY <1>6, <2>2 DEF SearchAnswer, Heard
    <3>2. QED BY <1>3, <2>1, <2>2, <3>1, SameSearchKept
  <2>3. CASE calls[i].heard = "page"
    <3>1. CASE found'
      <4>1. Ok(i) /\ calls[i].arg = ui.text BY <1>6, <2>3, <3>1 DEF SearchAnswer
      <4>2. ui' = [ui EXCEPT !.results = calls[i].arg, !.show = TRUE]
        BY <1>6, <2>3, <4>1 DEF SearchAnswer, Heard
      <4>3. ui'.results = ui'.text BY <1>1, <4>1, <4>2 DEF UiStates
      <4>4. QED BY <4>3 DEF SearchInv
    <3>2. CASE ~found' BY <3>2 DEF SearchInv
    <3>3. QED BY <3>1, <3>2
  <2>4. QED BY <2>2, <2>3
<1>7. QED BY <1>4, <1>5, <1>6

LEMMA SearchKept ==
    ASSUME WatchTypes, SearchInv, WatchStep
    PROVE  SearchInv'
<1>1. CASE UserStep BY <1>1, UserKeepsSearch
<1>2. CASE SystemStep
  BY <1>2, PageKeepsSearch, ServerKeepsSearch, HandlerKeepsSearch DEF SystemStep
<1>3. CASE MountByRoute \/ MountByLoad BY <1>3, PageKeepsSearch
<1>4. QED BY <1>1, <1>2, <1>3 DEF WatchStep, WatchNext

-----------------------------------------------------------------------------
(* The list.                                                               *)

LEMMA SameWritesKeepListed ==
    ASSUME NEW q, NEW r,
           \A j \in Writers(q) : \E k \in Writers(r) :
              r[k].kind = q[j].kind /\ r[k].arg = q[j].arg,
           \A j \in Writers(r) : r[j].stage = "done" => \E k \in Writers(q) :
              r[j].kind = q[k].kind /\ r[j].arg = q[k].arg /\ q[k].stage = "done",
           NEW ro, NEW D, Listed(q, ro, D)
    PROVE  Listed(r, ro, D)
<1>1. ASSUME NEW t \in (D \ ro) \cup (ro \ D) PROVE \E j \in Writers(r) : r[j].arg = t
  <2>1. PICK j \in Writers(q) : q[j].arg = t BY DEF Listed
  <2>2. QED BY <2>1
<1>2. ASSUME NEW j \in Writers(r), r[j].kind = "drop", r[j].stage = "done", r[j].arg \in ro
      PROVE  \E k \in Writers(r) : r[k].kind = "add" /\ r[k].arg = r[j].arg
  <2>1. PICK k \in Writers(q) : r[j].kind = q[k].kind /\ r[j].arg = q[k].arg /\ q[k].stage = "done"
    BY <1>2
  <2>2. PICK l \in Writers(q) : q[l].kind = "add" /\ q[l].arg = q[k].arg
    BY <1>2, <2>1 DEF Listed
  <2>3. QED BY <2>1, <2>2
<1>3. QED BY <1>1, <1>2 DEF Listed

LEMMA RemoveKeepsList ==
    ASSUME NEW q \in Seq(Calls), NEW i \in DOMAIN q
    PROVE  LET r == RemoveAt(q, i)
           IN  /\ \A ra, ro : Alone(q, ra, ro) => Alone(r, ra, ro)
               /\ i \notin Writers(q) => \A ro, D : Listed(q, ro, D) => Listed(r, ro, D)
               /\ Writers(q) \subseteq {i} => Writers(r) = {}
<1> DEFINE r == RemoveAt(q, i)
           old(j) == IF j < i THEN j ELSE j + 1
<1>1. /\ r \in Seq(Calls) /\ DOMAIN r = 1..Len(q)-1
      /\ \A j \in DOMAIN r : r[j] = IF j < i THEN q[j] ELSE q[j+1]
      /\ \A k \in DOMAIN q \ {i} : \E j \in DOMAIN r : r[j] = q[k]
  BY RemoveAtElements
<1>2. DOMAIN q = 1..Len(q) /\ Len(q) \in Nat /\ i \in 1..Len(q) OBVIOUS
<1> HIDE DEF r
<1>3. ASSUME NEW j \in DOMAIN r PROVE old(j) \in DOMAIN q \ {i} /\ r[j] = q[old(j)]
  BY <1>1, <1>2
<1> HIDE DEF old
<1>4. ASSUME NEW j \in Writers(r) PROVE old(j) \in Writers(q) \ {i} /\ r[j] = q[old(j)]
  BY <1>3 DEF Writers
<1>5. Writers(q) \subseteq {i} => Writers(r) = {} BY <1>4
<1>6. ASSUME NEW ra, NEW ro, Alone(q, ra, ro) PROVE Alone(r, ra, ro)
  BY <1>3, <1>5, <1>6 DEF Alone
<1>7. ASSUME NEW ro, NEW D, Listed(q, ro, D), i \notin Writers(q) PROVE Listed(r, ro, D)
  <2>1. \A k \in Writers(q) : \E j \in Writers(r) : r[j].kind = q[k].kind /\ r[j].arg = q[k].arg
    <3>1. ASSUME NEW k \in Writers(q)
          PROVE  \E j \in Writers(r) : r[j].kind = q[k].kind /\ r[j].arg = q[k].arg
      <4>1. PICK j \in DOMAIN r : r[j] = q[k] BY <1>1, <1>7 DEF Writers
      <4>2. j \in Writers(r) BY <4>1 DEF Writers
      <4>3. QED BY <4>1, <4>2
    <3>2. QED BY <3>1
  <2>2. QED BY <1>4, <1>7, <2>1, SameWritesKeepListed
<1>8. QED BY <1>5, <1>6, <1>7 DEF r

\* A list or a search is sent.
LEMMA AppendKeepsList ==
    ASSUME NEW q \in Seq(Calls), NEW c \in Calls, c.kind \in {"list", "search"}, c.stage = "sent",
           c.kind = "list" /\ c.alone => Writers(q) = {}
    PROVE  LET r == Append(q, c)
           IN  /\ \A ra, ro : Alone(q, ra, ro) => Alone(r, ra, ro)
               /\ \A ro, D : Listed(q, ro, D) => Listed(r, ro, D)
<1> DEFINE r == Append(q, c)
<1>1. /\ DOMAIN r = DOMAIN q \cup {Len(q) + 1}
      /\ \A j \in DOMAIN q : r[j] = q[j]
      /\ r[Len(q) + 1] = c
  BY AppendElements
<1> HIDE DEF r
<1>2. Writers(r) = Writers(q) BY <1>1 DEF Writers, Writes
<1>3. \A j \in Writers(q) : r[j] = q[j] BY <1>1 DEF Writers
<1>4. ASSUME NEW ra, NEW ro, Alone(q, ra, ro) PROVE Alone(r, ra, ro)
  BY <1>1, <1>2, <1>4 DEF Alone
<1>5. ASSUME NEW ro, NEW D, Listed(q, ro, D) PROVE Listed(r, ro, D)
  BY <1>2, <1>3, <1>5, SameWritesKeepListed
<1>6. QED BY <1>4, <1>5 DEF r

\* Nothing but who hears the answers changes.
LEMMA HushKeepsList ==
    ASSUME calls \in Seq(Calls), NEW ears \in {"script", "none"}
    PROVE  /\ Writers(Hush(calls, ears)) = Writers(calls)
           /\ \A ra, ro : Alone(calls, ra, ro) => Alone(Hush(calls, ears), ra, ro)
<1> DEFINE h == Hush(calls, ears)
<1>1. DOMAIN h = DOMAIN calls BY DEF Hush
<1>2. ASSUME NEW j \in DOMAIN calls
      PROVE  /\ h[j].kind = calls[j].kind /\ h[j].alone = calls[j].alone
             /\ h[j].stage = calls[j].stage /\ h[j].got = calls[j].got
  <2>1. calls[j] \in Calls OBVIOUS
  <2>2. h[j] = [calls[j] EXCEPT !.heard = IF @ = "none" THEN @ ELSE ears] BY DEF Hush
  <2>3. QED BY <2>1, <2>2 DEF Calls, CallRecords
<1> HIDE DEF h
<1>3. Writers(h) = Writers(calls) BY <1>1, <1>2 DEF Writers
<1>4. ASSUME NEW ra, NEW ro, Alone(calls, ra, ro) PROVE Alone(h, ra, ro)
  BY <1>1, <1>2, <1>3, <1>4 DEF Alone
<1>5. QED BY <1>3, <1>4 DEF h

LEMMA WritersInFlight == InFlight(Writes) = Writers(calls)
BY DEF InFlight, Writers

\* A step that changes neither calls nor the stocks listed.
LEMMA SameListKept ==
    ASSUME ListInv, UNCHANGED <<calls, rows, raced>>, DOMAIN ui'.stocks = DOMAIN ui.stocks,
           open' => open, clean' => clean
    PROVE  ListInv'
BY DEF ListInv

LEMMA UserKeepsList ==
    ASSUME WatchTypes, ListInv, UserStep
    PROVE  ListInv'
<1>1. ui \in UiStates /\ calls \in Seq(Calls) BY DEF WatchTypes
<1>2. CASE \E text \in Queries \cup {NoText} : Type(text)
  <2>1. ui'.stocks = ui.stocks BY <1>1, <1>2 DEF Type, SetText, UiStates
  <2>2. QED BY <1>2, <2>1, SameListKept DEF Type
<1>3. CASE Focus
  <2>1. ui'.stocks = ui.stocks BY <1>1, <1>3 DEF Focus, UiStates
  <2>2. QED BY <1>3, <2>1, SameListKept DEF Focus
<1>4. CASE \E t \in Stocks : SelectStock(t)
  <2>1. ui'.stocks = ui.stocks BY <1>1, <1>4 DEF SelectStock, UiStates
  <2>2. QED BY <1>4, <2>1, SameListKept DEF SelectStock
<1>5. ASSUME NEW kind \in Writes, NEW t \in Stocks, SendWrite(kind, t) PROVE ListInv'
  <2> DEFINE marked == [i \in DOMAIN calls |-> [calls[i] EXCEPT !.alone = FALSE]]
             c == Call(kind, t, "page")
             r == Append(marked, c)
  <2>1. \A i \in DOMAIN calls : calls[i] \in Calls BY <1>1
  <2>2. \A i \in DOMAIN calls :
           /\ marked[i] \in Calls /\ ~marked[i].alone /\ marked[i].kind = calls[i].kind
           /\ marked[i].arg = calls[i].arg /\ marked[i].stage = calls[i].stage
    BY <2>1 DEF Calls, CallRecords
  <2>3. DOMAIN marked = DOMAIN calls OBVIOUS
  <2>4. marked \in Seq(Calls)
    <3>1. DOMAIN calls = 1..Len(calls) /\ Len(calls) \in Nat BY <1>1
    <3>2. QED BY <2>2, <3>1
  <2>5. c \in Calls /\ c.kind = kind /\ c.stage = "sent" /\ c.heard = "page"
    BY NewCallType DEF Writes
  <2>6. calls' = r /\ UNCHANGED <<open, ui, rows, raced, clean>>
    BY <1>5 DEF SendWrite
  <2> HIDE DEF marked, c
  <2>7. /\ DOMAIN r = DOMAIN marked \cup {Len(marked) + 1}
        /\ \A j \in DOMAIN marked : r[j] = marked[j]
        /\ r[Len(marked) + 1] = c
    BY <2>4, <2>5, AppendElements
  <2> HIDE DEF r
  <2>8. Alone(r, raced, rows)
    <3>1. \A j \in DOMAIN r : ~(r[j].kind = "list" /\ r[j].alone)
      BY <2>2, <2>3, <2>5, <2>7 DEF Writes
    <3>2. QED BY <3>1 DEF Alone
  <2>9. ASSUME open', clean' PROVE Listed(r, rows, DOMAIN ui.stocks)
    <3>1. Listed(calls, rows, DOMAIN ui.stocks) BY <2>6, <2>9 DEF ListInv
    <3>2. \A j \in Writers(calls) :
             j \in Writers(r) /\ r[j].kind = calls[j].kind /\ r[j].arg = calls[j].arg
      BY <2>2, <2>3, <2>7 DEF Writers
    <3>3. \A j \in Writers(r) : r[j].stage = "done" =>
             /\ j \in Writers(calls) /\ calls[j].stage = "done"
             /\ r[j].kind = calls[j].kind /\ r[j].arg = calls[j].arg
      BY <2>2, <2>3, <2>5, <2>7 DEF Writers
    <3>4. QED BY <3>1, <3>2, <3>3, SameWritesKeepListed
  <2>10. QED BY <2>6, <2>8, <2>9 DEF ListInv
<1>6. CASE \E t \in Stocks : HandleSubscribe(t) \/ HandleUnsubscribe(t)
  BY <1>5, <1>6 DEF HandleSubscribe, HandleUnsubscribe, Writes
<1>7. QED BY <1>2, <1>3, <1>4, <1>6 DEF UserStep

LEMMA PageKeepsList ==
    ASSUME WatchTypes, ListInv,
           SearchStocks \/ MountByRoute \/ MountByLoad \/ \E t \in Stocks : StockTick(t)
    PROVE  ListInv'
<1>1. ui \in UiStates /\ calls \in Seq(Calls) BY DEF WatchTypes
<1>2. CASE SearchStocks
  <2>1. ui'.stocks = ui.stocks /\ UNCHANGED <<open, rows, raced, clean>>
    BY <1>1, <1>2 DEF SearchStocks, UiStates
  <2>2. CASE ui.text = NoText
    <3>1. UNCHANGED calls BY <1>2, <2>2, WatchListAssumption DEF SearchStocks
    <3>2. QED BY <2>1, <3>1, SameListKept
  <2>3. CASE ui.text # NoText
    <3>1. ui.text \in Queries BY <1>1, <2>3 DEF UiStates
    <3>2. /\ Call("search", ui.text, "page") \in Calls
          /\ Call("search", ui.text, "page").kind = "search"
          /\ Call("search", ui.text, "page").stage = "sent"
      BY <3>1, NewCallType DEF Writes
    <3>3. calls' = Append(calls, Call("search", ui.text, "page"))
      BY <1>2, <2>3 DEF SearchStocks
    <3>4. QED BY <1>1, <2>1, <3>2, <3>3, AppendKeepsList DEF ListInv
  <2>4. QED BY <2>2, <2>3
<1>3. ASSUME NEW t \in Stocks, StockTick(t) PROVE ListInv'
  <2>1. ui'.stocks = [s \in DOMAIN ui.stocks |-> ui.stocks[s] \/ s = t]
    BY <1>1, <1>3 DEF StockTick, UiStates
  <2>2. UNCHANGED <<open, calls, rows, raced, clean>> BY <1>3 DEF StockTick
  <2>3. QED BY <2>1, <2>2, SameListKept
<1>4. ASSUME NEW q \in Seq(Calls), OpenDashboard(q), UNCHANGED <<rows, raced>>,
             Writers(q) = Writers(calls), Alone(q, raced, rows)
      PROVE  ListInv'
  <2> DEFINE c == Call("list", Nil, "page")
  <2>1. c \in Calls /\ c.kind = "list" /\ c.stage = "sent" BY NewCallType DEF Writes
  <2>2. c.alone => Writers(q) = {} BY <1>4, WritersInFlight DEF Call
  <2>3. calls' = Append(q, c) /\ ~clean' BY <1>4 DEF OpenDashboard
  <2> HIDE DEF c
  <2>4. Alone(calls', raced, rows) BY <1>4, <2>1, <2>2, <2>3, AppendKeepsList
  <2>5. QED BY <1>4, <2>3, <2>4 DEF ListInv
<1>5. ASSUME NEW ears \in {"script", "none"}, CloseDashboard(ears), UNCHANGED <<rows, raced>>
      PROVE  ListInv'
  BY <1>1, <1>5, HushKeepsList DEF CloseDashboard, ListInv
<1>6. CASE MountByRoute
  <2>1. CASE UNCHANGED watchVars BY <2>1, SameListKept DEF watchVars
  <2>2. QED BY <1>1, <1>4, <1>5, <1>6, <2>1 DEF MountByRoute, ListInv
<1>7. CASE MountByLoad
  BY <1>1, <1>4, <1>5, <1>7, HushKeepsList, HushType DEF MountByLoad, ListInv
<1>8. QED BY <1>2, <1>3, <1>6, <1>7

LEMMA ServerKeepsList ==
    ASSUME WatchTypes, CacheInv, ListInv, NEW i \in DOMAIN calls,
           \/ FindSubscriptions(i) \/ SaveCache(i) \/ BeginWrite(i)
           \/ CommitWrite(i) \/ FindStocks(i) \/ FailCall(i)
    PROVE  ListInv'
<1>1. calls[i] \in Calls BY DEF WatchTypes
<1>2. UNCHANGED <<open, ui, clean>>
  BY DEF FindSubscriptions, SaveCache, BeginWrite, CommitWrite, FindStocks, FailCall, server
<1>3. \/ calls' = [calls EXCEPT ![i].stage = "done", ![i].got = cache]
      \/ calls' = [calls EXCEPT ![i].stage = "filling", ![i].got = rows]
      \/ \E stage \in {"writing", "done", "error"} : calls' = [calls EXCEPT ![i].stage = stage]
      \/ calls' = [calls EXCEPT ![i].heard = "none"]
  BY DEF FindSubscriptions, SaveCache, BeginWrite, CommitWrite, FindStocks, FailCall, Stage
<1>4. DOMAIN calls' = DOMAIN calls /\ \A j \in DOMAIN calls \ {i} : calls'[j] = calls[j]
  BY <1>3
<1>5. /\ calls'[i].kind = calls[i].kind
      /\ calls'[i].arg = calls[i].arg /\ calls'[i].alone = calls[i].alone
  BY <1>1, <1>3 DEF Calls, CallRecords
<1>6. Writers(calls') = Writers(calls) BY <1>4, <1>5 DEF Writers
<1>7. Alone(calls, raced, rows) /\ (open /\ clean => Listed(calls, rows, DOMAIN ui.stocks))
  BY DEF ListInv
<1>8. ASSUME calls[i].kind \notin Writes, UNCHANGED rows, raced => raced',
             calls[i].kind = "list" /\ calls[i].alone /\ calls'[i].stage = "done" /\ ~raced
                => calls'[i].got = rows
      PROVE  ListInv'
  <2>1. Alone(calls', raced', rows) BY <1>4, <1>5, <1>6, <1>7, <1>8 DEF Alone
  <2>2. i \notin Writers(calls) BY <1>8 DEF Writers
  <2>3. \A j \in Writers(calls) : calls'[j] = calls[j] BY <1>4, <2>2 DEF Writers
  <2>4. open /\ clean => Listed(calls', rows, DOMAIN ui.stocks)
    BY <1>6, <1>7, <2>3, SameWritesKeepListed
  <2>5. QED BY <1>2, <1>8, <2>1, <2>4 DEF ListInv
<1>9. ASSUME calls[i].kind \in Writes, rows' \ {calls[i].arg} = rows \ {calls[i].arg},
             calls[i].kind = "drop" => rows' \subseteq rows,
             calls[i].kind = "drop" /\ calls'[i].stage = "done" =>
                \/ calls[i].arg \notin rows'
                \/ calls[i].stage = "done" /\ UNCHANGED rows
      PROVE  ListInv'
  <2>1. i \in Writers(calls) BY <1>9 DEF Writers
  <2>2. \A j \in DOMAIN calls : ~(calls[j].kind = "list" /\ calls[j].alone)
    BY <1>7, <2>1 DEF Alone
  <2>3. \A j \in DOMAIN calls' : ~(calls'[j].kind = "list" /\ calls'[j].alone)
    BY <1>4, <1>5, <2>2
  <2>4. Alone(calls', raced', rows') BY <2>3 DEF Alone
  <2>5. \A j \in Writers(calls) :
           j \in DOMAIN calls /\ calls'[j].kind = calls[j].kind /\ calls'[j].arg = calls[j].arg
    BY <1>4, <1>5 DEF Writers
  <2>6. ASSUME open, clean PROVE Listed(calls', rows', DOMAIN ui.stocks)
    <3> DEFINE D == DOMAIN ui.stocks
    <3>1. Listed(calls, rows, D) BY <1>7, <2>6
    <3> HIDE DEF D
    <3>2. ASSUME NEW t \in (D \ rows') \cup (rows' \ D)
          PROVE  \E j \in Writers(calls') : calls'[j].arg = t
      <4>1. CASE t = calls[i].arg BY <1>5, <1>6, <2>1, <4>1
      <4>2. CASE t # calls[i].arg
        <5>1. t \in (D \ rows) \cup (rows \ D) BY <1>9, <3>2, <4>2
        <5>2. PICK j \in Writers(calls) : calls[j].arg = t BY <3>1, <5>1 DEF Listed
        <5>3. QED BY <1>6, <2>5, <5>2
      <4>3. QED BY <4>1, <4>2
    <3>3. ASSUME NEW j \in Writers(calls'), calls'[j].kind = "drop", calls'[j].stage = "done",
                 calls'[j].arg \in rows'
          PROVE  \E k \in Writers(calls') : calls'[k].kind = "add" /\ calls'[k].arg = calls'[j].arg
      <4>1. j \in Writers(calls) /\ calls[j].kind = "drop" /\ calls[j].arg = calls'[j].arg
        BY <1>6, <2>5, <3>3
      <4>2. CASE calls[j].stage = "done" /\ calls[j].arg \in rows
        <5>1. PICK k \in Writers(calls) : calls[k].kind = "add" /\ calls[k].arg = calls[j].arg
          BY <3>1, <4>1, <4>2 DEF Listed
        <5>2. QED BY <1>6, <2>5, <4>1, <5>1
      <4>3. CASE ~(calls[j].stage = "done" /\ calls[j].arg \in rows)
        <5>1. j # i
          <6>1. SUFFICES ASSUME j = i PROVE FALSE OBVIOUS
          <6>2. QED BY <1>9, <3>3, <4>1, <4>3, <6>1
        <5>2. calls'[j] = calls[j] BY <1>4, <4>1, <5>1 DEF Writers
        <5>3. calls[j].arg \notin rows BY <3>3, <4>3, <5>2
        <5>4. calls[j].arg = calls[i].arg /\ calls[i].kind = "add"
          BY <1>9, <3>3, <4>1, <5>3 DEF Writes
        <5>5. QED BY <1>5, <1>6, <2>1, <4>1, <5>4
      <4>4. QED BY <4>2, <4>3
    <3>4. QED BY <3>2, <3>3 DEF Listed, D
  <2>7. QED BY <1>2, <2>4, <2>6 DEF ListInv
<1>10. calls[i].kind = "list" /\ calls[i].alone /\ ~raced =>
          cache \in {Nil, rows} /\ (calls[i].stage = "filling" => calls[i].got = rows)
  <2> SUFFICES ASSUME calls[i].kind = "list", calls[i].alone, ~raced
               PROVE  cache \in {Nil, rows} /\ (calls[i].stage = "filling" => calls[i].got = rows)
    OBVIOUS
  <2>1. Writers(calls) = {} BY <1>7 DEF Alone
  <2>2. \A j \in DOMAIN calls : calls[j].stage = "writing" => calls[j].kind \in Writes
    BY DEF WatchTypes, Calls
  <2>3. At("writing") = {} BY <2>1, <2>2 DEF At, Writers
  <2>4. QED BY <2>3 DEF CacheInv, At
<1>11. CASE FindSubscriptions(i)
  <2>1. calls[i].kind = "list" /\ UNCHANGED rows BY <1>11 DEF FindSubscriptions, InFlight
  <2>2. CASE cache # Nil
    <3>1. calls' = [calls EXCEPT ![i].stage = "done", ![i].got = cache] /\ UNCHANGED raced
      BY <1>11, <2>2 DEF FindSubscriptions
    <3>2. calls'[i].got = cache BY <1>1, <3>1 DEF Calls, CallRecords
    <3>3. QED BY <1>8, <1>10, <2>1, <2>2, <3>1, <3>2 DEF Writes
  <2>3. CASE cache = Nil
    <3>1. /\ calls' = [calls EXCEPT ![i].stage = "filling", ![i].got = rows]
          /\ raced' = (raced \/ At("writing") # {})
      BY <1>11, <2>3 DEF FindSubscriptions
    <3>2. calls'[i].stage = "filling" BY <1>1, <3>1 DEF Calls, CallRecords
    <3>3. QED BY <1>8, <2>1, <3>1, <3>2 DEF Writes
  <2>4. QED BY <2>2, <2>3
<1>12. CASE SaveCache(i)
  <2>1. /\ calls[i].stage = "filling" /\ calls[i].kind = "list" /\ UNCHANGED <<rows, raced>>
        /\ calls' = [calls EXCEPT ![i].stage = "done"]
    BY <1>1, <1>12 DEF SaveCache, At, Stage, Calls
  <2>2. calls'[i].got = calls[i].got BY <1>1, <2>1 DEF Calls, CallRecords
  <2>3. QED BY <1>8, <1>10, <2>1, <2>2 DEF Writes
<1>13. CASE BeginWrite(i)
  <2>1. calls[i].kind \in Writes /\ calls[i].stage = "sent" /\ UNCHANGED rows
    BY <1>13 DEF BeginWrite, InFlight
  <2>2. CASE calls[i].kind = "add"
    BY <1>9, <2>1, <2>2
  <2>3. CASE calls[i].kind # "add"
    <3>1. calls' = [calls EXCEPT ![i].stage = "writing"]
      BY <1>13, <2>3 DEF BeginWrite, Stage
    <3>2. calls'[i].stage = "writing" BY <1>1, <3>1 DEF Calls, CallRecords
    <3>3. QED BY <1>9, <2>1, <3>2
  <2>4. QED BY <2>2, <2>3
<1>14. CASE CommitWrite(i)
  <2>1. /\ calls[i].stage = "writing" /\ calls[i].kind \in Writes
        /\ calls' = [calls EXCEPT ![i].stage = "done"]
    BY <1>1, <1>14 DEF CommitWrite, At, Stage, Calls
  <2>2. calls'[i].stage = "done" BY <1>1, <2>1 DEF Calls, CallRecords
  <2>3. rows' = IF calls[i].kind = "add" THEN rows \cup {calls[i].arg} ELSE rows \ {calls[i].arg}
    BY <1>14 DEF CommitWrite
  <2>4. QED BY <1>9, <2>1, <2>2, <2>3 DEF Writes
<1>15. CASE FindStocks(i)
  BY <1>8, <1>15 DEF FindStocks, InFlight, Writes
<1>16. CASE FailCall(i)
  <2>1. /\ UNCHANGED <<rows, raced>>
        /\ \/ calls' = [calls EXCEPT ![i].stage = "error"]
           \/ calls' = [calls EXCEPT ![i].heard = "none"]
    BY <1>16 DEF FailCall, Stage
  <2>2. /\ calls'[i].stage \in {calls[i].stage, "error"}
        /\ calls'[i].got = calls[i].got
    BY <1>1, <2>1 DEF Calls, CallRecords
  <2>3. CASE calls[i].kind \notin Writes
    <3>1. calls[i].kind = "list" /\ calls[i].alone /\ calls'[i].stage = "done" /\ ~raced =>
             calls'[i].got = rows
      BY <1>7, <2>2 DEF Alone
    <3>2. QED BY <1>8, <2>1, <2>3, <3>1
  <2>4. CASE calls[i].kind \in Writes
    BY <1>9, <2>1, <2>2, <2>4
  <2>5. QED BY <2>3, <2>4
<1>17. QED BY <1>11, <1>12, <1>13, <1>14, <1>15, <1>16

LEMMA HandlerKeepsList ==
    ASSUME WatchTypes, ListInv, NEW i \in DOMAIN calls,
           ListAnswer(i) \/ SubscribeAnswer(i) \/ UnsubscribeAnswer(i) \/ SearchAnswer(i)
    PROVE  ListInv'
<1> DEFINE rest == RemoveAt(calls, i)
<1>1. ui \in UiStates /\ calls \in Seq(Calls) /\ rest \in Seq(Calls)
  BY RemoveAtElements DEF WatchTypes
<1>2. calls[i] \in Calls BY <1>1
<1>3. /\ \A ra, ro : Alone(calls, ra, ro) => Alone(rest, ra, ro)
      /\ i \notin Writers(calls) => \A ro, D : Listed(calls, ro, D) => Listed(rest, ro, D)
      /\ Writers(calls) \subseteq {i} => Writers(rest) = {}
  BY <1>1, RemoveKeepsList
<1>4. Alone(calls, raced, rows) /\ (open /\ clean => Listed(calls, rows, DOMAIN ui.stocks))
  BY DEF ListInv
<1>5. Alone(rest, raced, rows) BY <1>3, <1>4
<1>6. ASSUME Writers(rest) = {} PROVE Listed(rest, rows, rows)
  BY <1>6 DEF Listed
<1>7. /\ \A k \in DOMAIN calls \ {i} : \E j \in DOMAIN rest : rest[j] = calls[k]
      /\ \A j \in DOMAIN rest : \E k \in DOMAIN calls \ {i} : rest[j] = calls[k]
  BY <1>1, RemoveAtElements
<1> HIDE DEF rest
<1>8. UNCHANGED <<open, rows, raced>>
  BY DEF ListAnswer, SubscribeAnswer, UnsubscribeAnswer, SearchAnswer, client
<1>9. CASE ListAnswer(i)
  <2>1. calls[i].kind = "list" /\ calls' = rest BY <1>9 DEF ListAnswer, InFlight, rest
  <2>2. i \notin Writers(calls) BY <2>1 DEF Writers, Writes
  <2>3. CASE Heard(i)
    <3>1. /\ ui' = [ui EXCEPT !.stocks = [t \in calls[i].got |-> FALSE]]
          /\ clean' = (calls[i].alone /\ ~raced) /\ calls[i].stage = "done"
      BY <1>9, <2>3 DEF ListAnswer, Heard, Ok
    <3>2. ui'.stocks = [t \in calls[i].got |-> FALSE] BY <1>1, <3>1 DEF UiStates
    <3>3. DOMAIN ui'.stocks = calls[i].got BY <3>2
    <3>4. clean' => calls[i].got = rows /\ Writers(calls) = {} BY <1>4, <2>1, <3>1 DEF Alone
    <3>5. clean' => Listed(rest, rows, calls[i].got) BY <1>3, <1>6, <3>4
    <3>6. QED BY <1>5, <1>8, <2>1, <3>3, <3>5 DEF ListInv
  <2>4. CASE ~Heard(i)
    <3>1. UNCHANGED <<ui, clean>> BY <1>9, <2>4 DEF ListAnswer
    <3>2. QED BY <1>3, <1>4, <1>5, <1>8, <2>1, <2>2, <3>1 DEF ListInv
  <2>5. QED BY <2>3, <2>4
<1>10. CASE SubscribeAnswer(i)
  <2>1. i \in Writers(calls) /\ calls[i].kind = "add" /\ ~clean'
    BY <1>10 DEF SubscribeAnswer, InFlight, Writers, Writes
  <2>2. Alone(calls', raced, rows)
    <3>1. CASE Ok(i) /\ calls[i].heard # "none"
      <4> DEFINE alone == InFlight(Writes) = {i}
                 c == [Call("list", Nil, calls[i].heard) EXCEPT !.alone = alone]
      <4>1. calls' = Append(rest, c) BY <1>10, <3>1 DEF SubscribeAnswer, rest
      <4>2. calls[i].heard \in {"page", "script"} BY <1>2, <3>1 DEF Calls, CallRecords
      <4>3. /\ Call("list", Nil, calls[i].heard) \in Calls
            /\ Call("list", Nil, calls[i].heard).kind = "list"
            /\ Call("list", Nil, calls[i].heard).stage = "sent"
        BY <4>2, NewCallType DEF Writes
      <4>4. alone \in BOOLEAN /\ (alone => Writers(rest) = {}) BY <1>3, WritersInFlight
      <4> HIDE DEF alone
      <4>5. ASSUME NEW d \in Calls
            PROVE  /\ [d EXCEPT !.alone = alone] \in Calls
                   /\ [d EXCEPT !.alone = alone].kind = d.kind
                   /\ [d EXCEPT !.alone = alone].stage = d.stage
                   /\ [d EXCEPT !.alone = alone].alone = alone
        BY <4>4 DEF Calls, CallRecords
      <4>6. c \in Calls /\ c.kind = "list" /\ c.stage = "sent" /\ c.alone = alone BY <4>3, <4>5
      <4> HIDE DEF c
      <4>7. QED BY <1>1, <1>5, <4>1, <4>4, <4>6, AppendKeepsList
    <3>2. CASE ~(Ok(i) /\ calls[i].heard # "none")
      BY <1>5, <1>10, <3>2 DEF SubscribeAnswer, rest
    <3>3. QED BY <3>1, <3>2
  <2>3. QED BY <1>8, <2>1, <2>2 DEF ListInv
<1>11. CASE UnsubscribeAnswer(i)
  <2>1. /\ i \in Writers(calls) /\ calls[i].kind = "drop"
        /\ calls' = rest /\ clean' = (clean /\ Heard(i))
    BY <1>11 DEF UnsubscribeAnswer, InFlight, Writers, Writes, rest
  <2>2. ASSUME open, clean, Heard(i) PROVE Listed(rest, rows, DOMAIN ui'.stocks)
    <3> DEFINE t == calls[i].arg
               D == DOMAIN ui.stocks
               left == [s \in DOMAIN ui.stocks \ {calls[i].arg} |-> ui.stocks[s]]
               sel == IF ui.selected # Nil /\ ui.selected.ticker = calls[i].arg THEN Nil
                      ELSE ui.selected
    <3>1. ui' = [ui EXCEPT !.stocks = left, !.selected = sel]
      BY <1>11, <2>2 DEF UnsubscribeAnswer
    <3>2. Listed(calls, rows, D) /\ calls[i].stage = "done" BY <1>4, <2>2 DEF Heard, Ok
    <3> HIDE DEF left, sel
    <3>3. ui'.stocks = left BY <1>1, <3>1 DEF UiStates
    <3>4. DOMAIN ui'.stocks = D \ {t} BY <3>3 DEF left
    <3> HIDE DEF D, t
    <3>5. ASSUME NEW k \in Writers(calls), k # i PROVE \E j \in Writers(rest) : rest[j] = calls[k]
      BY <1>7, <3>5 DEF Writers
    <3>6. ASSUME NEW j \in Writers(rest) PROVE \E k \in Writers(calls) \ {i} : rest[j] = calls[k]
      <4>1. j \in DOMAIN rest /\ rest[j].kind \in Writes BY DEF Writers
      <4>2. PICK k \in DOMAIN calls \ {i} : rest[j] = calls[k] BY <1>7, <4>1
      <4>3. k \in Writers(calls) \ {i} BY <4>1, <4>2 DEF Writers
      <4>4. QED BY <4>2, <4>3
    <3>7. ASSUME t \in rows PROVE \E j \in Writers(rest) : rest[j].kind = "add" /\ rest[j].arg = t
      <4>1. PICK k \in Writers(calls) : calls[k].kind = "add" /\ calls[k].arg = t
        BY <2>1, <3>2, <3>7 DEF Listed, t
      <4>2. k # i BY <2>1, <4>1
      <4>3. QED BY <3>5, <4>1, <4>2
    <3>8. ASSUME NEW s \in ((D \ {t}) \ rows) \cup (rows \ (D \ {t}))
          PROVE  \E j \in Writers(rest) : rest[j].arg = s
      <4>1. CASE s = t BY <3>7, <3>8, <4>1
      <4>2. CASE s # t
        <5>1. PICK k \in Writers(calls) : calls[k].arg = s BY <3>2, <3>8, <4>2 DEF Listed
        <5>2. k # i BY <4>2, <5>1 DEF t
        <5>3. QED BY <3>5, <5>1, <5>2
      <4>3. QED BY <4>1, <4>2
    <3>9. ASSUME NEW j \in Writers(rest), rest[j].kind = "drop", rest[j].stage = "done",
                 rest[j].arg \in rows
          PROVE  \E k \in Writers(rest) : rest[k].kind = "add" /\ rest[k].arg = rest[j].arg
      <4>1. PICK k \in Writers(calls) \ {i} : rest[j] = calls[k] BY <3>6
      <4>2. PICK l \in Writers(calls) : calls[l].kind = "add" /\ calls[l].arg = calls[k].arg
        BY <3>2, <3>9, <4>1 DEF Listed
      <4>3. l # i BY <2>1, <4>2
      <4>4. QED BY <3>5, <4>1, <4>2, <4>3
    <3>10. QED BY <3>4, <3>8, <3>9 DEF Listed
  <2>3. QED BY <1>5, <1>8, <2>1, <2>2 DEF ListInv
<1>12. CASE SearchAnswer(i)
  <2>1. i \notin Writers(calls) /\ calls' = rest /\ UNCHANGED clean
    BY <1>12 DEF SearchAnswer, InFlight, Writers, Writes, rest
  <2>2. ui'.stocks = ui.stocks BY <1>1, <1>12 DEF SearchAnswer, UiStates
  <2>3. QED BY <1>3, <1>4, <1>5, <1>8, <2>1, <2>2 DEF ListInv
<1>13. QED BY <1>9, <1>10, <1>11, <1>12

LEMMA ListKept ==
    ASSUME WatchTypes, CacheInv, ListInv, WatchStep
    PROVE  ListInv'
<1>1. CASE UserStep BY <1>1, UserKeepsList
<1>2. CASE SystemStep
  BY <1>2, PageKeepsList, ServerKeepsList, HandlerKeepsList DEF SystemStep
<1>3. CASE MountByRoute \/ MountByLoad BY <1>3, PageKeepsList
<1>4. QED BY <1>1, <1>2, <1>3 DEF WatchStep, WatchNext

-----------------------------------------------------------------------------
(* The theorems.                                                           *)

LEMMA WatchInvInit == Init => WatchInv
<1> SUFFICES ASSUME Init PROVE WatchInv OBVIOUS
<1>1. WatchInit BY DEF Init
<1>2. calls = <<>> /\ DOMAIN calls = {} BY <1>1 DEF WatchInit
<1>3. WatchTypes
  <2>1. calls \in Seq(Calls) BY <1>2
  <2>2. ui \in UiStates BY <1>1, FreshType DEF WatchInit
  <2>3. rows \in SUBSET Stocks /\ cache = Nil /\ {open, raced, clean, found} \subseteq BOOLEAN
    BY <1>1 DEF WatchInit
  <2>4. QED BY <2>1, <2>2, <2>3 DEF WatchTypes
<1>4. CacheInv BY <1>1, <1>2 DEF WatchInit, CacheInv, At
<1>5. SelectionInv BY <1>1 DEF WatchInit, SelectionInv, Fresh
<1>6. SearchInv BY <1>1 DEF WatchInit, SearchInv
<1>7. ListInv BY <1>1, <1>2 DEF WatchInit, ListInv, Alone
<1>8. QED BY <1>3, <1>4, <1>5, <1>6, <1>7 DEF WatchInv

LEMMA WatchInvKept == WatchInv /\ [Next]_webVars => WatchInv'
<1> SUFFICES ASSUME WatchInv, [Next]_webVars PROVE WatchInv' OBVIOUS
<1>1. CASE WatchStep
  BY <1>1, TypesKept, CacheKept, SelectionKept, SearchKept, ListKept DEF WatchInv
<1>2. CASE UNCHANGED watchVars
  BY <1>2 DEF WatchInv, WatchTypes, CacheInv, SelectionInv, SearchInv, ListInv, Awaited, At, InFlight, watchVars
<1>3. QED BY <1>1, <1>2 DEF Next, webVars, WatchStep

\* The inductive invariant of the watch list and the subscription service, under
\* every step of the web application.
THEOREM WatchInvariant == Spec => []WatchInv
BY WatchInvInit, WatchInvKept, PTL DEF Spec

\* CacheHoldsRows: SubscriptionService evicts the cached list before the commit; unless a reader
\* filled it across a write, an absent entry or the committed rows is all that
\* the cache can hold, under any interleaving of requests and losses.
THEOREM CacheIsRows == Spec => []CacheHoldsRows
<1>1. WatchInv => CacheHoldsRows BY DEF WatchInv, CacheInv, CacheHoldsRows
<1>2. QED BY <1>1, WatchInvariant, PTL

\* SelectionKeepsUp: the stock drawn by the chart has every tick its list entry shows, through
\* selecting, unsubscribing and lists fetched in any order.
THEOREM SelectionFollows == Spec => []SelectionKeepsUp
<1>1. WatchInv => SelectionKeepsUp
  <2> SUFFICES ASSUME WatchInv PROVE SelectionKeepsUp OBVIOUS
  <2>1. DOMAIN ui.stocks \subseteq Stocks BY DEF WatchInv, WatchTypes, UiStates
  <2>2. CASE ui.selected = Nil
    BY <2>1, <2>2, WatchListAssumption DEF SelectionKeepsUp, ChartHeader
  <2>3. CASE ui.selected # Nil
    BY <2>3 DEF WatchInv, SelectionInv, SelectionKeepsUp, ChartHeader, ListChange, PriceChange
  <2>4. QED BY <2>2, <2>3
<1>2. QED BY <1>1, WatchInvariant, PTL

\* ResultsMatchText: the debounce and the searches in flight never leave results of another text
\* on an idle page, but for an answer overtaken by a newer text or lost.
THEOREM ResultsFollowText == Spec => []ResultsMatchText
<1>1. WatchInv => ResultsMatchText
  BY DEF WatchInv, SearchInv, Awaited, ResultsMatchText, ResultsShown
<1>2. QED BY <1>1, WatchInvariant, PTL

\* ListIsRows: page.tsx fetches the list only at the mount and after a subscribe; the list
\* of an idle dashboard is still the rows of the server through any unsubscribes since,
\* overlapping or answered in any order, unless one of them failed or its answer was lost,
\* a later subscribe was answered and the list it asks for did not come, or the last list
\* was fetched beside a write or from a cache filled across one.
THEOREM ListShowsRows == Spec => []ListIsRows
<1>1. WatchInv => ListIsRows
  <2> SUFFICES ASSUME WatchInv, open, clean, calls = <<>> PROVE DOMAIN ui.stocks = rows
    BY DEF ListIsRows
  <2>1. Writers(calls) = {} BY DEF Writers
  <2>2. Listed(calls, rows, DOMAIN ui.stocks) BY DEF WatchInv, ListInv
  <2>3. (DOMAIN ui.stocks \ rows) \cup (rows \ DOMAIN ui.stocks) = {} BY <2>1, <2>2 DEF Listed
  <2>4. QED BY <2>3
<1>2. QED BY <1>1, WatchInvariant, PTL

-----------------------------------------------------------------------------
(* The session and the page.                                               *)

\* Where the router can end: on the page asked for or on the login page, and
\* on a guarded page only with both copies of the token.
LEMMA LandedWithToken ==
    ASSUME NEW path \in Pages, NEW ck, NEW st
    PROVE  /\ Land(path, ck, st) \in {path, "login"}
           /\ Land(path, ck, st) = "home" => path = "home" /\ st /\ ck
BY DEF Land, Proxy, Pages

\* Steps that stay on the page leave both copies of the token alone.
LEMMA StayKeepsToken ==
    ASSUME StayStep
    PROVE  UNCHANGED <<page, storage, cookie>>
<1>1. CASE FillForm BY <1>1 DEF FillForm
<1>2. CASE SubmitLogin \/ SubmitSignup
  BY <1>2 DEF SubmitLogin, SubmitSignup, Submit
<1>3. CASE \E i \in DOMAIN auth : LoginFailed(i) \/ SignupFailed(i)
  BY <1>3 DEF LoginFailed, SignupFailed, Failed
<1>4. CASE HandleLogout BY <1>4 DEF HandleLogout
<1>5. CASE \E i \in DOMAIN auth : ReadProfile(i) BY <1>5 DEF ReadProfile
<1>6. CASE \E i \in DOMAIN auth : ProfileAnswer(i) BY <1>6 DEF ProfileAnswer
<1>7. CASE TypeKeys BY <1>7 DEF TypeKeys
<1>8. CASE HandleSaveKisKeys BY <1>8 DEF HandleSaveKisKeys
<1>9. CASE \E i \in DOMAIN auth : SaveAnswer(i) BY <1>9 DEF SaveAnswer
<1>10. QED
  BY <1>1, <1>2, <1>3, <1>4, <1>5, <1>6, <1>7, <1>8, <1>9 DEF StayStep

\* A route step keeps the copies together, and ends on the dashboard only with
\* the token stored.
LEMMA RouteKeepsToken ==
    ASSUME RouteStep, GuardAgreesWithPages
    PROVE  /\ GuardAgreesWithPages'
           /\ page' = "home" => storage'
<1> USE DEF GuardAgreesWithPages
<1>1. CASE \E path \in Pages : FollowLink(path)
  <2>1. PICK path \in Pages : FollowLink(path) BY <1>1
  <2>2. page' = Land(path, cookie, storage) /\ UNCHANGED <<storage, cookie>>
    BY <2>1 DEF FollowLink, Goto
  <2>3. QED BY <2>2, LandedWithToken
<1>2. CASE \E i \in DOMAIN auth : LoggedIn(i)
  BY <1>2 DEF LoggedIn
<1>3. CASE \E i \in DOMAIN auth : SignedUp(i)
  <2>1. page' = Land("login", cookie, storage) /\ UNCHANGED <<storage, cookie>>
    BY <1>3 DEF SignedUp, Goto
  <2>2. QED BY <2>1 DEF Land, Proxy
<1>4. CASE \E i \in DOMAIN auth : LoggedOut(i)
  <2>1. page' = Land("login", FALSE, FALSE) /\ ~cookie'
    BY <1>4 DEF LoggedOut, Goto
  <2>2. QED BY <2>1 DEF Land, Proxy
<1>5. CASE \E i \in DOMAIN auth : ProfileRefused(i)
  <2>1. page' = Land("login", cookie, storage) /\ UNCHANGED <<storage, cookie>>
    BY <1>5 DEF ProfileRefused, Goto
  <2>2. QED BY <2>1 DEF Land, Proxy
<1>6. QED BY <1>1, <1>2, <1>3, <1>4, <1>5 DEF RouteStep

LEMMA LoadKeepsToken ==
    ASSUME LoadStep, GuardAgreesWithPages
    PROVE  /\ GuardAgreesWithPages'
           /\ page' = "home" => storage'
<1> USE DEF GuardAgreesWithPages
<1>1. CASE \E path \in Pages : LoadPage(path)
  <2>1. PICK path \in Pages : LoadPage(path) BY <1>1
  <2>2. page' = Land(path, cookie, storage) /\ UNCHANGED <<storage, cookie>>
    BY <2>1 DEF LoadPage
  <2>3. QED BY <2>2, LandedWithToken
<1>2. CASE Restart
  <2>1. page' = "login" /\ ~cookie' BY <1>2 DEF Restart, Land, Proxy
  <2>2. QED BY <2>1
<1>3. QED BY <1>1, <1>2 DEF LoadStep

\* Nothing the dashboard does while it is shown, or its calls after it is gone,
\* connects or closes the stream.
LEMMA WatchKeepsOpen ==
    ASSUME WatchNext
    PROVE  UNCHANGED open
<1>1. CASE UserStep
  BY <1>1 DEF UserStep, Type, Focus, HandleSubscribe, HandleUnsubscribe, SendWrite, SelectStock
<1>2. CASE SystemStep
  BY <1>2 DEF SystemStep, SearchStocks, StockTick, FindSubscriptions, SaveCache, BeginWrite,
              CommitWrite, FindStocks, FailCall, ListAnswer, SubscribeAnswer,
              UnsubscribeAnswer, SearchAnswer, server, client
<1>3. QED BY <1>1, <1>2 DEF WatchNext

LEMMA MountFollowsPage ==
    ASSUME MountByRoute \/ MountByLoad, open = (page = "home")
    PROVE  open' = (page' = "home")
<1>1. CASE MountByRoute
  BY <1>1 DEF MountByRoute, OpenDashboard, CloseDashboard, watchVars
<1>2. CASE MountByLoad
  BY <1>2 DEF MountByLoad, OpenDashboard, CloseDashboard
<1>3. QED BY <1>1, <1>2

\* SessionAgrees: the tick stream is connected exactly on the dashboard and only with a stored
\* token, and the cookie never outlives the token: through every order of
\* logins, logouts, refused profiles, page loads and browser restarts.
THEOREM SessionAgreement == Spec => []SessionAgrees
<1>1. Init => SessionAgrees
  BY DEF Init, SessionInit, WatchInit, SessionAgrees, GuardAgreesWithPages
<1>2. SessionAgrees /\ [Next]_webVars => SessionAgrees'
  <2> SUFFICES ASSUME SessionAgrees, [Next]_webVars PROVE SessionAgrees'
    OBVIOUS
  <2> USE DEF SessionAgrees
  <2>1. CASE StayStep /\ UNCHANGED watchVars
    BY <2>1, StayKeepsToken DEF watchVars, GuardAgreesWithPages
  <2>2. CASE RouteStep /\ MountByRoute
    BY <2>2, RouteKeepsToken, MountFollowsPage
  <2>3. CASE LoadStep /\ MountByLoad
    BY <2>3, LoadKeepsToken, MountFollowsPage
  <2>4. CASE WatchNext /\ UNCHANGED sessionVars
    BY <2>4, WatchKeepsOpen DEF sessionVars, GuardAgreesWithPages
  <2>5. CASE UNCHANGED webVars
    BY <2>5 DEF webVars, sessionVars, watchVars, GuardAgreesWithPages
  <2>6. QED BY <2>1, <2>2, <2>3, <2>4, <2>5 DEF Next
<1>3. QED BY <1>1, <1>2, PTL DEF Spec

-----------------------------------------------------------------------------
(* The profile page.                                                       *)

AuthCalls ==
    [kind : {"login", "signup", "logout", "profile", "save"}, here : BOOLEAN,
     got : {None} \cup BOOLEAN]

Profiles ==
    [loading : BOOLEAN, has : {None} \cup BOOLEAN, typed : BOOLEAN, saving : BOOLEAN,
     msg : {None, "success", "error"}]

Shown(q, kind) == {i \in DOMAIN q : q[i].here /\ q[i].kind = kind}

\* A profile page has one profile request in flight while it is loading and
\* none afterwards; until then nothing can be saved on it.
Settled(q, x) ==
    /\ Shown(q, "profile") # {} => x.loading
    /\ \A i, j \in Shown(q, "profile") : i = j
    /\ Shown(q, "save") # {} => ~x.loading

PageSays(x) ==
    /\ x.loading => ~x.typed /\ x.msg = None
    /\ x.msg = "success" /\ x.has # None => x.has = TRUE

ProfileInv ==
    /\ auth \in Seq(AuthCalls) /\ prof \in Profiles /\ hasKey \in BOOLEAN
    /\ Settled(auth, prof)
    /\ PageSays(prof)

LEMMA RemoveSettled ==
    ASSUME NEW q \in Seq(AuthCalls), NEW i \in DOMAIN q, NEW x, Settled(q, x)
    PROVE  /\ RemoveAt(q, i) \in Seq(AuthCalls)
           /\ Settled(RemoveAt(q, i), x)
           /\ i \in Shown(q, "profile") => Shown(RemoveAt(q, i), "profile") = {}
<1> DEFINE r == RemoveAt(q, i)
           old(j) == IF j < i THEN j ELSE j + 1
<1>1. /\ r \in Seq(AuthCalls) /\ DOMAIN r = 1..Len(q)-1
      /\ \A j \in DOMAIN r : r[j] = IF j < i THEN q[j] ELSE q[j+1]
  BY RemoveAtElements
<1>2. DOMAIN q = 1..Len(q) /\ Len(q) \in Nat /\ i \in 1..Len(q) OBVIOUS
<1> HIDE DEF r
<1>3. ASSUME NEW j \in DOMAIN r PROVE old(j) \in DOMAIN q \ {i} /\ r[j] = q[old(j)]
  BY <1>1, <1>2
<1>4. ASSUME NEW j \in DOMAIN r, NEW k \in DOMAIN r, old(j) = old(k) PROVE j = k
  BY <1>1, <1>2, <1>4
<1> HIDE DEF old
<1>5. ASSUME NEW kind, NEW j \in Shown(r, kind) PROVE old(j) \in Shown(q, kind) \ {i}
  BY <1>3 DEF Shown
<1>6. \A j, k \in Shown(r, "profile") : j = k
  BY <1>4, <1>5 DEF Settled, Shown
<1>7. Shown(r, "profile") # {} => Shown(q, "profile") # {} BY <1>5
<1>8. Shown(r, "save") # {} => Shown(q, "save") # {} BY <1>5
<1>9. i \in Shown(q, "profile") => Shown(r, "profile") = {}
  BY <1>5 DEF Settled
<1>10. QED BY <1>1, <1>6, <1>7, <1>8, <1>9 DEF Settled, r

LEMMA AppendSettled ==
    ASSUME NEW q \in Seq(AuthCalls), NEW x, Settled(q, x),
           NEW kind \in {"login", "signup", "logout", "save"}, kind = "save" => ~x.loading
    PROVE  LET r == Append(q, [kind |-> kind, here |-> TRUE, got |-> None])
           IN  r \in Seq(AuthCalls) /\ Settled(r, x)
<1> DEFINE c == [kind |-> kind, here |-> TRUE, got |-> None]
           r == Append(q, c)
<1>1. c \in AuthCalls BY DEF AuthCalls
<1>2. c.kind = kind OBVIOUS
<1> HIDE DEF c
<1>3. /\ r \in Seq(AuthCalls)
      /\ DOMAIN r = DOMAIN q \cup {Len(q) + 1}
      /\ \A j \in DOMAIN q : r[j] = q[j]
      /\ r[Len(q) + 1] = c
  BY <1>1, AppendElements
<1> HIDE DEF r
<1>4. Shown(r, "profile") = Shown(q, "profile") BY <1>2, <1>3 DEF Shown
<1>5. Shown(r, "save") # {} => Shown(q, "save") # {} \/ kind = "save" BY <1>2, <1>3 DEF Shown
<1>6. Settled(r, x) BY <1>4, <1>5 DEF Settled
<1>7. QED BY <1>3, <1>6 DEF r, c

LEMMA NewProfileFits == NewProfile \in Profiles /\ PageSays(NewProfile) /\ NewProfile.loading
BY SessionAssumption DEF NewProfile, Profiles, PageSays

\* The one request of a profile page just entered.
LEMMA EnteredSettled ==
    ASSUME NEW q \in Seq(AuthCalls), \A j \in DOMAIN q : ~q[j].here
    PROVE  LET r == Append(q, [kind |-> "profile", here |-> TRUE, got |-> None])
           IN  /\ r \in Seq(AuthCalls) /\ Settled(r, NewProfile)
               /\ Settled(q, NewProfile)
<1> DEFINE c == [kind |-> "profile", here |-> TRUE, got |-> None]
           r == Append(q, c)
<1>1. c \in AuthCalls BY DEF AuthCalls
<1>2. c.kind = "profile" OBVIOUS
<1> HIDE DEF c
<1>3. /\ r \in Seq(AuthCalls)
      /\ DOMAIN r = DOMAIN q \cup {Len(q) + 1}
      /\ \A j \in DOMAIN q : r[j] = q[j]
      /\ r[Len(q) + 1] = c
  BY <1>1, AppendElements
<1> HIDE DEF r
<1>4. Shown(r, "profile") \subseteq {Len(q) + 1} BY <1>3 DEF Shown
<1>5. Shown(r, "save") = {} BY <1>2, <1>3 DEF Shown
<1>6. Shown(q, "profile") = {} /\ Shown(q, "save") = {} BY DEF Shown
<1>7. QED BY <1>3, <1>4, <1>5, <1>6, NewProfileFits DEF Settled, r, c

LEMMA EmptySettled == /\ <<>> \in Seq(AuthCalls)
                      /\ \A x : Settled(<<>>, x)
                      /\ \A j \in DOMAIN <<>> : ~(<<>>[j]).here
BY DEF Settled, Shown

\* The router: a page left forgets its calls, a page kept keeps them.
LEMMA GotoSettled ==
    ASSUME NEW path, NEW ck, NEW st, NEW q \in Seq(AuthCalls), Goto(path, ck, st, q),
           prof \in Profiles, Settled(q, prof), PageSays(prof)
    PROVE  /\ auth' \in Seq(AuthCalls) /\ prof' \in Profiles
           /\ Settled(auth', prof') /\ PageSays(prof')
<1> DEFINE p == Land(path, ck, st)
           away == [i \in DOMAIN q |-> [q[i] EXCEPT !.here = FALSE]]
<1>1. CASE p = page BY <1>1 DEF Goto
<1>2. CASE p # page
  <2>1. \A i \in DOMAIN q : q[i] \in AuthCalls OBVIOUS
  <2>2. \A i \in DOMAIN q : away[i] \in AuthCalls /\ ~away[i].here BY <2>1 DEF AuthCalls
  <2>3. DOMAIN away = DOMAIN q OBVIOUS
  <2>4. away \in Seq(AuthCalls)
    <3>1. DOMAIN q = 1..Len(q) /\ Len(q) \in Nat OBVIOUS
    <3>2. QED BY <2>2, <3>1
  <2>5. /\ prof' = NewProfile
        /\ auth' = IF p = "profile"
                   THEN Append(away, [kind |-> "profile", here |-> TRUE, got |-> None])
                   ELSE away
    BY <1>2 DEF Goto
  <2> HIDE DEF away, p
  <2>6. QED BY <2>2, <2>3, <2>4, <2>5, EnteredSettled, NewProfileFits
<1>3. QED BY <1>1, <1>2

LEMMA StayKeepsProfile ==
    ASSUME ProfileInv, StayStep
    PROVE  ProfileInv'
<1> USE DEF ProfileInv
<1>1. \A i \in DOMAIN auth : auth[i] \in AuthCalls OBVIOUS
<1>2. \A i \in DOMAIN auth : Rest(i) \in Seq(AuthCalls) /\ Settled(Rest(i), prof)
  BY RemoveSettled DEF Rest
<1>3. CASE FillForm BY <1>3 DEF FillForm
<1>4. CASE SubmitLogin \/ SubmitSignup
  BY <1>4, AppendSettled DEF SubmitLogin, SubmitSignup, Submit, AuthCall
<1>5. CASE \E i \in DOMAIN auth : LoginFailed(i) \/ SignupFailed(i)
  BY <1>2, <1>5 DEF LoginFailed, SignupFailed, Failed
<1>6. CASE HandleLogout BY <1>6, AppendSettled DEF HandleLogout, AuthCall
<1>7. ASSUME NEW i \in DOMAIN auth, ReadProfile(i) PROVE ProfileInv'
  <2>1. auth' = [auth EXCEPT ![i].got = hasKey] /\ UNCHANGED <<prof, hasKey>>
    BY <1>7 DEF ReadProfile
  <2>2. [auth[i] EXCEPT !.got = hasKey] \in AuthCalls BY <1>1 DEF AuthCalls
  <2>3. auth' = [auth EXCEPT ![i] = [auth[i] EXCEPT !.got = hasKey]] BY <2>1
  <2>4. auth' \in Seq(AuthCalls) /\ DOMAIN auth' = DOMAIN auth BY <2>2, <2>3, ReplaceElement
  <2>5. \A j \in DOMAIN auth : auth'[j].here = auth[j].here /\ auth'[j].kind = auth[j].kind
    BY <1>1, <2>1 DEF AuthCalls
  <2>6. Shown(auth', "profile") = Shown(auth, "profile") /\ Shown(auth', "save") = Shown(auth, "save")
    BY <2>4, <2>5 DEF Shown
  <2>7. QED BY <2>1, <2>4, <2>6 DEF Settled
<1>8. ASSUME NEW i \in DOMAIN auth, ProfileAnswer(i) PROVE ProfileInv'
  <2>1. auth' = Rest(i) /\ auth[i].kind = "profile" /\ auth[i].got # None /\ UNCHANGED hasKey
    BY <1>8 DEF ProfileAnswer, AnswerOf
  <2>2. CASE ~auth[i].here BY <1>2, <1>8, <2>1, <2>2 DEF ProfileAnswer
  <2>3. CASE auth[i].here
    <3>1. i \in Shown(auth, "profile") BY <2>1, <2>3 DEF Shown
    <3>2. prof.loading /\ prof.msg = None /\ Shown(auth, "save") = {}
      BY <3>1 DEF Settled, PageSays
    <3>3. PICK has \in {prof.has, auth[i].got} :
             prof' = [prof EXCEPT !.loading = FALSE, !.has = has]
      BY <1>8, <2>3 DEF ProfileAnswer
    <3>4. has \in {None} \cup BOOLEAN BY <1>1 DEF AuthCalls, Profiles
    <3>5. prof' \in Profiles /\ ~prof'.loading /\ prof'.msg = None
      BY <3>2, <3>3, <3>4 DEF Profiles
    <3>6. Shown(auth', "profile") = {} BY <2>1, <3>1, RemoveSettled DEF Rest
    <3>7. Settled(auth', prof') BY <3>5, <3>6 DEF Settled
    <3>8. PageSays(prof') BY <3>5, SessionAssumption DEF PageSays
    <3>9. QED BY <1>2, <2>1, <3>5, <3>7, <3>8
  <2>4. QED BY <2>2, <2>3
<1>9. CASE TypeKeys
  <2>1. ~prof.loading /\ prof' = [prof EXCEPT !.typed = TRUE] /\ UNCHANGED <<auth, hasKey>>
    BY <1>9 DEF TypeKeys, ProfileShown
  <2>2. /\ prof' \in Profiles /\ ~prof'.loading /\ prof'.msg = prof.msg /\ prof'.has = prof.has
    BY <2>1 DEF Profiles
  <2>3. QED BY <2>1, <2>2 DEF Settled, PageSays
<1>10. CASE HandleSaveKisKeys
  <2>1. ~prof.loading BY <1>10 DEF HandleSaveKisKeys, ProfileForm, PageSays
  <2>2. prof' = [prof EXCEPT !.saving = TRUE, !.msg = None] /\ UNCHANGED hasKey
    BY <1>10 DEF HandleSaveKisKeys
  <2>3. prof' \in Profiles /\ ~prof'.loading /\ prof'.msg = None BY <2>1, <2>2 DEF Profiles
  <2>4. Settled(auth, prof') BY <2>1, <2>3 DEF Settled
  <2>5. auth' \in Seq(AuthCalls) /\ Settled(auth', prof')
    BY <1>10, <2>3, <2>4, AppendSettled DEF HandleSaveKisKeys, AuthCall
  <2>6. PageSays(prof') BY <2>3, SessionAssumption DEF PageSays
  <2>7. QED BY <2>2, <2>3, <2>5, <2>6
<1>11. ASSUME NEW i \in DOMAIN auth, SaveAnswer(i) PROVE ProfileInv'
  <2>1. auth' = Rest(i) /\ auth[i].kind = "save" /\ hasKey' \in BOOLEAN
    BY <1>11 DEF SaveAnswer, AnswerOf
  <2>2. CASE ~auth[i].here
    <3>1. UNCHANGED prof BY <1>11, <2>2 DEF SaveAnswer
    <3>2. QED BY <1>2, <2>1, <3>1
  <2>3. CASE auth[i].here
    <3>1. i \in Shown(auth, "save") BY <2>1, <2>3 DEF Shown
    <3>2. ~prof.loading BY <3>1 DEF Settled
    <3>3. \/ prof' = [prof EXCEPT !.saving = FALSE, !.msg = "success", !.typed = FALSE,
                                   !.has = IF @ = None THEN None ELSE TRUE]
          \/ prof' = [prof EXCEPT !.saving = FALSE, !.msg = "error"]
      BY <1>11, <2>3 DEF SaveAnswer
    <3>4. prof' \in Profiles /\ ~prof'.loading BY <3>2, <3>3 DEF Profiles
    <3>5. prof'.msg = "success" => prof'.has \in {None, TRUE} BY <3>3 DEF Profiles
    <3>6. PageSays(prof') BY <3>4, <3>5 DEF PageSays
    <3>7. Settled(Rest(i), prof') BY <1>2, <3>2, <3>4 DEF Settled
    <3>8. QED BY <1>2, <2>1, <3>4, <3>6, <3>7
  <2>4. QED BY <2>2, <2>3
<1>12. QED
  BY <1>3, <1>4, <1>5, <1>6, <1>7, <1>8, <1>9, <1>10, <1>11 DEF StayStep

LEMMA RouteKeepsProfile ==
    ASSUME ProfileInv, RouteStep
    PROVE  ProfileInv'
<1> USE DEF ProfileInv
<1>1. \A i \in DOMAIN auth : Rest(i) \in Seq(AuthCalls) /\ Settled(Rest(i), prof)
  BY RemoveSettled DEF Rest
<1>2. ASSUME NEW q \in Seq(AuthCalls), NEW path, NEW ck, NEW st,
             Goto(path, ck, st, q), Settled(q, prof), UNCHANGED hasKey
      PROVE  ProfileInv'
  BY <1>2, GotoSettled
<1>3. CASE \E path \in Pages : FollowLink(path) BY <1>2, <1>3 DEF FollowLink
<1>4. CASE \E i \in DOMAIN auth : LoggedIn(i) BY <1>1, <1>2, <1>4 DEF LoggedIn
<1>5. CASE \E i \in DOMAIN auth : SignedUp(i) BY <1>1, <1>2, <1>5 DEF SignedUp
<1>6. CASE \E i \in DOMAIN auth : LoggedOut(i) BY <1>1, <1>2, <1>6 DEF LoggedOut
<1>7. CASE \E i \in DOMAIN auth : ProfileRefused(i) BY <1>1, <1>2, <1>7 DEF ProfileRefused
<1>8. QED BY <1>3, <1>4, <1>5, <1>6, <1>7 DEF RouteStep

LEMMA LoadKeepsProfile ==
    ASSUME ProfileInv, LoadStep
    PROVE  ProfileInv'
<1> USE DEF ProfileInv
<1>1. <<[kind |-> "profile", here |-> TRUE, got |-> None]>>
        = Append(<<>>, [kind |-> "profile", here |-> TRUE, got |-> None])
  OBVIOUS
<1>2. prof' = NewProfile /\ UNCHANGED hasKey
      /\ auth' \in {<<>>, <<[kind |-> "profile", here |-> TRUE, got |-> None]>>}
  BY DEF LoadStep, LoadPage, Restart
<1>3. auth' \in Seq(AuthCalls) /\ Settled(auth', NewProfile)
  BY <1>1, <1>2, EmptySettled, EnteredSettled
<1>4. QED BY <1>2, <1>3, NewProfileFits

\* SavedIsShown: a profile page that says the keys were saved never shows them
\* as missing: the answer to its profile request always came before the form
\* could be sent, and answers to requests of a page that was left change nothing.
THEOREM SavedKeysShown == Spec => []SavedIsShown
<1>1. Init => ProfileInv
  <2> SUFFICES ASSUME Init PROVE ProfileInv OBVIOUS
  <2>1. auth = <<>> /\ prof = NewProfile /\ hasKey \in BOOLEAN BY DEF Init, SessionInit
  <2>2. QED BY <2>1, EmptySettled, NewProfileFits DEF ProfileInv
<1>2. ProfileInv /\ [Next]_webVars => ProfileInv'
  <2> SUFFICES ASSUME ProfileInv, [Next]_webVars PROVE ProfileInv' OBVIOUS
  <2>1. CASE UNCHANGED sessionVars BY <2>1 DEF ProfileInv, sessionVars
  <2>2. QED BY <2>1, StayKeepsProfile, RouteKeepsProfile, LoadKeepsProfile DEF Next, webVars
<1>3. ProfileInv => SavedIsShown
  BY DEF ProfileInv, PageSays, SavedIsShown, MessageShown, AccountShown, KeysShown
<1>4. QED BY <1>1, <1>2, <1>3, PTL DEF Spec

=============================================================================
