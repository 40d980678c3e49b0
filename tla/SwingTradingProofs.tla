------------------------- MODULE SwingTradingProofs -------------------------
(***************************************************************************)
(* Proofs about SwingTrading, for any sequence of bars, any TTL and any    *)
(* number of redelivered messages.                                         *)
(***************************************************************************)
EXTENDS SwingTrading, TLAPS

LEMMA BarsType ==
    /\ Len(Bars) \in Nat
    /\ \A b \in BarIndices : Bars[b].close_time \in Nat
<1> DEFINE Bar == [close_time : Nat, window : Nat]
<1>1. \A b \in Bar : b.close_time \in Nat OBVIOUS
<1>2. Bars \in Seq(Bar) BY BarAssumption
<1> HIDE DEF Bar
<1>3. Len(Bars) \in Nat BY <1>2
<1>4. \A b \in BarIndices : Bars[b] \in Bar BY <1>2 DEF BarIndices
<1>5. QED BY <1>1, <1>3, <1>4

LEMMA InitType == Init => TypeOK
<1> SUFFICES ASSUME Init PROVE TypeOK
  OBVIOUS
<1>1. ts \in TickerStates BY BarAssumption DEF Init, Fresh, TickerStates
<1>2. /\ candles \in Seq(BarIndices) /\ Len(candles) = 0
      /\ signals \in Seq(Answers) /\ Len(signals) = 0
      /\ queue \in Seq(Events) /\ orders \in Seq(Sides) /\ entries \in Seq(Entries)
  BY DEF Init
<1>3. /\ closed \in 0 .. Len(Bars) /\ clock \in 0 .. MaxTime /\ aiPos \in 0 .. Len(candles)
      /\ sigPos \in 0 .. Len(signals) /\ redelivered \in 0 .. MaxRedeliveries
      /\ armings \in Nat
  BY <1>2, BarsType, BarAssumption DEF Init
<1>4. QED BY <1>1, <1>2, <1>3 DEF Init, TypeOK

LEMMA HandlerType ==
    ASSUME TypeOK, OnEvent
    PROVE  TypeOK'
<1>1. /\ UNCHANGED <<clock, closed, callback, candles, aiPos, signals, sigPos, redelivered>>
      /\ queue # <<>> /\ queue' = Tail(queue)
  BY DEF OnEvent, feedVars, aiVars
<1>2. Head(queue) \in Events /\ queue' \in Seq(Events)
  BY <1>1 DEF TypeOK
<1>3. Head(queue).bar \in BarIndices
  BY <1>2 DEF Events
<1>4. ts' \in TickerStates
  <2>1. CASE OnCandleClosed(Head(queue).bar)
    BY <1>3, <2>1, BarsType DEF OnCandleClosed, TickerStates, TypeOK
  <2>2. CASE OnAIConfirmed(Head(queue).bar, Head(queue).strong)
    BY <2>2 DEF OnAIConfirmed, handlerVars, TickerStates, TypeOK
  <2>3. QED BY <2>1, <2>2 DEF OnEvent
<1>5. armings' \in Nat /\ {armedBar', seen'} \subseteq {NoBar} \cup BarIndices
  <2>1. CASE OnCandleClosed(Head(queue).bar)
    BY <1>3, <2>1 DEF OnCandleClosed, TypeOK
  <2>2. CASE OnAIConfirmed(Head(queue).bar, Head(queue).strong)
    BY <2>2 DEF OnAIConfirmed, handlerVars, TypeOK
  <2>3. QED BY <2>1, <2>2 DEF OnEvent
<1>6. orders' \in Seq(Sides) /\ entries' \in Seq(Entries)
  <2>1. CASE OnCandleClosed(Head(queue).bar)
    BY <2>1 DEF OnCandleClosed, TypeOK
  <2>2. CASE OnAIConfirmed(Head(queue).bar, Head(queue).strong)
    <3>1. "buy" \in Sides BY DEF Sides
    <3>2. [bar |-> Head(queue).bar, arming |-> armings, armedBar |-> armedBar, seen |-> seen]
              \in Entries
      BY <1>3 DEF Entries, TypeOK
    <3>3. CASE UNCHANGED <<orders, entries>> BY <3>3 DEF TypeOK
    <3>4. CASE /\ orders' = Append(orders, "buy")
               /\ entries' = Append(entries, [bar |-> Head(queue).bar, arming |-> armings,
                                              armedBar |-> armedBar, seen |-> seen])
      BY <3>1, <3>2, <3>4 DEF TypeOK
    <3>5. QED BY <2>2, <3>3, <3>4 DEF OnAIConfirmed, handlerVars
  <2>3. QED BY <2>1, <2>2 DEF OnEvent
<1>7. QED BY <1>1, <1>2, <1>4, <1>5, <1>6 DEF TypeOK

LEMMA TypeStep == TypeOK /\ [Next]_vars => TypeOK'
<1> SUFFICES ASSUME TypeOK, [Next]_vars PROVE TypeOK'
  OBVIOUS
<1> USE DEF TypeOK
<1>1. CASE PublishCandle
  <2>1. closed + 1 \in BarIndices /\ closed' \in 0 .. Len(Bars) /\ closed' > 0
    BY <1>1, BarsType DEF PublishCandle, BarIndices
  <2>2. candles' \in Seq(BarIndices) /\ Len(candles') >= Len(candles)
    <3>1. CASE candles' = Append(candles, closed + 1) BY <2>1, <3>1
    <3>2. CASE candles' = candles BY <3>2
    <3>3. QED BY <1>1, <3>1, <3>2 DEF PublishCandle
  <2>3. aiPos' \in 0 .. Len(candles')
    BY <1>1, <2>2 DEF PublishCandle, aiVars
  <2>4. QED BY <1>1, <2>1, <2>2, <2>3 DEF PublishCandle, aiVars, handlerVars
<1>2. CASE PublishClosed
  <2>1. [kind |-> "CandleClosed", bar |-> closed] \in Events
    BY <1>2, BarsType DEF PublishClosed, Events, BarIndices
  <2>2. queue' \in Seq(Events) BY <1>2, <2>1 DEF PublishClosed
  <2>3. QED BY <1>2, <2>2 DEF PublishClosed, aiVars, handlerVars
<1>3. CASE Score
  <2>1. aiPos + 1 \in 1 .. Len(candles) /\ candles[aiPos + 1] \in BarIndices
    BY <1>3 DEF Score
  <2>2. signals' \in Seq(Answers) /\ Len(signals') >= Len(signals)
    <3>1. CASE UNCHANGED signals BY <3>1
    <3>2. ASSUME NEW strong \in BOOLEAN,
                 signals' = Append(signals, [bar |-> candles[aiPos + 1], strong |-> strong])
          PROVE  signals' \in Seq(Answers) /\ Len(signals') >= Len(signals)
      <4>1. [bar |-> candles[aiPos + 1], strong |-> strong] \in Answers
        BY <2>1 DEF Answers
      <4>2. QED BY <3>2, <4>1
    <3>3. QED BY <1>3, <3>1, <3>2 DEF Score
  <2>3. sigPos' \in 0 .. Len(signals')
    BY <1>3, <2>2 DEF Score
  <2>4. QED BY <1>3, <2>1, <2>2, <2>3 DEF Score, feedVars, handlerVars
<1>4. CASE PublishAnswer
  <2>1. sigPos + 1 \in 1 .. Len(signals)
    BY <1>4 DEF PublishAnswer
  <2>2. signals[sigPos + 1] \in Answers
    BY <2>1
  <2>3. [kind |-> "AIConfirmed", bar |-> signals[sigPos + 1].bar,
         strong |-> signals[sigPos + 1].strong] \in Events
    BY <2>2 DEF Events, Answers
  <2>4. queue' \in Seq(Events) BY <1>4, <2>3 DEF PublishAnswer
  <2>5. QED BY <1>4, <2>1, <2>4 DEF PublishAnswer, feedVars, handlerVars
<1>5. CASE Redeliver
  <2>1. aiPos' \in 0 .. Len(candles) /\ sigPos' \in 0 .. Len(signals)
    BY <1>5 DEF Redeliver
  <2>2. redelivered' \in 0 .. MaxRedeliveries
    BY <1>5, BarAssumption DEF Redeliver
  <2>3. QED BY <1>5, <2>1, <2>2 DEF Redeliver, feedVars, handlerVars
<1>6. CASE OnEvent
  BY <1>6, HandlerType
<1>7. CASE OnTTLExpired
  <2>1. ts' \in TickerStates BY <1>7 DEF OnTTLExpired, TickerStates
  <2>2. QED BY <1>7, <2>1 DEF OnTTLExpired, feedVars, aiVars
<1>8. CASE CheckExit
  <2>1. ts' \in TickerStates BY <1>8 DEF CheckExit, TickerStates
  <2>2. orders' \in Seq(Sides)
    <3>1. Exits \subseteq Sides BY DEF Sides
    <3>2. QED BY <1>8, <3>1 DEF CheckExit
  <2>3. QED BY <1>8, <2>1, <2>2 DEF CheckExit, feedVars, aiVars
<1>9. CASE Tick
  <2>1. clock' \in 0 .. MaxTime BY <1>9, BarAssumption DEF Tick
  <2>2. QED BY <1>9, <2>1 DEF Tick, feedVars, aiVars, handlerVars
<1>10. CASE UNCHANGED vars
  BY <1>10 DEF vars, feedVars, aiVars, handlerVars
<1>11. QED
  BY <1>1, <1>2, <1>3, <1>4, <1>5, <1>6, <1>7, <1>8, <1>9, <1>10 DEF Next

\* Every variable keeps its type; in particular every bus event and every answer
\* is about a bar that has closed.
THEOREM TypeCorrect == Spec => []TypeOK
BY InitType, TypeStep, PTL DEF Spec

-----------------------------------------------------------------------------
(***************************************************************************)
(* Orders and positions                                                    *)
(***************************************************************************)
LEMMA InitTrade == Init => TradeInv
BY DEF Init, TradeInv, Fresh, PositionMatchesOrders, OneEntryPerArming, NeverAnOlderBar

\* What the history of the entries holds.
LEMMA EntriesType ==
    ASSUME TypeOK
    PROVE  /\ Len(entries) \in Nat
           /\ \A i \in 1 .. Len(entries) : entries[i].arming \in Nat
<1>1. \A e \in Entries : e.arming \in Nat BY DEF Entries
<1>2. Len(entries) \in Nat /\ \A i \in 1 .. Len(entries) : entries[i] \in Entries
  BY DEF TypeOK
<1>3. QED BY <1>1, <1>2

\* An accepted buy: the ticker was armed, by the newest bar, and out of position.
LEMMA BuyStep ==
    ASSUME TypeOK, TradeInv, NEW b \in BarIndices, ~Discards(b),
           ts' = [ts EXCEPT !.state = "Idle", !.in_position = TRUE],
           orders' = Append(orders, "buy"),
           entries' = Append(entries, [bar |-> b, arming |-> armings,
                                       armedBar |-> armedBar, seen |-> seen]),
           UNCHANGED <<armings, armedBar, seen>>
    PROVE  TradeInv'
<1> DEFINE e == [bar |-> b, arming |-> armings, armedBar |-> armedBar, seen |-> seen]
<1> DEFINE n == Len(entries)
<1>1. /\ ts.state = "Armed" /\ ~ts.in_position
      /\ Bars[b].close_time = ts.close_time
      /\ ts.close_time = Bars[seen].close_time
      /\ \A i \in 1 .. n : entries[i].arming < armings
  BY DEF Discards, TradeInv, TypeOK, TickerStates
<1>2. /\ n \in Nat /\ armings \in Nat /\ e \in Entries /\ orders \in Seq(Sides)
      /\ \A i \in 1 .. n : entries[i].arming \in Nat
  <2>1. e \in Entries BY DEF TypeOK, Entries
  <2>2. QED BY <2>1, EntriesType DEF TypeOK
<1>3. /\ Len(entries') = n + 1
      /\ \A i \in 1 .. n : entries'[i] = entries[i]
      /\ entries'[n + 1] = e
  BY <1>2 DEF TypeOK
<1>4. ts'.state = "Idle" /\ ts'.in_position
  BY DEF TypeOK, TickerStates
<1>5. PositionMatchesOrders'
  <2>1. Len(orders) \in Nat /\ Len(orders) % 2 # 1
    BY <1>1, <1>2 DEF TradeInv, PositionMatchesOrders
  <2>2. /\ Len(orders') = Len(orders) + 1
        /\ \A i \in 1 .. Len(orders) : orders'[i] = orders[i]
        /\ orders'[Len(orders) + 1] = "buy"
    BY <1>2 DEF Sides
  <2>3. (Len(orders) + 1) % 2 = 1 BY <2>1
  <2>4. \A i \in 1 .. Len(orders) : orders'[i] = "buy" <=> i % 2 = 1
    BY <2>2 DEF TradeInv, PositionMatchesOrders
  <2>5. \A i \in 1 .. Len(orders') : orders'[i] = "buy" <=> i % 2 = 1
    BY <2>1, <2>2, <2>3, <2>4
  <2>6. QED BY <1>4, <2>2, <2>3, <2>5 DEF PositionMatchesOrders
<1>6. OneEntryPerArming'
  <2> SUFFICES ASSUME NEW i \in 1 .. n + 1, NEW j \in 1 .. n + 1,
                      entries'[i].arming = entries'[j].arming
               PROVE  i = j
    BY <1>3 DEF OneEntryPerArming
  <2>1. CASE i \in 1 .. n /\ j \in 1 .. n
    BY <1>3, <2>1 DEF TradeInv, OneEntryPerArming
  <2>2. CASE i = n + 1 /\ j \in 1 .. n BY <1>1, <1>2, <1>3, <2>2
  <2>3. CASE i \in 1 .. n /\ j = n + 1 BY <1>1, <1>2, <1>3, <2>3
  <2>4. QED BY <1>2, <2>1, <2>2, <2>3
<1>7. NeverAnOlderBar'
  <2> SUFFICES ASSUME NEW i \in 1 .. n + 1
               PROVE  Bars[entries'[i].bar].close_time = Bars[entries'[i].seen].close_time
    BY <1>3 DEF NeverAnOlderBar
  <2>1. CASE i \in 1 .. n BY <1>3, <2>1 DEF TradeInv, NeverAnOlderBar
  <2>2. CASE i = n + 1 BY <1>1, <1>3, <2>2
  <2>3. QED BY <1>2, <2>1, <2>2
<1>8. \A i \in 1 .. Len(entries') : entries'[i].arming <= armings
  <2> SUFFICES ASSUME NEW i \in 1 .. n + 1 PROVE entries'[i].arming <= armings
    BY <1>3
  <2>1. CASE i \in 1 .. n BY <1>1, <1>2, <1>3, <2>1
  <2>2. CASE i = n + 1 BY <1>2, <1>3, <2>2
  <2>3. QED BY <1>2, <2>1, <2>2
<1>9. QED BY <1>4, <1>5, <1>6, <1>7, <1>8 DEF TradeInv

LEMMA TradeStep == TypeOK /\ TradeInv /\ [Next]_vars => TradeInv'
<1> SUFFICES ASSUME TypeOK, TradeInv, [Next]_vars PROVE TradeInv'
  OBVIOUS
<1>0. armings \in Nat /\ \A i \in 1 .. Len(entries) : entries[i].arming \in Nat
  BY EntriesType DEF TypeOK
<1>1. ASSUME UNCHANGED handlerVars PROVE TradeInv'
  BY <1>1 DEF handlerVars, TradeInv, PositionMatchesOrders, OneEntryPerArming, NeverAnOlderBar
<1>2. ASSUME ts' = [ts EXCEPT !.state = "Idle"],
             UNCHANGED <<armings, armedBar, seen, orders, entries>>
      PROVE  TradeInv'
  <2>1. ts'.state = "Idle" /\ ts'.in_position = ts.in_position
    BY <1>2 DEF TypeOK, TickerStates
  <2>2. QED
    BY <1>2, <2>1 DEF TradeInv, PositionMatchesOrders, OneEntryPerArming, NeverAnOlderBar
<1>3. CASE OnEvent
  <2> DEFINE b == Head(queue).bar
  <2>1. Head(queue) \in Events BY <1>3 DEF OnEvent, TypeOK
  <2>2. b \in BarIndices BY <2>1 DEF Events
  <2> HIDE DEF b
  <2>3. CASE OnCandleClosed(b)
    <3>1. CASE ts.in_position
      <4>1. ts.state = "Idle" /\ UNCHANGED <<ts, armings, orders, entries>>
        BY <2>3, <3>1 DEF OnCandleClosed, TradeInv
      <4>2. QED
        BY <4>1 DEF TradeInv, PositionMatchesOrders, OneEntryPerArming, NeverAnOlderBar
    <3>2. CASE ~ts.in_position
      <4>1. /\ ts'.state = "Armed" /\ ts'.in_position = ts.in_position
            /\ ts'.close_time = Bars[b].close_time /\ seen' = b
            /\ armings' = armings + 1 /\ UNCHANGED <<orders, entries>>
        BY <2>3, <3>2 DEF OnCandleClosed, TypeOK, TickerStates
      <4>2. \A i \in 1 .. Len(entries) : entries[i].arming < armings + 1
        BY <1>0 DEF TradeInv
      <4>3. QED
        BY <1>0, <2>2, <3>2, <4>1, <4>2
        DEF TradeInv, PositionMatchesOrders, OneEntryPerArming, NeverAnOlderBar
    <3>3. QED BY <3>1, <3>2
  <2>4. ASSUME NEW strong, OnAIConfirmed(b, strong) PROVE TradeInv'
    BY <1>1, <1>2, <2>2, <2>4, BuyStep DEF OnAIConfirmed
  <2>5. QED BY <1>3, <2>3, <2>4 DEF OnEvent, b
<1>4. CASE OnTTLExpired
  BY <1>2, <1>4 DEF OnTTLExpired
<1>5. CASE CheckExit
  <2>1. /\ ts.in_position /\ ts.state = "Idle" /\ ts'.state = "Idle" /\ ~ts'.in_position
        /\ UNCHANGED <<armings, seen, entries>>
    BY <1>5 DEF CheckExit, TradeInv, TypeOK, TickerStates
  <2>2. Len(orders) \in Nat /\ Len(orders) % 2 = 1 /\ orders \in Seq(Sides)
    <3>1. orders \in Seq(Sides) BY DEF TypeOK
    <3>2. Len(orders) % 2 = 1 BY <2>1 DEF TradeInv, PositionMatchesOrders
    <3>3. QED BY <3>1, <3>2
  <2>3. PICK exit \in Exits : orders' = Append(orders, exit)
    BY <1>5 DEF CheckExit
  <2>4. exit \in Sides /\ exit # "buy" BY DEF Exits, Sides
  <2>5. /\ Len(orders') = Len(orders) + 1
        /\ \A i \in 1 .. Len(orders) : orders'[i] = orders[i]
        /\ orders'[Len(orders) + 1] # "buy"
    BY <2>2, <2>3, <2>4
  <2>6. (Len(orders) + 1) % 2 # 1 BY <2>2
  <2>7. PositionMatchesOrders'
    BY <2>1, <2>2, <2>5, <2>6 DEF TradeInv, PositionMatchesOrders
  <2>8. QED BY <2>1, <2>7 DEF TradeInv, OneEntryPerArming, NeverAnOlderBar
<1>6. CASE PublishCandle \/ PublishClosed \/ Score \/ PublishAnswer \/ Redeliver \/ Tick
  BY <1>1, <1>6 DEF PublishCandle, PublishClosed, Score, PublishAnswer, Redeliver, Tick
<1>7. CASE UNCHANGED vars
  BY <1>1, <1>7 DEF vars
<1>8. QED
  BY <1>3, <1>4, <1>5, <1>6, <1>7 DEF Next

\* The invariant behind the three results below, with the types it needs.
THEOREM TradeInvariance == Spec => []TradeInv
<1>1. Init => TypeOK /\ TradeInv BY InitType, InitTrade
<1>2. TypeOK /\ TradeInv /\ [Next]_vars => (TypeOK /\ TradeInv)' BY TypeStep, TradeStep
<1>3. QED BY <1>1, <1>2, PTL DEF Spec

\* The handler asks for exactly one exit between two entries into a ticker, and
\* in_position says which of them is next, whatever the answers, their redelivery,
\* the executor's rejections of buys and of exits and the order they come in.  (The
\* shares of a rejected exit are still held: HeldMeansInPosition is violated.)
THEOREM SinglePosition == Spec => []PositionMatchesOrders
<1>1. TradeInv => PositionMatchesOrders BY DEF TradeInv
<1>2. QED BY <1>1, TradeInvariance, PTL

\* A redelivered or duplicated answer never turns one arming into two entries.
THEOREM EntryOnce == Spec => []OneEntryPerArming
<1>1. TradeInv => OneEntryPerArming BY DEF TradeInv
<1>2. QED BY <1>1, TradeInvariance, PTL

\* A late answer about an older bar never leads to an entry.
THEOREM NoStaleEntry == Spec => []NeverAnOlderBar
<1>1. TradeInv => NeverAnOlderBar BY DEF TradeInv
<1>2. QED BY <1>1, TradeInvariance, PTL

=============================================================================
