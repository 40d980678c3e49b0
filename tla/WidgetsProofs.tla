--------------------------- MODULE WidgetsProofs ---------------------------
(***************************************************************************)
(* Proofs about the parts composed in Widgets, for logs of any length and  *)
(* any numbers of toasts, listening components and slides.               *)
(***************************************************************************)
EXTENDS Widgets, TLAPS

-----------------------------------------------------------------------------
(* The event logs.                                                         *)

LogEntries ==
    [id : LogTickers \X {0, 1}, severity : Severities]
        \cup [id : LogTickers \X {0, 1}, direction : Directions]

\* Each log is the newest entries of its kind, and a reader who has not scrolled
\* is at its top.
LogInv ==
    /\ received \in [Logs -> Seq(LogEntries)]
    /\ tab \in Logs
    /\ ~moved => top = 0
    /\ alarms = Newest(received["alarms"], LogSize)
    /\ aiSignals = Newest(received["ai-signals"], LogSize)

LEMMA NewestType ==
    ASSUME NEW S, NEW s \in Seq(S), NEW n \in Nat
    PROVE  /\ Newest(s, n) \in Seq(S)
           /\ Len(Newest(s, n)) = (IF Len(s) < n THEN Len(s) ELSE n)
           /\ \A i \in 1 .. Len(Newest(s, n)) : Newest(s, n)[i] = s[Len(s) + 1 - i]
<1> DEFINE m == IF Len(s) < n THEN Len(s) ELSE n
<1>1. m \in Nat /\ m <= Len(s) /\ Newest(s, n) = [i \in 1 .. m |-> s[Len(s) + 1 - i]]
  BY DEF Newest
<1>2. \A i \in 1 .. m : s[Len(s) + 1 - i] \in S
  BY <1>1
<1> HIDE DEF m
<1> QED BY <1>1, <1>2 DEF m

\* [entry, ...prev.slice(0, n - 1)] over the newest n entries gives the newest n
\* once the entry has come.
LEMMA PrependNewest ==
    ASSUME NEW S, NEW s \in Seq(S), NEW e \in S
    PROVE  Prepend(Newest(s, LogSize), e) = Newest(Append(s, e), LogSize)
<1> DEFINE p == Newest(s, LogSize)
           t == Append(s, e)
           q == Newest(t, LogSize)
           rest == IF Len(p) < LogSize THEN p ELSE SubSeq(p, 1, LogSize - 1)
           k == IF Len(s) < LogSize - 1 THEN Len(s) ELSE LogSize - 1
<1>1. LogSize \in Nat /\ LogSize >= 1
  BY EventLogsAssumption
<1>2. /\ p \in Seq(S) /\ Len(p) = (IF Len(s) < LogSize THEN Len(s) ELSE LogSize)
      /\ \A i \in 1 .. Len(p) : p[i] = s[Len(s) + 1 - i]
  BY <1>1, NewestType
<1>3. /\ t \in Seq(S) /\ Len(t) = Len(s) + 1
      /\ t[Len(s) + 1] = e /\ \A i \in 1 .. Len(s) : t[i] = s[i]
  OBVIOUS
<1> HIDE DEF t
<1>4. /\ q \in Seq(S)
      /\ Len(q) = (IF Len(t) < LogSize THEN Len(t) ELSE LogSize)
      /\ \A i \in 1 .. Len(q) : q[i] = t[Len(t) + 1 - i]
  BY <1>1, <1>3, NewestType
<1> HIDE DEF p, q
<1>5. rest \in Seq(S) /\ Len(rest) = k /\ \A i \in 1 .. k : rest[i] = s[Len(s) + 1 - i]
  <2>1. CASE Len(p) < LogSize
    BY <2>1, <1>1, <1>2
  <2>2. CASE ~ (Len(p) < LogSize)
    <3>1. rest = SubSeq(p, 1, LogSize - 1) /\ Len(p) = LogSize /\ k = LogSize - 1
      BY <2>2, <1>1, <1>2
    <3> QED BY <3>1, <1>1, <1>2
  <2> QED BY <2>1, <2>2
<1> HIDE DEF rest
<1>6. k \in Nat /\ Len(q) = k + 1 /\ k <= Len(s)
  BY <1>1, <1>3, <1>4
<1>7. q[1] = e /\ \A i \in 1 .. k : q[i + 1] = s[Len(s) + 1 - i]
  <2>1. Len(t) + 1 - 1 = Len(s) + 1 /\ 1 \in 1 .. Len(q)
    BY <1>3, <1>6
  <2>2. ASSUME NEW i \in 1 .. k PROVE q[i + 1] = s[Len(s) + 1 - i]
    <3>1. /\ i + 1 \in 1 .. Len(q) /\ Len(t) + 1 - (i + 1) = Len(s) + 1 - i
          /\ Len(s) + 1 - i \in 1 .. Len(s)
      BY <1>3, <1>6
    <3> QED BY <3>1, <1>3, <1>4
  <2> QED BY <2>1, <2>2, <1>3, <1>4
<1> HIDE DEF k
<1>8. <<e>> \o rest \in Seq(S) /\ Len(<<e>> \o rest) = k + 1
      /\ (<<e>> \o rest)[1] = e /\ \A i \in 1 .. k : (<<e>> \o rest)[i + 1] = rest[i]
  BY <1>5, <1>6
<1>9. \A i \in 1 .. k + 1 : (<<e>> \o rest)[i] = q[i]
  <2> SUFFICES ASSUME NEW i \in 1 .. k + 1 PROVE (<<e>> \o rest)[i] = q[i]
    OBVIOUS
  <2>1. CASE i = 1 BY <2>1, <1>7, <1>8
  <2>2. CASE i # 1
    <3>1. i - 1 \in 1 .. k /\ (i - 1) + 1 = i BY <2>2, <1>6
    <3> QED BY <3>1, <1>5, <1>7, <1>8
  <2> QED BY <2>1, <2>2
<1>10. <<e>> \o rest = q
  BY <1>4, <1>6, <1>8, <1>9
<1> QED BY <1>10 DEF Prepend, rest, p, q, t

LEMMA LogKept ==
    ASSUME LogInv, LogNext
    PROVE  LogInv'
<1> USE DEF LogInv
<1>1. ASSUME NEW log \in Logs, NEW entry \in LogEntries, Receive(log, entry)
      PROVE  /\ received' \in [Logs -> Seq(LogEntries)] /\ tab' \in Logs /\ (~moved' => top' = 0)
             /\ Prepend(Newest(received[log], LogSize), entry) = Newest(received'[log], LogSize)
             /\ \A other \in Logs \ {log} : received'[other] = received[other]
  <2>1. received' = [received EXCEPT ![log] = Append(received[log], entry)] /\ tab' = tab
    BY <1>1 DEF Receive
  <2>2. ~moved' => top' = 0
    BY <1>1 DEF Receive, ScrollToTop
  <2>3. received[log] \in Seq(LogEntries)
    OBVIOUS
  <2>4. Prepend(Newest(received[log], LogSize), entry)
           = Newest(Append(received[log], entry), LogSize)
    BY <2>3, PrependNewest
  <2> QED BY <2>1, <2>2, <2>3, <2>4
<1>2. "alarms" \in Logs /\ "ai-signals" \in Logs /\ Logs = {"alarms", "ai-signals"}
  BY DEF Logs
<1>3. ASSUME NEW t \in LogTickers, NEW ms \in {0, 1}, NEW s \in Severities, AnomalyAlert(t, ms, s)
      PROVE  LogInv'
  <2>1. [id |-> <<t, ms>>, severity |-> s] \in LogEntries
    BY DEF LogEntries
  <2> QED BY <1>1, <1>2, <1>3, <2>1 DEF AnomalyAlert
<1>4. ASSUME NEW t \in LogTickers, NEW ms \in {0, 1}, NEW d \in Directions, AiSignal(t, ms, d)
      PROVE  LogInv'
  <2>1. [id |-> <<t, ms>>, direction |-> d] \in LogEntries
    BY DEF LogEntries
  <2> QED BY <1>1, <1>2, <1>4, <2>1 DEF AiSignal
<1>5. ASSUME NEW log \in Logs, SelectTab(log) PROVE LogInv'
  BY <1>5 DEF SelectTab
<1>6. ASSUME NEW row \in 0 .. LogSize, Scroll(row) PROVE LogInv'
  BY <1>6 DEF Scroll
<1> QED BY <1>3, <1>4, <1>5, <1>6 DEF LogNext

\* LogsShowNewest: each log is the newest LogSize events of its kind in order,
\* and its newest is in view unless the reader scrolled.
LEMMA LogInvShows == LogInv => LogsShowNewest
<1> SUFFICES ASSUME LogInv, ~moved, received[tab] # <<>>
             PROVE  Rows[top + 1].key = Last(received[tab]).id /\ Rows[top + 1].animated
  BY DEF LogInv, LogsShowNewest
<1> DEFINE log == Newest(received[tab], LogSize)
<1>1. LogSize \in Nat /\ LogSize >= 1 /\ received[tab] \in Seq(LogEntries) /\ top = 0
  BY EventLogsAssumption DEF LogInv
<1>2. Len(received[tab]) >= 1
  BY <1>1
<1>3. 1 \in DOMAIN log /\ log[1] = received[tab][Len(received[tab])]
  BY <1>1, <1>2, NewestType
<1>4. CASE tab = "alarms"
  <2>1. alarms = log /\ Rows = AlarmRows /\ top + 1 = 1
    BY <1>1, <1>4 DEF LogInv, Rows
  <2> HIDE DEF log
  <2> QED BY <1>3, <2>1 DEF AlarmRows, Last
<1>5. CASE tab = "ai-signals"
  <2>1. aiSignals = log /\ Rows = SignalRows /\ top + 1 = 1
    BY <1>1, <1>5 DEF LogInv, Rows
  <2> HIDE DEF log
  <2> QED BY <1>3, <2>1 DEF SignalRows, Last
<1> QED BY <1>4, <1>5 DEF LogInv, Logs

-----------------------------------------------------------------------------
(* The sidebar.                                                            *)

Owners == [handler : BOOLEAN, prop : {Unset} \cup BOOLEAN, defaultOpen : BOOLEAN]

\* Once measured, isMobile is what the window is.
SidebarInv ==
    /\ owner \in Owners /\ narrow \in BOOLEAN /\ ownOpen \in BOOLEAN /\ openMobile \in BOOLEAN
    /\ mobile \in {Unset, narrow}

LEMMA SetOpenKeeps ==
    ASSUME SidebarInv, NEW value \in BOOLEAN, SetOpen(value)
    PROVE  /\ owner' \in Owners /\ ownOpen' \in BOOLEAN
           /\ Uncontrolled => open' = value
<1> USE DEF SidebarInv
<1>1. CASE owner.handler
  <2>1. PICK adopts \in BOOLEAN :
           owner' = IF adopts /\ owner.prop # Unset THEN [owner EXCEPT !.prop = value] ELSE owner
    BY <1>1 DEF SetOpen
  <2>2. owner' \in Owners /\ owner'.handler BY <1>1, <2>1 DEF Owners
  <2>3. UNCHANGED ownOpen BY <1>1 DEF SetOpen
  <2>4. QED BY <1>1, <2>2, <2>3 DEF Uncontrolled
<1>2. CASE ~owner.handler
  <2>1. ownOpen' = value /\ UNCHANGED owner BY <1>2 DEF SetOpen
  <2>2. Uncontrolled => open' = value BY <2>1 DEF Uncontrolled, open
  <2>3. QED BY <2>1, <2>2
<1>3. QED BY <1>1, <1>2

LEMMA SidebarKept ==
    ASSUME SidebarInv, SidebarNext
    PROVE  SidebarInv'
<1> USE DEF SidebarInv
<1>1. ASSUME NEW value \in BOOLEAN, SetOpen(value), UNCHANGED <<openMobile, narrow, mobile>>
      PROVE  SidebarInv'
  BY <1>1, SetOpenKeeps
<1>3. CASE ToggleSidebar
  <2>1. CASE isMobile BY <1>3, <2>1 DEF ToggleSidebar
  <2>2. CASE ~isMobile
    <3>1. open \in BOOLEAN BY DEF open, Owners
    <3>2. (~open) \in BOOLEAN BY <3>1, Zenon
    <3>3. SetOpen(~open) /\ UNCHANGED <<openMobile, narrow, mobile>>
      BY <1>3, <2>2 DEF ToggleSidebar
    <3>4. QED BY <1>1, <3>2, <3>3
  <2>3. QED BY <2>1, <2>2
<1>4. CASE SetOpenFromMenu BY <1>1, <1>4 DEF SetOpenFromMenu
<1>5. CASE CloseSheet BY <1>5 DEF CloseSheet
<1>6. CASE Measure BY <1>6 DEF Measure
<1>7. CASE Resize BY <1>7 DEF Resize
<1>8. CASE Remount
  <2>1. UNCHANGED <<owner, narrow>> /\ ownOpen' = owner.defaultOpen
        /\ openMobile' = FALSE /\ mobile' = Unset
    BY <1>8 DEF Remount
  <2>2. QED BY <2>1 DEF Owners
<1>9. QED
  BY <1>3, <1>4, <1>5, <1>6, <1>7, <1>8 DEF SidebarNext, Trigger, Rail, Shortcut

-----------------------------------------------------------------------------
(* The carousel.                                                           *)

Records == [exists : BOOLEAN, slides : Nat \ {0}, at : Nat \ {0}, loop : BOOLEAN]

Instances == {e \in Records : e.at <= e.slides}

\* While there is an instance, the handlers are registered and have told the
\* state of the buttons.
CarouselInv ==
    /\ embla \in Instances
    /\ given \in [setApi : BOOLEAN, live : BOOLEAN]
    /\ embla.exists =>
          /\ handlers = {"reInit", "select"}
          /\ can = onSelect(embla)
          /\ given.live = given.setApi

LEMMA ScrollType ==
    ASSUME NEW e \in Instances
    PROVE  /\ Next1(e) \in Instances /\ Prev1(e) \in Instances
           /\ CanPrev(e) = (Prev1(e) # e) /\ CanNext(e) = (Next1(e) # e)
<1>1. Next1(e) \in Instances BY DEF Next1, Instances, Records
<1>2. Prev1(e) \in Instances BY DEF Prev1, Instances, Records
<1>3. Prev1(e) # e <=> Prev1(e).at # e.at BY DEF Prev1, Instances, Records
<1>4. Next1(e) # e <=> Next1(e).at # e.at BY DEF Next1, Instances, Records
<1>5. Prev1(e).at = CASE e.at > 1 -> e.at - 1 [] e.at = 1 /\ e.loop -> e.slides [] OTHER -> e.at
  BY DEF Prev1, Instances, Records
<1>6. Next1(e).at = CASE e.at < e.slides -> e.at + 1 [] e.at = e.slides /\ e.loop -> 1
                      [] OTHER -> e.at
  BY DEF Next1, Instances, Records
<1>7. CanPrev(e) <=> Prev1(e).at # e.at BY <1>5 DEF CanPrev, Instances, Records
<1>8. CanNext(e) <=> Next1(e).at # e.at BY <1>6 DEF CanNext, Instances, Records
<1>9. CanPrev(e) \in BOOLEAN /\ CanNext(e) \in BOOLEAN BY DEF CanPrev, CanNext, Instances, Records
<1>10. QED BY <1>1, <1>2, <1>3, <1>4, <1>7, <1>8, <1>9

LEMMA MountType ==
    ASSUME NEW e \in Instances, NEW n \in Nat \ {0}
    PROVE  [e EXCEPT !.exists = TRUE, !.slides = n, !.at = 1] \in Instances
<1> DEFINE m == [e EXCEPT !.exists = TRUE, !.slides = n, !.at = 1]
<1>1. e \in Records BY DEF Instances, Records
<1>2. 1 \in Nat \ {0} OBVIOUS
<1>3. m \in Records BY <1>1, <1>2 DEF Records
<1>4. m.at = 1 /\ m.slides = n BY <1>1 DEF Records
<1> HIDE DEF m
<1>5. m.at <= m.slides BY <1>4
<1>6. m \in Instances BY <1>3, <1>5 DEF Instances, Records
<1>7. QED BY <1>6 DEF m

LEMMA EmitKeeps ==
    ASSUME CarouselInv, embla.exists, NEW event \in {"reInit", "select"},
           NEW e \in Instances, Emit(event, e)
    PROVE  CarouselInv'
BY DEF CarouselInv, Emit

LEMMA CarouselKept ==
    ASSUME CarouselInv, CarouselNext
    PROVE  CarouselInv'
<1> USE DEF CarouselInv
<1>1. ASSUME NEW n \in 1..MaxSlides, MountViewport(n) PROVE CarouselInv'
  <2> DEFINE e == [embla EXCEPT !.exists = TRUE, !.slides = n, !.at = 1]
  <2>1. e \in Instances
    <3>1. n \in Nat \ {0} BY <1>1, CarouselAssumption
    <3>2. QED BY <3>1, MountType
  <2>2. embla' = e /\ can' = onSelect(e) /\ handlers' = {"reInit", "select"}
    BY <1>1 DEF MountViewport, SubscribeEffect
  <2>3. given' = [given EXCEPT !.live = given.setApi]
    BY <1>1 DEF MountViewport, SetApiEffect
  <2>4. given' \in [setApi : BOOLEAN, live : BOOLEAN] /\ given'.live = given'.setApi BY <2>3
  <2> HIDE DEF e
  <2>5. QED BY <2>1, <2>2, <2>4
<1>2. CASE UnmountViewport
  <2>1. embla' \in Instances /\ ~embla'.exists BY <1>2 DEF UnmountViewport, Instances, Records
  <2>2. QED BY <1>2, <2>1 DEF UnmountViewport
<1>3. CASE scrollPrev \/ scrollNext
  <2>1. CASE embla.exists
    <3>1. Next1(embla) \in Instances /\ Prev1(embla) \in Instances BY ScrollType
    <3>2. QED BY <1>3, <2>1, <3>1, EmitKeeps DEF scrollPrev, scrollNext
  <2>2. CASE ~embla.exists
    BY <1>3, <2>2 DEF scrollPrev, scrollNext, carouselVars
  <2>3. QED BY <2>1, <2>2
<1>4. ASSUME NEW i \in 1..MaxSlides, ScrollTo(i) PROVE CarouselInv'
  <2>1. embla.exists /\ i \in 1..embla.slides BY <1>4 DEF ScrollTo
  <2>2. [embla EXCEPT !.at = i] \in Instances BY <2>1 DEF Instances, Records
  <2>3. QED BY <1>4, <2>1, <2>2, EmitKeeps DEF ScrollTo
<1>5. ASSUME NEW n \in 1..MaxSlides, NEW loop \in BOOLEAN, ReInit(n, loop) PROVE CarouselInv'
  <2> DEFINE e == [embla EXCEPT !.slides = n, !.loop = loop,
                                !.at = IF embla.at > n THEN n ELSE embla.at]
  <2>1. e \in Instances
    <3>1. n \in Nat \ {0} BY <1>5, CarouselAssumption
    <3>2. e \in [exists : BOOLEAN, slides : Nat \ {0}, at : Nat \ {0}, loop : BOOLEAN]
      BY <1>5, <3>1 DEF Instances, Records
    <3>3. e.at = (IF embla.at > n THEN n ELSE embla.at) /\ e.slides = n BY DEF Instances, Records
    <3>4. e.at <= e.slides BY <3>1, <3>3 DEF Instances, Records
    <3>5. QED BY <3>2, <3>4 DEF Instances, Records
  <2>2. embla.exists /\ Emit("reInit", e) BY <1>5 DEF ReInit
  <2> HIDE DEF e
  <2>3. QED BY <2>1, <2>2, EmitKeeps
<1>6. QED
  BY <1>1, <1>2, <1>3, <1>4, <1>5 DEF CarouselNext, ClickPrevious, ClickNext, KeyDown

-----------------------------------------------------------------------------
(* The toasts.                                                             *)

\* A component that has missed nothing holds the store's list.
ToastInv ==
    /\ hooks = [h \in Hooks |-> [phase |-> hooks[h].phase, state |-> hooks[h].state,
                                 missed |-> hooks[h].missed]]
    /\ \A h \in Hooks :
          /\ hooks[h].phase \in Phases
          /\ hooks[h].phase # "out" /\ ~hooks[h].missed => hooks[h].state = store.toasts

\* What one component's new entry must be for the invariant.
HookFits(hook, toasts) ==
    /\ hook.phase \in Phases
    /\ hook = [phase |-> hook.phase, state |-> hook.state, missed |-> hook.missed]
    /\ hook.phase # "out" /\ ~hook.missed => hook.state = toasts

LEMMA ToastInvByHook ==
    /\ ToastInv => hooks = [h \in Hooks |-> hooks[h]]
                   /\ \A h \in Hooks : HookFits(hooks[h], store.toasts)
    /\ (hooks = [h \in Hooks |-> hooks[h]]
           /\ \A h \in Hooks : HookFits(hooks[h], store.toasts)) => ToastInv
BY DEF ToastInv, HookFits

LEMMA DispatchKeeps ==
    ASSUME ToastInv, NEW s, Dispatch(s)
    PROVE  ToastInv'
<1>1. store' = s BY DEF Dispatch
<1>2. ASSUME NEW h \in Hooks PROVE HookFits(hooks'[h], s.toasts)
  <2>1. HookFits(hooks[h], store.toasts) BY ToastInvByHook
  <2>2. hooks'[h] = CASE hooks[h].phase = "listening" ->
                            [hooks[h] EXCEPT !.state = s.toasts, !.missed = FALSE]
                      [] hooks[h].phase = "rendered" -> [hooks[h] EXCEPT !.missed = TRUE]
                      [] OTHER -> hooks[h]
    BY DEF Dispatch
  <2>3. CASE hooks[h].phase = "listening" BY <2>1, <2>2, <2>3 DEF HookFits, Phases
  <2>4. CASE hooks[h].phase = "rendered" BY <2>1, <2>2, <2>4 DEF HookFits, Phases
  <2>5. CASE hooks[h].phase \notin {"listening", "rendered"}
    <3>1. hooks'[h] = hooks[h] BY <2>2, <2>5
    <3>2. HookFits(hooks[h], s.toasts) BY <2>1, <2>5 DEF HookFits, Phases
    <3>3. QED BY <3>1, <3>2
  <2>6. QED BY <2>3, <2>4, <2>5
<1>3. hooks' = [h \in Hooks |-> hooks'[h]] BY DEF Dispatch
<1>4. QED BY <1>1, <1>2, <1>3 DEF ToastInv, HookFits

LEMMA ToastKept ==
    ASSUME ToastInv, ToastNext
    PROVE  ToastInv'
<1>1. ASSUME NEW s, Dispatch(s) PROVE ToastInv' BY <1>1, DispatchKeeps
<1>2. CASE Toast BY <1>1, <1>2 DEF Toast
<1>3. ASSUME NEW id \in Ids, NEW opened \in BOOLEAN, Update(id, opened) PROVE ToastInv'
  BY <1>1, <1>3 DEF Update
<1>4. ASSUME NEW ids, DispatchDismiss(ids) PROVE ToastInv'
  BY <1>1, <1>4 DEF DispatchDismiss
<1>5. ASSUME NEW id \in Ids, Expire(id) PROVE ToastInv' BY <1>1, <1>5 DEF Expire
<1>6. ASSUME NEW h \in Hooks, Render(h) \/ Listen(h) \/ Unmount(h) PROVE ToastInv'
  BY <1>6 DEF ToastInv, Render, Listen, Unmount, Phases
<1>7. QED
  BY <1>2, <1>3, <1>4, <1>5, <1>6 DEF ToastNext, Dismiss, DismissAll, CloseShown

-----------------------------------------------------------------------------
(* The theorems: a step is one part's, or leaves it as it is.              *)

\* The inductive invariant of the sidebar: once measured, isMobile is what the
\* window is, whichever part of the page is in use.
THEOREM SidebarInvariant == Spec => []SidebarInv
<1>1. Init => SidebarInv
  BY DEF Init, SidebarInit, SidebarInv, Owners
<1>2. SidebarInv /\ [Next]_widgetVars => SidebarInv'
  <2> SUFFICES ASSUME SidebarInv, [Next]_widgetVars PROVE SidebarInv' OBVIOUS
  <2>1. SidebarNext \/ UNCHANGED sidebarVars BY DEF Next, Using, widgetVars
  <2>2. CASE UNCHANGED sidebarVars
    BY <2>2 DEF SidebarInv, sidebarVars
  <2>3. QED BY <2>1, <2>2, SidebarKept
<1>3. QED BY <1>1, <1>2, PTL DEF Spec

\* ToggleIsSeen: once the window is measured, a toggle of a sidebar left to
\* itself changes the sheet on a narrow window and the sidebar on a wide one.
THEOREM ToggleSeen == Spec => ToggleIsSeen
<1> DEFINE Seen == Trigger /\ Uncontrolled /\ mobile # Unset /\ collapsible # "none" =>
                      (IF narrow THEN SheetShown' # SheetShown ELSE open' # open)
<1>1. SidebarInv /\ [Next]_widgetVars => [Seen]_sidebarVars
  <2> SUFFICES ASSUME SidebarInv, Trigger, Uncontrolled, mobile # Unset, collapsible # "none"
               PROVE  IF narrow THEN SheetShown' # SheetShown ELSE open' # open
    OBVIOUS
  <2>1. ToggleSidebar /\ UNCHANGED <<collapsible, narrow, mobile>> BY DEF Trigger, ToggleSidebar
  <2>2. mobile = narrow /\ isMobile = narrow BY DEF SidebarInv, isMobile
  <2>3. CASE narrow
    <3>1. Presentation = "sheet" /\ Presentation' = "sheet"
      BY <2>1, <2>2, <2>3 DEF Presentation, isMobile
    <3>2. openMobile' = ~openMobile BY <2>1, <2>2, <2>3 DEF ToggleSidebar
    <3>3. QED BY <2>3, <3>1, <3>2 DEF SheetShown, SidebarInv
  <2>4. CASE ~narrow
    <3>1. SetOpen(~open) BY <2>1, <2>2, <2>4 DEF ToggleSidebar
    <3>2. ownOpen' = ~open /\ UNCHANGED owner BY <3>1 DEF SetOpen, Uncontrolled
    <3>3. open = ownOpen /\ open' = ownOpen' BY <3>2 DEF open, Uncontrolled
    <3>4. QED BY <2>4, <3>2, <3>3 DEF SidebarInv
  <2>5. QED BY <2>3, <2>4
<1>2. QED BY <1>1, SidebarInvariant, PTL DEF Spec, ToggleIsSeen

\* ButtonsTellTheTruth: with an Embla instance, a button is enabled exactly
\* when its click moves the carousel, and the parent's api is the live one.
THEOREM ButtonsTruth == Spec => []ButtonsTellTheTruth
<1>1. Init => CarouselInv
  <2> SUFFICES ASSUME CarouselInit PROVE CarouselInv BY DEF Init
  <2>1. embla = [exists |-> FALSE, slides |-> 1, at |-> 1, loop |-> embla.loop]
        /\ embla.loop \in BOOLEAN
    BY DEF CarouselInit
  <2>2. embla \in Instances /\ ~embla.exists
    <3> DEFINE loop == embla.loop
               e == [exists |-> FALSE, slides |-> 1, at |-> 1, loop |-> loop]
    <3>1. embla = e /\ loop \in BOOLEAN BY <2>1
    <3> HIDE DEF loop
    <3>2. e \in Records BY <3>1 DEF Records
    <3>3. e.at = 1 /\ e.slides = 1 /\ e.exists = FALSE OBVIOUS
    <3> HIDE DEF e
    <3>4. QED BY <3>1, <3>2, <3>3 DEF Instances, Records
  <2>3. given \in [setApi : BOOLEAN, live : BOOLEAN] BY DEF CarouselInit
  <2>4. QED BY <2>2, <2>3 DEF CarouselInv
<1>2. CarouselInv /\ [Next]_widgetVars => CarouselInv'
  <2> SUFFICES ASSUME CarouselInv, [Next]_widgetVars PROVE CarouselInv' OBVIOUS
  <2>1. CarouselNext \/ UNCHANGED carouselVars BY DEF Next, Using, widgetVars
  <2>2. CASE UNCHANGED carouselVars BY <2>2 DEF CarouselInv, carouselVars, onSelect, CanPrev, CanNext
  <2>3. QED BY <2>1, <2>2, CarouselKept
<1>3. CarouselInv => ButtonsTellTheTruth
  <2> SUFFICES ASSUME CarouselInv, embla.exists
               PROVE  /\ can.prev = (Prev1(embla) # embla)
                      /\ can.next = (Next1(embla) # embla)
                      /\ given.live = given.setApi
                      /\ {ContentAxis, ItemAxis} = {EmblaAxis}
    BY DEF ButtonsTellTheTruth
  <2>1. embla \in Instances /\ can = onSelect(embla) /\ given.live = given.setApi
    BY DEF CarouselInv
  <2>2. can.prev = CanPrev(embla) /\ can.next = CanNext(embla) BY <2>1 DEF onSelect
  <2>3. {ContentAxis, ItemAxis} = {EmblaAxis} BY DEF ContentAxis, ItemAxis, EmblaAxis
  <2>4. QED BY <2>1, <2>2, <2>3, ScrollType
<1>4. QED BY <1>1, <1>2, <1>3, PTL DEF Spec

\* ToasterShowsStore: a mounted component that draws the toasts shows those
\* open in the store, unless it missed one between its render and its effect.
THEOREM ToasterFollows == Spec => []ToasterShowsStore
<1>1. Init => ToastInv BY DEF Init, ToastsInit, ToastInit, ToastInv, Phases
<1>2. ToastInv /\ [Next]_widgetVars => ToastInv'
  <2> SUFFICES ASSUME ToastInv, [Next]_widgetVars PROVE ToastInv' OBVIOUS
  <2>1. ToastNext \/ UNCHANGED toastVars
    BY DEF Next, Using, widgetVars, allToastVars, toastVars, ToastsNext
  <2>2. CASE UNCHANGED toastVars BY <2>2 DEF ToastInv, toastVars
  <2>3. QED BY <2>1, <2>2, ToastKept
<1>3. ToastInv => ToasterShowsStore BY DEF ToastInv, ToasterShowsStore, Shown
<1>4. QED BY <1>1, <1>2, <1>3, PTL DEF Spec

\* Each log of the dashboard is the newest events of its kind, in order, and
\* the row at the top of the shown one is the event that came last.
THEOREM LogsNewest == Spec => []LogsShowNewest
<1>1. Init => LogInv
  <2> SUFFICES ASSUME LogInit PROVE LogInv BY DEF Init
  <2>1. received = [log \in Logs |-> <<>>] /\ Newest(<<>>, LogSize) = <<>>
    BY EventLogsAssumption DEF LogInit, Newest
  <2>2. received \in [Logs -> Seq(LogEntries)]
        /\ received["alarms"] = <<>> /\ received["ai-signals"] = <<>>
    BY <2>1 DEF Logs
  <2> QED BY <2>1, <2>2 DEF LogInit, LogInv, Logs
<1>2. LogInv /\ [Next]_widgetVars => LogInv'
  <2> SUFFICES ASSUME LogInv, [Next]_widgetVars PROVE LogInv' OBVIOUS
  <2>1. LogNext \/ UNCHANGED logVars BY DEF Next, Using, widgetVars
  <2>2. CASE UNCHANGED logVars BY <2>2 DEF LogInv, logVars
  <2> QED BY <2>1, <2>2, LogKept
<1> QED BY <1>1, <1>2, LogInvShows, PTL DEF Spec

=============================================================================
