----------------------------- MODULE EventLogs -----------------------------
(***************************************************************************)
(* The two logs of the dashboard: anomaly alerts and AI signals, as the    *)
(* event stream hands them to app/page.tsx and alarm-log.tsx and           *)
(* ai-signal-log.tsx show them behind two tabs.  Only the log of the       *)
(* active tab is mounted; `top` is the first row in its viewport.          *)
(***************************************************************************)
EXTENDS Naturals, SequencesExt

CONSTANTS
    LogSize,    \* entries a log keeps (50 in the code)
    LogTickers, \* tickers of the events
    MaxEvents   \* bound on the events received

ASSUME EventLogsAssumption == LogSize \in Nat \ {0} /\ MaxEvents \in Nat

VARIABLES
    alarms,     \* the alarm entries, newest first
    aiSignals,  \* the AI signal entries, newest first
    tab,        \* the active tab
    top,        \* rows scrolled out above the viewport
    moved,      \* history: the reader scrolled since the shown log changed
    received    \* history: the entries received for each log, oldest first

logVars == <<alarms, aiSignals, tab, top, moved, received>>

Logs == {"alarms", "ai-signals"}
Severities == {"HIGH", "MEDIUM", "LOW"}
Directions == {"BUY_READY", "SELL_READY", "NEUTRAL"}

-----------------------------------------------------------------------------
(* The handlers of the event stream.                                       *)

KeepOldest(prev, entry) ==       \* mutant: a full log drops the new entry
    IF Len(prev) = LogSize THEN prev ELSE <<entry>> \o prev

\* [entry, ...prev.slice(0, LogSize - 1)]
Prepend(prev, entry) ==
    <<entry>> \o (IF Len(prev) < LogSize THEN prev ELSE SubSeq(prev, 1, LogSize - 1))

\* The effect of a log on a new list: it scrolls to the top; a log that is not
\* mounted has no effect to run.
ScrollToTop(log) ==
    IF tab = log THEN top' = 0 /\ moved' = FALSE ELSE UNCHANGED <<top, moved>>

Receive(log, entry) ==
    /\ Len(received["alarms"]) + Len(received["ai-signals"]) < MaxEvents
    /\ received' = [received EXCEPT ![log] = Append(@, entry)]
    /\ ScrollToTop(log)
    /\ UNCHANGED tab

\* "anomaly-alert" and "ai-signal": an entry is identified by ticker and
\* millisecond; at most one of either per step of the clock is told apart, so
\* that the same event delivered twice is two entries with one id.
AnomalyAlert(t, ms, severity) ==
    LET entry == [id |-> <<t, ms>>, severity |-> severity]
    IN  /\ alarms' = Prepend(alarms, entry)
        /\ Receive("alarms", entry)
        /\ UNCHANGED aiSignals

AiSignal(t, ms, direction) ==
    LET entry == [id |-> <<t, ms>>, direction |-> direction]
    IN  /\ aiSignals' = Prepend(aiSignals, entry)
        /\ Receive("ai-signals", entry)
        /\ UNCHANGED alarms

-----------------------------------------------------------------------------
(* What the two logs draw: their rows, top to bottom.                      *)

AlarmIcon(severity) ==
    CASE severity = "HIGH" -> "Zap" [] severity = "MEDIUM" -> "TrendingUp"
      [] OTHER -> "Activity"

\* The figures a message mentions: a low alarm is one of volume only.
Message(severity) == IF severity = "LOW" THEN {"zscore"} ELSE {"zscore", "price change"}

AlarmRows ==
    [i \in DOMAIN alarms |->
        [key |-> alarms[i].id, icon |-> AlarmIcon(alarms[i].severity),
         message |-> Message(alarms[i].severity), animated |-> i = 1]]

SignalIcon(direction) ==
    CASE direction = "BUY_READY" -> "TrendingUp" [] direction = "SELL_READY" -> "TrendingDown"
      [] OTHER -> "Minus"

SignalRows ==
    [i \in DOMAIN aiSignals |->
        [key |-> aiSignals[i].id, icon |-> SignalIcon(aiSignals[i].direction),
         animated |-> i = 1]]

Rows == IF tab = "alarms" THEN AlarmRows ELSE SignalRows

-----------------------------------------------------------------------------
(* The reader.                                                             *)

\* Another tab unmounts the log shown and mounts the other at its top.
SelectTab(log) ==
    /\ log # tab
    /\ tab' = log /\ top' = 0 /\ moved' = FALSE
    /\ UNCHANGED <<alarms, aiSignals, received>>

Scroll(row) ==
    /\ row # top /\ row < Len(Rows)
    /\ top' = row /\ moved' = TRUE
    /\ UNCHANGED <<alarms, aiSignals, tab, received>>

LogInit ==
    /\ alarms = <<>> /\ aiSignals = <<>>
    /\ tab = "alarms" /\ top = 0 /\ moved = FALSE
    /\ received = [log \in Logs |-> <<>>]

LogNext ==
    \/ \E t \in LogTickers, ms \in {0, 1}, s \in Severities : AnomalyAlert(t, ms, s)
    \/ \E t \in LogTickers, ms \in {0, 1}, d \in Directions : AiSignal(t, ms, d)
    \/ \E log \in Logs : SelectTab(log)
    \/ \E row \in 0..LogSize : Scroll(row)

-----------------------------------------------------------------------------
(* Properties.                                                             *)

\* The newest n of a sequence of entries, newest first.
Newest(s, n) ==
    [i \in 1..(IF Len(s) < n THEN Len(s) ELSE n) |-> s[Len(s) + 1 - i]]

\* Each log is the newest LogSize events of its kind, in order; and unless the
\* reader has scrolled since the log on screen changed, the first row in view
\* is the event that came last, whatever came for the other log meanwhile.
LogsShowNewest ==
    /\ alarms = Newest(received["alarms"], LogSize)
    /\ aiSignals = Newest(received["ai-signals"], LogSize)
    /\ ~moved /\ received[tab] # <<>> =>
          /\ Rows[top + 1].key = Last(received[tab]).id
          /\ Rows[top + 1].animated

=============================================================================
