----------------------------- MODULE ToastStore -----------------------------
(***************************************************************************)
(* The toast store (hooks/use-toast.ts): the module-level list of toasts   *)
(* with its removal timers, and the components that call useToast().  A    *)
(* component renders with the list of that moment and listens from its     *)
(* effect on, a later step.                                                *)
(***************************************************************************)
EXTENDS Naturals, SequencesExt

CONSTANTS
    TOAST_LIMIT,  \* toasts kept
    Hooks,        \* the components that call useToast()
    MaxToasts     \* bound on the calls of toast()

ASSUME ToastStoreAssumption == TOAST_LIMIT \in Nat \ {0} /\ MaxToasts \in Nat

VARIABLES
    store,   \* memoryState, toastTimeouts, count; history: ids dismissed
    hooks    \* per component: phase, its state, history: missed a dispatch

toastVars == <<store, hooks>>

Ids == 1..MaxToasts
Phases == {"out", "rendered", "listening"}

-----------------------------------------------------------------------------
(* The reducer.                                                            *)

IdsOf(toasts) == {toasts[i].id : i \in DOMAIN toasts}

\* ADD_TOAST: in front, and the list cut to the limit.
AddToast(toasts, id) ==
    LET all == <<[id |-> id, open |-> TRUE]>> \o toasts
    IN  SubSeq(all, 1, IF Len(all) < TOAST_LIMIT THEN Len(all) ELSE TOAST_LIMIT)

\* UPDATE_TOAST: the fields given replace those of the toast.
UpdateToast(toasts, id, open) ==
    [i \in DOMAIN toasts |->
        IF toasts[i].id = id THEN [toasts[i] EXCEPT !.open = open] ELSE toasts[i]]

\* DISMISS_TOAST: the toasts named are closed.
CloseToasts(toasts, ids) ==
    [i \in DOMAIN toasts |->
        IF toasts[i].id \in ids THEN [toasts[i] EXCEPT !.open = FALSE] ELSE toasts[i]]

\* REMOVE_TOAST.
RemoveToast(toasts, id) == SelectSeq(toasts, LAMBDA t : t.id # id)

InvertedCheck(timers, ids) == timers   \* mutant: returns unless a timer exists

\* addToRemoveQueue, for each id: one timer per id.
AddToRemoveQueue(timers, ids) == timers \cup ids

DispatchSkips(s) ==               \* mutant: the listeners after the first are skipped
    /\ store' = s
    /\ hooks' = [h \in Hooks |->
                    IF hooks[h].phase = "listening"
                       /\ h = CHOOSE g \in Hooks : hooks[g].phase = "listening"
                    THEN [hooks[h] EXCEPT !.state = s.toasts, !.missed = FALSE]
                    ELSE hooks[h]]

\* dispatch: the listening components take the new list (each leaves and joins
\* the listeners again as its effect on the list re-runs); one that has
\* rendered but not yet listened misses it.
Dispatch(s) ==
    /\ store' = s
    /\ hooks' = [h \in Hooks |->
                    CASE hooks[h].phase = "listening" ->
                            [hooks[h] EXCEPT !.state = s.toasts, !.missed = FALSE]
                      [] hooks[h].phase = "rendered" -> [hooks[h] EXCEPT !.missed = TRUE]
                      [] OTHER -> hooks[h]]

-----------------------------------------------------------------------------
(* The callers.                                                            *)

\* toast(): a new id, genId's counter, and the toast added open.
Toast ==
    /\ store.count < MaxToasts
    /\ Dispatch([store EXCEPT !.count = @ + 1, !.toasts = AddToast(@, store.count + 1)])

\* update() of the handle a caller of toast() holds.
Update(id, open) ==
    /\ id <= store.count
    /\ Dispatch([store EXCEPT !.toasts = UpdateToast(@, id, open)])

DispatchDismiss(ids) ==
    Dispatch([store EXCEPT !.timers = AddToRemoveQueue(@, ids),
                           !.toasts = CloseToasts(@, ids),
                           !.dismissed = @ \cup ids])

\* dismiss() of the handle, also after the toast has left the list.
Dismiss(id) == id <= store.count /\ DispatchDismiss({id})

\* The hook's dismiss without an id: every toast in the list.
DismissAll == DispatchDismiss(IdsOf(store.toasts))

\* The close button, a swipe or the display time of a toast a component shows
\* open: onOpenChange(false).
CloseShown(h, id) ==
    /\ hooks[h].phase # "out"
    /\ \E i \in DOMAIN hooks[h].state :
          hooks[h].state[i].id = id /\ hooks[h].state[i].open
    /\ DispatchDismiss({id})

\* The removal timer of a dismissed toast.
Expire(id) ==
    /\ id \in store.timers
    /\ Dispatch([store EXCEPT !.timers = @ \ {id}, !.toasts = RemoveToast(@, id)])

-----------------------------------------------------------------------------
(* useToast().                                                             *)

\* The first render: useState(memoryState).
Render(h) ==
    /\ hooks[h].phase = "out"
    /\ hooks' = [hooks EXCEPT ![h] = [phase |-> "rendered", state |-> store.toasts,
                                      missed |-> FALSE]]
    /\ UNCHANGED store

\* Its effect: the listener joins; what was dispatched meanwhile is not read.
Listen(h) ==
    /\ hooks[h].phase = "rendered"
    /\ hooks' = [hooks EXCEPT ![h].phase = "listening"]
    /\ UNCHANGED store

Unmount(h) ==
    /\ hooks[h].phase = "listening"
    /\ hooks' = [hooks EXCEPT ![h] = [phase |-> "out", state |-> <<>>, missed |-> FALSE]]
    /\ UNCHANGED store

ToastInit ==
    /\ store = [toasts |-> <<>>, timers |-> {}, count |-> 0, dismissed |-> {}]
    /\ hooks = [h \in Hooks |-> [phase |-> "out", state |-> <<>>, missed |-> FALSE]]

ToastNext ==
    \/ Toast
    \/ \E id \in Ids, open \in BOOLEAN : Update(id, open)
    \/ \E id \in Ids : Dismiss(id)
    \/ DismissAll
    \/ \E h \in Hooks, id \in Ids : CloseShown(h, id)
    \/ \E id \in Ids : Expire(id)
    \/ \E h \in Hooks : Render(h)
    \/ \E h \in Hooks : Listen(h)
    \/ \E h \in Hooks : Unmount(h)

-----------------------------------------------------------------------------
(* Properties.                                                             *)

\* A dismissed toast leaves the list for good, also when an update opened it
\* again or it was dismissed twice: its timer is never lost.
DismissedLeave ==
    \A id \in Ids :
        (id \in store.dismissed) ~> [](id \notin IdsOf(store.toasts))

=============================================================================
