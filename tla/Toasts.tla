------------------------------- MODULE Toasts -------------------------------
(***************************************************************************)
(* The toasts of the web application: the store of hooks/use-toast.ts with *)
(* the Toaster that shows it (components/ui/toaster.tsx), and the second   *)
(* copy of the store in components/ui/use-toast.ts, whose module-level     *)
(* state is its own: no component calls its useToast().                    *)
(***************************************************************************)
EXTENDS ToastStore

VARIABLE copyStore     \* memoryState, toastTimeouts and count of the copy

allToastVars == <<store, hooks, copyStore>>

\* No component listens to the copy; one toast of it is enough to tell the two
\* stores apart.
Copy == INSTANCE ToastStore WITH store <- copyStore, hooks <- <<>>, Hooks <- {},
                                 MaxToasts <- 1

\* The toasts a component that draws them shows: one with the id as its key
\* for each entry of its list, visible while open.
Shown(h) == {hooks[h].state[i].id : i \in {j \in DOMAIN hooks[h].state : hooks[h].state[j].open}}

ToastsInit == ToastInit /\ Copy!ToastInit

\* A call of the copy's toast() and its handles, and its timers.
CopyNext ==
    \/ Copy!Toast
    \/ \E id \in Copy!Ids : Copy!Dismiss(id)
    \/ \E id \in Copy!Ids : Copy!Expire(id)

ToastsNext ==
    \/ ToastNext /\ UNCHANGED copyStore
    \/ CopyNext /\ UNCHANGED toastVars

-----------------------------------------------------------------------------
(* Properties.                                                             *)

\* A mounted Toaster shows exactly the toasts open in the store, through every
\* unmounting and re-subscription of any component, unless a toast came
\* between its render and its effect and none since.
ToasterShowsStore ==
    \A h \in Hooks :
        hooks[h].phase # "out" /\ ~hooks[h].missed =>
            Shown(h) = {store.toasts[i].id : i \in {j \in DOMAIN store.toasts :
                                                      store.toasts[j].open}}

=============================================================================
