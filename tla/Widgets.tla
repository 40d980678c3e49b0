------------------------------ MODULE Widgets ------------------------------
(***************************************************************************)
(* The parts of the page that share no state with one another: the event   *)
(* logs of the dashboard, the toasts, and the sidebar and carousel of the  *)
(* component library.  A behaviour uses one of them, the focus, so that    *)
(* their states add up and do not multiply.                                *)
(***************************************************************************)
EXTENDS EventLogs, Toasts, Sidebar, Carousel

VARIABLE focus   \* the part in use

Parts == {"logs", "toasts", "sidebar", "carousel"}

widgetVars ==
    <<focus, logVars, allToastVars, sidebarVars, carouselVars>>

\* One of the initial states a part may be in, for a behaviour that does not
\* use it.
AtRest ==
    /\ focus # "sidebar" =>
          /\ owner = [handler |-> FALSE, prop |-> Unset, defaultOpen |-> TRUE]
          /\ collapsible = "offcanvas" /\ ~narrow
    /\ focus # "carousel" => ~embla.loop /\ ~given.setApi /\ axis.orientation = "none" /\ axis.opts = "x"

Init ==
    /\ focus \in Parts
    /\ LogInit /\ ToastsInit /\ SidebarInit /\ CarouselInit
    /\ AtRest

\* The part p makes the step and the others none.
Using(p) ==
    /\ focus = p
    /\ UNCHANGED focus
    /\ p # "logs" => UNCHANGED logVars
    /\ p # "toasts" => UNCHANGED allToastVars
    /\ p # "sidebar" => UNCHANGED sidebarVars
    /\ p # "carousel" => UNCHANGED carouselVars

ToastTimer(id) == Using("toasts") /\ Expire(id) /\ UNCHANGED copyStore

Next ==
    \/ Using("logs") /\ LogNext
    \/ Using("toasts") /\ ToastsNext
    \/ Using("sidebar") /\ SidebarNext
    \/ Using("carousel") /\ CarouselNext

\* The browser fires every timer that was set.
TimersFire == \A id \in Ids : WF_widgetVars(ToastTimer(id))

Spec == Init /\ [][Next]_widgetVars /\ TimersFire

=============================================================================
