------------------------------- MODULE WebApp -------------------------------
(***************************************************************************)
(* The pages of the web application together: the session decides which    *)
(* page is shown, and the dashboard with its watch list is mounted exactly *)
(* while it is the page "home".                                            *)
(***************************************************************************)
EXTENDS Session, WatchList

CONSTANT MaxTogether   \* bound on the calls of both in flight together

ASSUME WebAppAssumption == MaxTogether \in Nat \ {0}

webVars == <<sessionVars, watchVars>>

\* The router moves: entering the dashboard mounts it, leaving unmounts it; the
\* script lives on and its handlers with it.
MountByRoute ==
    \/ /\ page # "home" /\ page' = "home" /\ Room
       /\ OpenDashboard(calls)
       /\ UNCHANGED <<rows, cache, inputs, raced>>
    \/ /\ page = "home" /\ page' # "home"
       /\ CloseDashboard("script")
       /\ UNCHANGED <<rows, cache, inputs, raced>>
    \/ /\ (page = "home") = (page' = "home")
       /\ UNCHANGED watchVars

\* A full load: whatever was in flight goes on at the server, unheard.
MountByLoad ==
    /\ \/ page' = "home" /\ Room /\ OpenDashboard(Hush(calls, "none"))
       \/ page' # "home" /\ CloseDashboard("none")
    /\ UNCHANGED <<rows, cache, inputs, raced>>

Init == SessionInit /\ WatchInit

Next ==
    /\ \/ StayStep /\ UNCHANGED watchVars
       \/ RouteStep /\ MountByRoute
       \/ LoadStep /\ MountByLoad
       \/ WatchNext /\ UNCHANGED sessionVars
    /\ Len(auth') + Len(calls') <= MaxTogether

Spec == Init /\ [][Next]_webVars

-----------------------------------------------------------------------------
(* Properties.                                                             *)

\* The tick stream is connected exactly while the dashboard is shown, and then
\* with a stored token: logging out, a refused profile or a browser restart
\* never leaves it open; and the two copies of the token stay in step.
SessionAgrees ==
    /\ GuardAgreesWithPages
    /\ open = (page = "home")
    /\ open => storage

=============================================================================
