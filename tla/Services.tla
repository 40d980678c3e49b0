------------------------------ MODULE Services ------------------------------
(***************************************************************************)
(* The services behind the pages: the two branches of the engine that end  *)
(* in orders, the live feed and the event streams of the api-server.  They *)
(* reach one another through Kafka only, and each module takes what may    *)
(* come from there as it comes, so they share no state.  A behaviour uses  *)
(* one of them, the focus, so that their states add up and do not          *)
(* multiply.                                                               *)
(***************************************************************************)
EXTENDS SwingTrading

CONSTANTS
    Tickers,
    Window, Volumes, Prices, HighZ2, MediumZ2, LowZ2, HighPct, MediumPct,
    MaxQueue, MaxOrders, NoEvent,
    Users, Keys, NoKey, Threads, MaxSessions, MaxRestarts, Idle,
    Listeners, MaxEmitters, None

VARIABLES
    focus,                                                    \* the service in use
    volumes, stats, prices, signal, bus, handling, positions, given,  \* Scalping
    keyOf, rows, registered, sessions, ws, call, monitor, boot,
    restarts, unmapped,                                       \* KisFeed
    emitters, stream, targets, next, displaced                \* SseFanout

Scalps == INSTANCE Scalping WITH queue <- bus, orders <- given
Feed == INSTANCE KisFeed WITH displaced <- unmapped
Streams == INSTANCE SseFanout

scalpVars == <<volumes, stats, prices, signal, bus, handling, positions, given>>
kisVars == <<keyOf, rows, registered, sessions, ws, call, monitor, boot, restarts, unmapped>>
streamVars == <<emitters, stream, targets, next, displaced>>
servicesVars == <<focus, vars, scalpVars, kisVars, streamVars>>

ServicesInit ==
    /\ focus \in {"swing", "scalping", "feed", "streams"}
    /\ Init /\ Scalps!Init /\ Feed!Init /\ Streams!Init
    /\ focus # "feed" => \A u \in Users : keyOf[u] = NoKey

\* The service s makes the step and the others none.
Using(s) ==
    /\ focus = s
    /\ UNCHANGED focus
    /\ s # "swing" => UNCHANGED vars
    /\ s # "scalping" => UNCHANGED scalpVars
    /\ s # "feed" => UNCHANGED kisVars
    /\ s # "streams" => UNCHANGED streamVars

ServicesNext ==
    \/ Using("swing") /\ Next
    \/ Using("scalping") /\ Scalps!Next
    \/ Using("feed") /\ Feed!Next
    \/ Using("streams") /\ Streams!Next

ServicesSpec == ServicesInit /\ [][ServicesNext]_servicesVars

-----------------------------------------------------------------------------
(* What is checked of the services without proofs; the comments in their   *)
(* modules say what each states.                                           *)

\* The statistics of the scalping path are those of the window (Scalping).
StatsAreTheWindows == Scalps!StatsAreTheWindows

\* A ticker is bought and asked to be sold in turns (Scalping).
OrdersAlternate == Scalps!OrdersAlternate

\* An open session is the one the client knows for its key (KisFeed).
OneFeedPerKey == Feed!OneFeedPerKey

\* An open stream is the one broadcasts go to (SseFanout).
ConnectedIsRegistered == Streams!ConnectedIsRegistered

=============================================================================
