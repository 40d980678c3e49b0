------------------------------ MODULE KisFeed ------------------------------
(***************************************************************************)
(* The live feed of the api-server: the websocket sessions KisWebSocket-   *)
(* Client keeps with the broker, one for each app key, and the calls of    *)
(* SubscriptionService that open, fill and empty them, on request threads  *)
(* and, after a restart, on the thread that handles ApplicationReadyEvent. *)
(* The cached list of a user is in WatchList; the initial price changes no *)
(* state of the feed and is left out, as is what a tick carries.           *)
(***************************************************************************)
EXTENDS Naturals, Sequences

CONSTANTS
    Users, Keys, Tickers,
    NoKey,        \* the kisApiKey of a user who has none, or of a session not told yet
    Threads,      \* request threads
    MaxSessions,  \* bound of the model: sessions opened in all
    MaxRestarts,  \* bound of the model
    Idle          \* a thread without a call, no thread, or no session

VARIABLES
    keyOf,        \* kisApiKey of each user
    rows,         \* committed subscriptions, pairs of user and ticker
    registered,   \* appKeyToUsers
    sessions,     \* the client's map: the session of an app key
    ws,           \* every session opened: its appKey attribute, whether it is open,
                  \* whether afterConnectionClosed() is still to come, and the
                  \* tickers the broker streams on it
    call,         \* what each thread is doing
    monitor,      \* the thread inside the synchronized client
    boot,         \* what initSubscriptions() has still to subscribe
    restarts,
    displaced     \* sessions whose entry the close of another one has removed

clientVars == <<sessions, ws, monitor, displaced>>
vars == <<keyOf, rows, registered, clientVars, call, boot, restarts>>

isOpen(s) == s # Idle /\ ws[s].open

\* The thread r is at a step of its call, goes on to another, or is done.
At(r, step) == call[r] # Idle /\ call[r].step = step
GoesTo(r, step) == call' = [call EXCEPT ![r].step = step]
Done(r) == call' = [call EXCEPT ![r] = Idle]

Starts(r, op, b, step) ==
    /\ call[r] = Idle
    /\ call' = [call EXCEPT ![r] = [op |-> op, user |-> b.user, key |-> b.key,
                                    tickers |-> b.tickers, session |-> Idle, step |-> step,
                                    deleted |-> rows \cap ({b.user} \X b.tickers)]]

-----------------------------------------------------------------------------
(* SubscriptionService.                                                    *)

\* subscribe(): an existing row ends the call, and so does the unique constraint
\* when another call is inserting the row.
StartSubscribe(r, u, t) ==
    /\ <<u, t>> \notin rows
    /\ \A q \in Threads : call[q] # Idle /\ call[q].op = "subscribe"
                          => call[q].user # u \/ call[q].tickers # {t}
    /\ Starts(r, "subscribe", [user |-> u, key |-> keyOf[u], tickers |-> {t}], "register")
    /\ UNCHANGED <<keyOf, rows, registered, clientVars, boot, restarts>>

\* unsubscribe(): the row, if there is one, is deleted first, and gone for others
\* with the commit.
StartUnsubscribe(r, u, t) ==
    /\ Starts(r, "unsubscribe", [user |-> u, key |-> keyOf[u], tickers |-> {t}], "enter")
    /\ UNCHANGED <<keyOf, rows, registered, clientVars, boot, restarts>>

\* initSubscriptions(): the next user of the rows found at start-up, beside the
\* first requests.
InitSubscription(r) ==
    /\ \E b \in boot : Starts(r, "init", b, "register") /\ boot' = boot \ {b}
    /\ UNCHANGED <<keyOf, rows, registered, clientVars, restarts>>

\* registerAppKey(): a user once registered stays so.
RegisterAppKey(r) ==
    /\ At(r, "register")
    /\ registered' = IF call[r].key = NoKey THEN registered
                     ELSE [registered EXCEPT ![call[r].key] = @ \cup {call[r].user}]
    /\ GoesTo(r, "enter")
    /\ UNCHANGED <<keyOf, rows, clientVars, boot, restarts>>

\* The end of the transaction, or its rollback.
Finish(r) ==
    /\ \/ At(r, "commit")
          /\ rows' = CASE call[r].op = "subscribe"   -> rows \cup ({call[r].user} \X call[r].tickers)
                       [] call[r].op = "unsubscribe" -> rows \ call[r].deleted
                       [] OTHER                      -> rows
       \/ At(r, "rollback") /\ UNCHANGED rows
    /\ Done(r)
    /\ UNCHANGED <<keyOf, registered, clientVars, boot, restarts>>

\* updateKisKeys() of UserService: the new key is valid, the feed is not told.
UpdateKisKeys(u, k) ==
    /\ keyOf[u] # k
    /\ keyOf' = [keyOf EXCEPT ![u] = k]
    /\ UNCHANGED <<rows, registered, clientVars, call, boot, restarts>>

-----------------------------------------------------------------------------
(* KisWebSocketClient.  Its methods are synchronized, the callback is not. *)

\* Mutant: the methods are not synchronized.
FreeForAll == TRUE

\* The client's monitor can be entered.
Free == monitor = Idle

Leave(r) == monitor' = Idle /\ GoesTo(r, "commit")

\* performSubscribe(): without an approval key nothing is done (a null app key has
\* none), an open session is used again.
EnterSubscribe(r) ==
    /\ At(r, "enter") /\ call[r].op # "unsubscribe" /\ Free
    /\ \/ GoesTo(r, "commit") /\ UNCHANGED monitor
       \/ LET key == call[r].key
          IN /\ key # NoKey
             /\ monitor' = r
             /\ IF isOpen(sessions[key])
                THEN call' = [call EXCEPT ![r].step = "send", ![r].session = sessions[key]]
                ELSE GoesTo(r, "connect")
    /\ UNCHANGED <<keyOf, rows, registered, sessions, ws, displaced, boot, restarts>>

\* client.execute().get(), which may throw; the session does not know its key yet.
Connect(r) ==
    /\ At(r, "connect")
    /\ \/ Leave(r) /\ UNCHANGED ws
       \/ /\ Len(ws) < MaxSessions
          /\ ws' = Append(ws, [key |-> NoKey, open |-> TRUE, closing |-> FALSE, feed |-> {}])
          /\ call' = [call EXCEPT ![r].step = "put", ![r].session = Len(ws) + 1]
          /\ UNCHANGED monitor
    /\ UNCHANGED <<keyOf, rows, registered, sessions, displaced, boot, restarts>>

\* The attribute and the map entry.
PutSession(r) ==
    /\ At(r, "put")
    /\ ws' = [ws EXCEPT ![call[r].session].key = call[r].key]
    /\ sessions' = [sessions EXCEPT ![call[r].key] = call[r].session]
    /\ GoesTo(r, "send")
    /\ UNCHANGED <<keyOf, rows, registered, monitor, displaced, boot, restarts>>

\* performUnsubscribe(): a null key makes the map throw, and the transaction is
\* rolled back; without an open session, or an approval key, the call goes on.
EnterUnsubscribe(r) ==
    /\ At(r, "enter") /\ call[r].op = "unsubscribe" /\ Free
    /\ LET key == call[r].key
       IN \/ key = NoKey /\ GoesTo(r, "rollback") /\ UNCHANGED monitor
          \/ key # NoKey /\ ~isOpen(sessions[key]) /\ GoesTo(r, "commit") /\ UNCHANGED monitor
          \/ key # NoKey /\ isOpen(sessions[key])
             /\ \/ GoesTo(r, "commit") /\ UNCHANGED monitor
                \/ /\ monitor' = r
                   /\ call' = [call EXCEPT ![r].step = "send", ![r].session = sessions[key]]
    /\ UNCHANGED <<keyOf, rows, registered, sessions, ws, displaced, boot, restarts>>

\* sendMessage() for each ticker: the broker starts or stops streaming it; on a
\* session closed meanwhile it throws, and the call goes on.
SendMessages(r) ==
    /\ At(r, "send")
    /\ LET s == call[r].session
       IN ws' = IF ~ws[s].open THEN ws
                ELSE [ws EXCEPT ![s].feed = IF call[r].op = "unsubscribe" THEN @ \ call[r].tickers
                                            ELSE @ \cup call[r].tickers]
    /\ Leave(r)
    /\ UNCHANGED <<keyOf, rows, registered, sessions, displaced, boot, restarts>>

\* The connection breaks; nobody opens it again by itself.
Close(s) ==
    /\ ws[s].open
    /\ ws' = [ws EXCEPT ![s].open = FALSE, ![s].closing = TRUE, ![s].feed = {}]
    /\ UNCHANGED <<keyOf, rows, registered, sessions, monitor, displaced, call, boot, restarts>>

\* afterConnectionClosed(), on a thread of the websocket library.
afterConnectionClosed(s) ==
    /\ ws[s].closing
    /\ ws' = [ws EXCEPT ![s].closing = FALSE]
    /\ IF ws[s].key = NoKey
       THEN UNCHANGED <<sessions, displaced>>
       ELSE /\ sessions' = [sessions EXCEPT ![ws[s].key] = Idle]
            /\ displaced' = displaced \cup ({sessions[ws[s].key]} \ {s, Idle})
    /\ UNCHANGED <<keyOf, rows, registered, monitor, call, boot, restarts>>

\* The process is started again: what was not committed and what was in memory is
\* gone, and the rows are read for initSubscriptions().
Restart ==
    /\ restarts < MaxRestarts
    /\ restarts' = restarts + 1
    /\ registered' = [k \in Keys |-> {}]
    /\ sessions' = [k \in Keys |-> Idle]
    /\ ws' = <<>> /\ displaced' = {}
    /\ call' = [r \in Threads |-> Idle] /\ monitor' = Idle
    /\ boot' = {b \in {[user |-> u, key |-> keyOf[u], tickers |-> {t \in Tickers : <<u, t>> \in rows}]
                          : u \in Users} : b.tickers # {}}
    /\ UNCHANGED <<keyOf, rows>>

-----------------------------------------------------------------------------
Init ==
    /\ keyOf \in [Users -> Keys \cup {NoKey}]
    /\ rows = {}
    /\ registered = [k \in Keys |-> {}]
    /\ sessions = [k \in Keys |-> Idle]
    /\ ws = <<>>
    /\ call = [r \in Threads |-> Idle]
    /\ monitor = Idle
    /\ boot = {}
    /\ restarts = 0
    /\ displaced = {}

Step(r) ==
    \/ \E u \in Users, t \in Tickers : StartSubscribe(r, u, t) \/ StartUnsubscribe(r, u, t)
    \/ InitSubscription(r)
    \/ RegisterAppKey(r)
    \/ EnterSubscribe(r) \/ Connect(r) \/ PutSession(r)
    \/ EnterUnsubscribe(r)
    \/ SendMessages(r)
    \/ Finish(r)

Next ==
    \/ \E r \in Threads : Step(r)
    \/ \E u \in Users, k \in Keys : UpdateKisKeys(u, k)
    \/ \E s \in DOMAIN ws : Close(s) \/ afterConnectionClosed(s)
    \/ Restart

Spec == Init /\ [][Next]_vars

-----------------------------------------------------------------------------
(* Properties.                                                             *)

\* A session that is open and knows its key is the one the map has for the key, so
\* that no feed runs that nobody can stop, over calls of all threads, breaks at any
\* moment and restarts; but for one whose entry the late close of an earlier session
\* has removed.
OneFeedPerKey ==
    \A s \in DOMAIN ws :
        ws[s].open /\ ws[s].key # NoKey /\ s \notin displaced => sessions[ws[s].key] = s

=============================================================================
