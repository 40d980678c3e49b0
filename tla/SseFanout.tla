----------------------------- MODULE SseFanout -----------------------------
(***************************************************************************)
(* The event streams of the api-server: SseService keeps one emitter for   *)
(* each user; the Kafka listeners push ticks, anomalies and AI signals to  *)
(* all of them, or a personal tick to the users of its app key             *)
(* (KafkaStockTickConsumer), each listener on its own thread.  The servlet *)
(* container, which reports the end of a stream, is modelled from its use. *)
(***************************************************************************)
EXTENDS Naturals, Sequences

CONSTANTS
    Users,
    Listeners,    \* the threads of the Kafka listeners
    MaxEmitters,  \* bound of the model: streams opened in all
    None

VARIABLES
    emitters,  \* the map: the emitter of a user, or None
    stream,    \* for each emitter made: its user and what became of it, "open",
               \* "gone" (the browser has left, the server does not know),
               \* "completed" (its callback is due) or "over"
    targets,   \* the users a listener has still to push its message to
    next,      \* the user and emitter it is pushing to, or None
    displaced  \* history: emitters whose entry the end of an earlier one has removed

vars == <<emitters, stream, targets, next, displaced>>

\* remove(user), by the emitter e or for it: whatever the entry holds is gone.
RemoveEntry(u, e) ==
    /\ emitters' = [emitters EXCEPT ![u] = None]
    /\ displaced' = displaced \cup ({emitters[u]} \ {e, None})

-----------------------------------------------------------------------------
(* The streams.                                                            *)

\* Mutant: the new emitter is put in the map only when there is none.
SubscribeIfAbsent(u) ==
    /\ Len(stream) < MaxEmitters
    /\ stream' = Append(stream, [user |-> u, is |-> "open"])
    /\ emitters' = [emitters EXCEPT ![u] = IF @ = None THEN Len(stream) + 1 ELSE @]
    /\ UNCHANGED <<targets, next, displaced>>

\* subscribe(): the new emitter takes the place of an earlier one of the user.
subscribe(u) ==
    /\ Len(stream) < MaxEmitters
    /\ stream' = Append(stream, [user |-> u, is |-> "open"])
    /\ emitters' = [emitters EXCEPT ![u] = Len(stream) + 1]
    /\ UNCHANGED <<targets, next, displaced>>

\* The browser closes the stream, or its connection breaks.
Leave(e) ==
    /\ stream[e].is = "open"
    /\ stream' = [stream EXCEPT ![e].is = "gone"]
    /\ UNCHANGED <<emitters, targets, next, displaced>>

\* The container finds out by itself and completes the emitter.
Notice(e) ==
    /\ stream[e].is = "gone"
    /\ stream' = [stream EXCEPT ![e].is = "completed"]
    /\ UNCHANGED <<emitters, targets, next, displaced>>

\* onCompletion, onTimeout and onError: the entry of the user goes, whosever it is.
Callback(e) ==
    /\ stream[e].is = "completed"
    /\ stream' = [stream EXCEPT ![e].is = "over"]
    /\ RemoveEntry(stream[e].user, e)
    /\ UNCHANGED <<targets, next>>

-----------------------------------------------------------------------------
(* The listeners.                                                          *)

Resting(l) == targets[l] = {} /\ next[l] = None

\* broadcast(), broadcastAnomaly() and broadcastAiSignal() go through the map.
Broadcast(l) ==
    /\ Resting(l)
    /\ targets' = [targets EXCEPT ![l] = Users]
    /\ UNCHANGED <<emitters, stream, next, displaced>>

\* A personal tick: sendToUser() for each user of the key.
PushToKey(l) ==
    /\ Resting(l)
    /\ \E us \in SUBSET Users \ {{}} : targets' = [targets EXCEPT ![l] = us]
    /\ UNCHANGED <<emitters, stream, next, displaced>>

\* The next user's emitter is read from the map.
Read(l, u) ==
    /\ next[l] = None /\ u \in targets[l]
    /\ targets' = [targets EXCEPT ![l] = @ \ {u}]
    /\ next' = [next EXCEPT ![l] = IF emitters[u] = None THEN None ELSE [user |-> u, emitter |-> emitters[u]]]
    /\ UNCHANGED <<emitters, stream, displaced>>

Pushing(l, states) == next[l] # None /\ stream[next[l].emitter].is \in states

\* send() goes out; what is written to a broken connection may seem to.
Sent(l) ==
    /\ Pushing(l, {"open", "gone"})
    /\ next' = [next EXCEPT ![l] = None]
    /\ UNCHANGED <<emitters, stream, targets, displaced>>

\* send() throws an IOException: the entry of the user goes.
SendFails(l) ==
    /\ Pushing(l, {"gone"})
    /\ RemoveEntry(next[l].user, next[l].emitter)
    /\ next' = [next EXCEPT ![l] = None]
    /\ UNCHANGED <<stream, targets>>

\* A completed emitter refuses with another exception, which nobody catches before
\* the listener: the rest of the users get nothing of this message.
SendRefused(l) ==
    /\ Pushing(l, {"completed", "over"})
    /\ next' = [next EXCEPT ![l] = None]
    /\ targets' = [targets EXCEPT ![l] = {}]
    /\ UNCHANGED <<emitters, stream, displaced>>

-----------------------------------------------------------------------------
Init ==
    /\ emitters = [u \in Users |-> None]
    /\ stream = <<>>
    /\ targets = [l \in Listeners |-> {}]
    /\ next = [l \in Listeners |-> None]
    /\ displaced = {}

\* What a listener does with a message it has.
Work(l) ==
    \/ \E u \in Users : Read(l, u)
    \/ Sent(l) \/ SendFails(l) \/ SendRefused(l)

Next ==
    \/ \E u \in Users : subscribe(u)
    \/ \E e \in DOMAIN stream : Leave(e) \/ Notice(e) \/ Callback(e)
    \/ \E l \in Listeners : Broadcast(l) \/ PushToKey(l) \/ Work(l)

Spec == Init /\ [][Next]_vars

-----------------------------------------------------------------------------
(* Properties.                                                             *)

Newest(e) == \A f \in DOMAIN stream : stream[f].user = stream[e].user => f <= e

\* "To all connected users": the open stream a user has opened last is in the map,
\* whatever other emitters fail or end in the middle of a broadcast, but for one
\* whose entry the late end of an earlier stream of the user has removed; and an
\* emitter whose end was reported is no longer there.
ConnectedIsRegistered ==
    \A e \in DOMAIN stream :
        /\ stream[e].is = "open" /\ Newest(e) /\ e \notin displaced => emitters[stream[e].user] = e
        /\ stream[e].is = "over" => emitters[stream[e].user] # e

=============================================================================
