------------------------------ MODULE EventBus ------------------------------
(***************************************************************************)
(* trading::EventBus (trading-engine/src/events/event_bus.hpp): for each   *)
(* event type a queue under a mutex, a condition variable and a dispatch   *)
(* thread that calls the handlers outside the lock; and the destructor,    *)
(* which runs when main() returns, after the threads that publish have     *)
(* been joined (main.cpp:275-280).                                         *)
(*                                                                         *)
(* A condition variable is the set of threads blocked on it: wait() gives  *)
(* up the mutex and blocks in one step, notify_one() and notify_all() wake *)
(* whoever is blocked at that moment, and a blocked thread may wake up     *)
(* spuriously.                                                             *)
(***************************************************************************)
EXTENDS Naturals, Sequences, FiniteSets

CONSTANTS Types,        \* event types: scalping and swing
          SlowTypes,    \* the types whose handlers may never return
          Publishers,   \* threads that publish
          TypeOf,       \* publisher -> the type of the events it publishes
          MaxEvents     \* bound: events of one publisher

ASSUME BusAssumption == /\ SlowTypes \subseteq Types
                        /\ TypeOf \in [Publishers -> Types]
                        /\ MaxEvents \in Nat

VARIABLES
    queue,          \* type -> the queued events
    handlers,       \* type -> the number of subscribed handlers
    running,        \* running_
    locked,         \* type -> the dispatch thread holds the queue mutex
    blocked,        \* type -> the dispatch thread is blocked in cv.wait()
    dpc,            \* type -> where the dispatch thread is in dispatch_loop()
    event,          \* type -> its local event
    ppc,            \* publisher -> where it is in publish()
    sent,           \* publisher -> events published so far
    main,           \* where main() is
    published,      \* history: type -> events in the order they were queued
    handled         \* history: type -> events the handlers have been called with

busVars == <<queue, handlers, running, locked, blocked>>
dispatchVars == <<dpc, event, handled>>
publishVars == <<ppc, sent, published>>
vars == <<busVars, dispatchVars, publishVars, main>>

Events == Publishers \X (1 .. MaxEvents)
NoEvent == <<>>

TypeOK ==
    /\ queue \in [Types -> Seq(Events)]
    /\ handlers \in [Types -> 0 .. 1]
    /\ running \in BOOLEAN
    /\ locked \in [Types -> BOOLEAN]
    /\ blocked \in [Types -> BOOLEAN]
    /\ dpc \in [Types -> {"loop", "lock", "wait", "block", "asleep", "drain",
                          "handle", "relock", "done"}]
    /\ event \in [Types -> Events \cup {NoEvent}]
    /\ ppc \in [Publishers -> {"idle", "notify"}]
    /\ sent \in [Publishers -> 0 .. MaxEvents]
    /\ main \in {"subscribe", "run", "notify", "join", "exit"}
    /\ published \in [Types -> Seq(Events)]
    /\ handled \in [Types -> Seq(Events)]

\* EventBus(): the dispatch threads are started.
Init ==
    /\ queue = [e \in Types |-> <<>>]
    /\ handlers = [e \in Types |-> 0]
    /\ running = TRUE
    /\ locked = [e \in Types |-> FALSE]
    /\ blocked = [e \in Types |-> FALSE]
    /\ dpc = [e \in Types |-> "loop"]
    /\ event = [e \in Types |-> NoEvent]
    /\ ppc = [p \in Publishers |-> "idle"]
    /\ sent = [p \in Publishers |-> 0]
    /\ main = "subscribe"
    /\ published = [e \in Types |-> <<>>]
    /\ handled = [e \in Types |-> <<>>]

-----------------------------------------------------------------------------
(***************************************************************************)
(* subscribe() and publish()                                               *)
(***************************************************************************)
\* main() subscribes one handler per type before it starts a publisher.
Subscribe(e) ==
    /\ main = "subscribe"
    /\ handlers[e] = 0
    /\ handlers' = [handlers EXCEPT ![e] = @ + 1]
    /\ main' = IF \A f \in Types \ {e} : handlers[f] = 1 THEN "run" ELSE main
    /\ UNCHANGED <<queue, running, locked, blocked, dispatchVars, publishVars>>

\* Mutant: the event is queued without the mutex.
PublishPushUnlocked(p) ==
    LET e == TypeOf[p] IN
    /\ main = "run"
    /\ ppc[p] = "idle"
    /\ sent[p] < MaxEvents
    /\ sent' = [sent EXCEPT ![p] = @ + 1]
    /\ queue' = [queue EXCEPT ![e] = Append(@, <<p, sent[p] + 1>>)]
    /\ published' = [published EXCEPT ![e] = Append(@, <<p, sent[p] + 1>>)]
    /\ ppc' = [ppc EXCEPT ![p] = "notify"]
    /\ UNCHANGED <<handlers, running, locked, blocked, dispatchVars, main>>

\* The critical section of publish().
PublishPush(p) ==
    LET e == TypeOf[p] IN
    /\ main = "run"
    /\ ppc[p] = "idle"
    /\ sent[p] < MaxEvents
    /\ ~locked[e]
    /\ sent' = [sent EXCEPT ![p] = @ + 1]
    /\ queue' = [queue EXCEPT ![e] = Append(@, <<p, sent[p] + 1>>)]
    /\ published' = [published EXCEPT ![e] = Append(@, <<p, sent[p] + 1>>)]
    /\ ppc' = [ppc EXCEPT ![p] = "notify"]
    /\ UNCHANGED <<handlers, running, locked, blocked, dispatchVars, main>>

\* Mutant: nobody is notified.
PublishSilently(p) ==
    /\ ppc[p] = "notify"
    /\ ppc' = [ppc EXCEPT ![p] = "idle"]
    /\ UNCHANGED <<busVars, dispatchVars, sent, published, main>>

\* notify_one(), after the mutex is released.
PublishNotify(p) ==
    /\ ppc[p] = "notify"
    /\ blocked' = [blocked EXCEPT ![TypeOf[p]] = FALSE]
    /\ ppc' = [ppc EXCEPT ![p] = "idle"]
    /\ UNCHANGED <<queue, handlers, running, locked, dispatchVars, sent, published, main>>

-----------------------------------------------------------------------------
(***************************************************************************)
(* dispatch_loop()                                                         *)
(***************************************************************************)
\* while (running_)
LoopTest(e) ==
    /\ dpc[e] = "loop"
    /\ dpc' = [dpc EXCEPT ![e] = IF running THEN "lock" ELSE "done"]
    /\ UNCHANGED <<busVars, event, handled, publishVars, main>>

\* std::unique_lock lock(q_mtx)
LockQueue(e) ==
    /\ dpc[e] = "lock"
    /\ ~locked[e]
    /\ locked' = [locked EXCEPT ![e] = TRUE]
    /\ dpc' = [dpc EXCEPT ![e] = "wait"]
    /\ UNCHANGED <<queue, handlers, running, blocked, event, handled, publishVars, main>>

\* The predicate of cv.wait(), evaluated under the mutex: go on, or block next.
TestPredicate(e) ==
    /\ dpc[e] = "wait"
    /\ dpc' = [dpc EXCEPT ![e] = IF queue[e] # <<>> \/ ~running THEN "drain" ELSE "block"]
    /\ UNCHANGED <<busVars, event, handled, publishVars, main>>

\* Blocking: the mutex is released and the thread waits for a notification.
Block(e) ==
    /\ dpc[e] = "block"
    /\ locked' = [locked EXCEPT ![e] = FALSE]
    /\ blocked' = [blocked EXCEPT ![e] = TRUE]
    /\ dpc' = [dpc EXCEPT ![e] = "asleep"]
    /\ UNCHANGED <<queue, handlers, running, event, handled, publishVars, main>>

\* Notified: the mutex is taken again and the predicate is evaluated again.
Wake(e) ==
    /\ dpc[e] = "asleep"
    /\ ~locked[e]
    /\ ~blocked[e]
    /\ locked' = [locked EXCEPT ![e] = TRUE]
    /\ dpc' = [dpc EXCEPT ![e] = "wait"]
    /\ UNCHANGED <<queue, handlers, running, blocked, event, handled, publishVars, main>>

\* A blocked thread may wake up without a notification.
SpuriousWakeup(e) ==
    /\ blocked[e]
    /\ blocked' = [blocked EXCEPT ![e] = FALSE]
    /\ UNCHANGED <<queue, handlers, running, locked, dispatchVars, publishVars, main>>

\* Mutant: the newest event first.
PopNewest(e) ==
    /\ dpc[e] = "drain"
    /\ queue[e] # <<>>
    /\ event' = [event EXCEPT ![e] = queue[e][Len(queue[e])]]
    /\ queue' = [queue EXCEPT ![e] = SubSeq(@, 1, Len(@) - 1)]
    /\ locked' = [locked EXCEPT ![e] = FALSE]
    /\ dpc' = [dpc EXCEPT ![e] = "handle"]
    /\ UNCHANGED <<handlers, running, blocked, handled, publishVars, main>>

\* while (!queue.empty()): pop the front and unlock, ...
PopEvent(e) ==
    /\ dpc[e] = "drain"
    /\ queue[e] # <<>>
    /\ event' = [event EXCEPT ![e] = Head(queue[e])]
    /\ queue' = [queue EXCEPT ![e] = Tail(@)]
    /\ locked' = [locked EXCEPT ![e] = FALSE]
    /\ dpc' = [dpc EXCEPT ![e] = "handle"]
    /\ UNCHANGED <<handlers, running, blocked, handled, publishVars, main>>

\* ... or leave the scope of the lock when it is empty.
DrainEnds(e) ==
    /\ dpc[e] = "drain"
    /\ queue[e] = <<>>
    /\ locked' = [locked EXCEPT ![e] = FALSE]
    /\ dpc' = [dpc EXCEPT ![e] = "loop"]
    /\ UNCHANGED <<queue, handlers, running, blocked, event, handled, publishVars, main>>

\* The handlers return: the event is dealt with by every subscribed handler.
Handle(e) ==
    /\ dpc[e] = "handle"
    /\ handled' = IF handlers[e] > 0 THEN [handled EXCEPT ![e] = Append(@, event[e])]
                                     ELSE handled
    /\ event' = [event EXCEPT ![e] = NoEvent]
    /\ dpc' = [dpc EXCEPT ![e] = "relock"]
    /\ UNCHANGED <<busVars, publishVars, main>>

\* lock.lock()
Relock(e) ==
    /\ dpc[e] = "relock"
    /\ ~locked[e]
    /\ locked' = [locked EXCEPT ![e] = TRUE]
    /\ dpc' = [dpc EXCEPT ![e] = "drain"]
    /\ UNCHANGED <<queue, handlers, running, blocked, event, handled, publishVars, main>>

-----------------------------------------------------------------------------
(***************************************************************************)
(* ~EventBus()                                                             *)
(***************************************************************************)
\* The publishers are joined, main() returns, and running_ is cleared: without
\* the mutexes the dispatch threads evaluate their predicate under.
StopRunning ==
    /\ main = "run"
    /\ \A p \in Publishers : ppc[p] = "idle"
    /\ running' = FALSE
    /\ main' = "notify"
    /\ UNCHANGED <<queue, handlers, locked, blocked, dispatchVars, publishVars>>

\* The two notify_all() calls.
NotifyAll ==
    /\ main = "notify"
    /\ blocked' = [e \in Types |-> FALSE]
    /\ main' = "join"
    /\ UNCHANGED <<queue, handlers, running, locked, dispatchVars, publishVars>>

Join ==
    /\ main = "join"
    /\ \A e \in Types : dpc[e] = "done"
    /\ main' = "exit"
    /\ UNCHANGED <<busVars, dispatchVars, publishVars>>

\* The process is gone.
Exited == main = "exit" /\ UNCHANGED vars

-----------------------------------------------------------------------------
Dispatch(e) ==
    \/ LoopTest(e) \/ LockQueue(e) \/ TestPredicate(e) \/ Block(e) \/ Wake(e)
    \/ PopEvent(e) \/ DrainEnds(e) \/ Relock(e)

Publish(p) == PublishPush(p) \/ PublishNotify(p)

Destroy == StopRunning \/ NotifyAll \/ Join

Next ==
    \/ \E e \in Types : Subscribe(e) \/ Dispatch(e) \/ Handle(e) \/ SpuriousWakeup(e)
    \/ \E p \in Publishers : Publish(p)
    \/ Destroy
    \/ Exited

Spec == Init /\ [][Next]_vars

\* Threads keep running; std::mutex is not fair, but a dispatch thread competes
\* for its mutex with finitely many publications.  Handlers return, except the
\* slow ones; nothing obliges anyone to publish, a waiting thread to wake up
\* spuriously, or the process to be shut down.
Fairness ==
    /\ \A e \in Types : WF_vars(Dispatch(e))
    /\ \A e \in Types \ SlowTypes : WF_vars(Handle(e))
    /\ \A p \in Publishers : WF_vars(PublishNotify(p))
    /\ WF_vars(NotifyAll)
    /\ WF_vars(Join)

FairSpec == Spec /\ Fairness

-----------------------------------------------------------------------------
\* The handlers see the events in the order they were queued, each once, and what
\* is queued or in a handler's hands is exactly the rest: unlocking the queue
\* around the handler loses and duplicates nothing.
DispatchInOrder ==
    \A e \in Types :
        published[e] = handled[e]
                       \o (IF dpc[e] = "handle" THEN <<event[e]>> ELSE <<>>)
                       \o queue[e]

\* The queue is touched under its mutex, and the dispatch thread never blocks on
\* the condition variable while an event waits that nobody will notify it of.
NoSleepingOnWork ==
    \A e \in Types :
        /\ dpc[e] \in {"wait", "block", "drain"} => locked[e]
        /\ blocked[e] /\ queue[e] # <<>> =>
              \E p \in Publishers : TypeOf[p] = e /\ ppc[p] = "notify"

\* Every event published while the engine runs is handled in the end, and a
\* handler that never returns holds up its own type only ("a slow SwingHandler
\* never blocks the ScalpingHandler").
PublishedIsHandled ==
    \A e \in Types : \A k \in 1 .. MaxEvents * Cardinality(Publishers) :
        (Len(published[e]) >= k)
            ~> \/ Len(handled[e]) >= k
               \/ ~running
               \/ e \in SlowTypes /\ [](dpc[e] = "handle")

\* The shutdown main() describes ends: the destructor joins its threads.
ShutdownCompletes == (main = "notify") ~> (main = "exit")

=============================================================================
