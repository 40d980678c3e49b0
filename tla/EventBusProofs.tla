--------------------------- MODULE EventBusProofs ---------------------------
(***************************************************************************)
(* Proofs about EventBus, for any types, publishers and number of events.  *)
(***************************************************************************)
EXTENDS EventBus, SequenceTheorems, TLAPS

\* Nothing is published before every type has its handler.
HandlersFirst ==
    /\ main = "subscribe" => \A e \in Types : queue[e] = <<>> /\ dpc[e] # "handle"
    /\ main # "subscribe" => \A e \in Types : handlers[e] = 1

\* Between the predicate and the wait the mutex keeps the queue empty.
BlocksWhenEmpty == \A e \in Types : dpc[e] = "block" => queue[e] = <<>>

\* A handler is called with an event.
HandHolds == \A e \in Types : dpc[e] = "handle" => event[e] \in Events

BusInv ==
    /\ TypeOK
    /\ HandHolds
    /\ HandlersFirst
    /\ BlocksWhenEmpty
    /\ DispatchInOrder
    /\ NoSleepingOnWork

InHand(e) == IF dpc[e] = "handle" THEN <<event[e]>> ELSE <<>>

Known == Events \cup {NoEvent}

-----------------------------------------------------------------------------
(* Types.                                                                  *)

LEMMA TypeInit == Init => TypeOK
BY BusAssumption DEF Init, TypeOK

LEMMA TypeKept ==
    ASSUME TypeOK, HandHolds, Next
    PROVE  TypeOK'
<1> USE BusAssumption DEF TypeOK
<1>1. ASSUME NEW e \in Types, Subscribe(e) PROVE TypeOK'
  BY <1>1 DEF Subscribe, dispatchVars, publishVars
<1>2. ASSUME NEW e \in Types, Dispatch(e) PROVE TypeOK'
  <2>1. CASE LoopTest(e) BY <2>1 DEF LoopTest, busVars, publishVars
  <2>2. CASE LockQueue(e) BY <2>2 DEF LockQueue, publishVars
  <2>3. CASE TestPredicate(e) BY <2>3 DEF TestPredicate, busVars, publishVars
  <2>4. CASE Block(e) BY <2>4 DEF Block, publishVars
  <2>5. CASE Wake(e) BY <2>5 DEF Wake, publishVars
  <2>6. CASE PopEvent(e)
    <3>1. Head(queue[e]) \in Events /\ Tail(queue[e]) \in Seq(Events)
      BY <2>6 DEF PopEvent
    <3>2. QED BY <2>6, <3>1 DEF PopEvent, publishVars
  <2>7. CASE DrainEnds(e) BY <2>7 DEF DrainEnds, publishVars
  <2>8. CASE Relock(e) BY <2>8 DEF Relock, publishVars
  <2>9. QED BY <1>2, <2>1, <2>2, <2>3, <2>4, <2>5, <2>6, <2>7, <2>8 DEF Dispatch
<1>3. CASE \E p \in Publishers : PublishNotify(p)
  BY <1>3 DEF PublishNotify, dispatchVars
<1>4. ASSUME NEW p \in Publishers, PublishPush(p) PROVE TypeOK'
  <2>1. TypeOf[p] \in Types /\ sent[p] + 1 \in 1 .. MaxEvents /\ sent[p] + 1 \in 0 .. MaxEvents
    BY <1>4 DEF PublishPush
  <2>2. <<p, sent[p] + 1>> \in Events BY <2>1 DEF Events
  <2>3. /\ Append(queue[TypeOf[p]], <<p, sent[p] + 1>>) \in Seq(Events)
        /\ Append(published[TypeOf[p]], <<p, sent[p] + 1>>) \in Seq(Events)
    BY <2>1, <2>2
  <2>4. queue' \in [Types -> Seq(Events)] /\ published' \in [Types -> Seq(Events)]
    BY <1>4, <2>1, <2>3 DEF PublishPush
  <2>5. QED BY <1>4, <2>1, <2>4 DEF PublishPush, dispatchVars
<1>5. CASE Destroy
  BY <1>5 DEF Destroy, StopRunning, NotifyAll, Join, busVars, dispatchVars, publishVars
<1>6. CASE Exited
  BY <1>6 DEF Exited, vars, busVars, dispatchVars, publishVars
<1>7. CASE \E e \in Types : SpuriousWakeup(e)
  BY <1>7 DEF SpuriousWakeup, dispatchVars, publishVars
<1>8. ASSUME NEW e \in Types, Handle(e) PROVE TypeOK'
  <2>1. event[e] \in Events BY <1>8 DEF Handle, HandHolds
  <2>2. Append(handled[e], event[e]) \in Seq(Events) BY <2>1
  <2>3. handled' \in [Types -> Seq(Events)] BY <1>8, <2>2 DEF Handle
  <2>4. QED BY <1>8, <2>3 DEF Handle, busVars, publishVars
<1>9. QED BY <1>1, <1>2, <1>3, <1>4, <1>5, <1>6, <1>7, <1>8 DEF Next, Publish

LEMMA HandKept ==
    ASSUME TypeOK, HandHolds, Next
    PROVE  HandHolds'
<1> USE DEF TypeOK, HandHolds
<1>1. ASSUME NEW e \in Types, PopEvent(e) PROVE HandHolds'
  <2>1. Head(queue[e]) \in Events BY <1>1 DEF PopEvent
  <2>2. QED BY <1>1, <2>1 DEF PopEvent
<1>2. ASSUME NEW e \in Types,
             \/ LoopTest(e) \/ LockQueue(e) \/ TestPredicate(e) \/ Block(e) \/ Wake(e)
             \/ DrainEnds(e) \/ Relock(e)
      PROVE  HandHolds'
  BY <1>2 DEF LoopTest, LockQueue, TestPredicate, Block, Wake, DrainEnds, Relock
<1>3. CASE \E e \in Types : Handle(e) BY <1>3 DEF Handle
<1>4. CASE UNCHANGED <<dpc, event>> BY <1>4
<1>5. ASSUME NEW e \in Types, Subscribe(e) \/ SpuriousWakeup(e) PROVE UNCHANGED <<dpc, event>>
  BY <1>5 DEF Subscribe, SpuriousWakeup, dispatchVars
<1>6. ASSUME NEW p \in Publishers, Publish(p) PROVE UNCHANGED <<dpc, event>>
  BY <1>6 DEF Publish, PublishPush, PublishNotify, dispatchVars
<1>7. CASE Destroy \/ Exited
  BY <1>4, <1>7 DEF Destroy, StopRunning, NotifyAll, Join, Exited, dispatchVars, vars
<1>8. QED BY <1>1, <1>2, <1>3, <1>4, <1>5, <1>6, <1>7 DEF Next, Dispatch

-----------------------------------------------------------------------------
(* Nothing is lost between the handlers and the lock.                      *)

LEMMA SubscribersKept ==
    ASSUME TypeOK, HandlersFirst, Next
    PROVE  HandlersFirst'
<1> USE DEF TypeOK, HandlersFirst
<1>1. ASSUME NEW e \in Types, Subscribe(e) PROVE HandlersFirst'
  <2>1. handlers' = [handlers EXCEPT ![e] = 1]
    BY <1>1 DEF Subscribe
  <2>2. main' = "subscribe" \/ \A f \in Types \ {e} : handlers[f] = 1
    BY <1>1 DEF Subscribe
  <2>3. QED BY <1>1, <2>1, <2>2 DEF Subscribe, dispatchVars
<1>2. ASSUME NEW e \in Types, Dispatch(e) \/ Handle(e) PROVE HandlersFirst'
  <2>1. UNCHANGED <<main, handlers>>
    BY <1>2 DEF Dispatch, LoopTest, LockQueue, TestPredicate, Block, Wake, PopEvent, DrainEnds,
                Relock, Handle, busVars
  <2>2. CASE PopEvent(e) BY <2>1, <2>2 DEF PopEvent
  <2>3. CASE ~PopEvent(e)
    <3>1. UNCHANGED queue /\ \A f \in Types : dpc'[f] = "handle" => dpc[f] = "handle"
      BY <1>2, <2>3 DEF Dispatch, LoopTest, LockQueue, TestPredicate, Block, Wake, DrainEnds,
                        Relock, Handle, busVars
    <3>2. QED BY <2>1, <3>1
  <2>4. QED BY <2>2, <2>3
<1>3. ASSUME NEW p \in Publishers, Publish(p) PROVE HandlersFirst'
  BY <1>3 DEF Publish, PublishPush, PublishNotify, dispatchVars
<1>4. CASE Destroy
  BY <1>4 DEF Destroy, StopRunning, NotifyAll, Join, busVars, dispatchVars
<1>5. CASE Exited \/ \E e \in Types : SpuriousWakeup(e)
  BY <1>5 DEF Exited, SpuriousWakeup, vars, busVars, dispatchVars
<1>6. QED BY <1>1, <1>2, <1>3, <1>4, <1>5 DEF Next

\* The sequences of one type before and after a step.
LEMMA PopOrder ==
    ASSUME NEW h \in Seq(Known), NEW q \in Seq(Known), q # <<>>
    PROVE  (h \o <<>>) \o q = (h \o <<Head(q)>>) \o Tail(q)
OBVIOUS

LEMMA PushOrder ==
    ASSUME NEW h \in Seq(Known), NEW m \in Seq(Known), NEW q \in Seq(Known), NEW x \in Known
    PROVE  Append((h \o m) \o q, x) = (h \o m) \o Append(q, x)
<1> DEFINE f == h \o m
<1>1. f \in Seq(Known) BY ConcatProperties
<1> HIDE DEF f
<1>2. f \o q \in Seq(Known) /\ <<x>> \in Seq(Known) BY <1>1, ConcatProperties
<1>3. Append(f \o q, x) = (f \o q) \o <<x>> BY <1>2, AppendIsConcat
<1>4. Append(q, x) = q \o <<x>> BY AppendIsConcat
<1>5. (f \o q) \o <<x>> = f \o (q \o <<x>>) BY <1>1, <1>2, ConcatAssociative
<1>6. QED BY <1>3, <1>4, <1>5 DEF f

LEMMA HandleOrder ==
    ASSUME NEW h \in Seq(Known), NEW q \in Seq(Known), NEW x \in Known
    PROVE  (h \o <<x>>) \o q = (Append(h, x) \o <<>>) \o q
OBVIOUS

LEMMA OrderKept ==
    ASSUME TypeOK, HandHolds, HandlersFirst, DispatchInOrder, Next
    PROVE  DispatchInOrder'
<1>1. \A e \in Types : /\ handled[e] \in Seq(Known) /\ queue[e] \in Seq(Known)
                       /\ event[e] \in Known /\ InHand(e) \in Seq(Known)
  <2> SUFFICES ASSUME NEW e \in Types
               PROVE  /\ handled[e] \in Seq(Known) /\ queue[e] \in Seq(Known)
                      /\ event[e] \in Known /\ InHand(e) \in Seq(Known)
    OBVIOUS
  <2>1. handled[e] \in Seq(Events) /\ queue[e] \in Seq(Events) /\ event[e] \in Known
    BY DEF TypeOK, Known
  <2>2. Seq(Events) \subseteq Seq(Known) BY SeqMonotonic DEF Known
  <2>3. QED BY <2>1, <2>2 DEF InHand
<1>2. DispatchInOrder <=> \A e \in Types : published[e] = (handled[e] \o InHand(e)) \o queue[e]
  BY DEF DispatchInOrder, InHand
<1>3. DispatchInOrder' <=>
        \A e \in Types : published'[e] = (handled'[e] \o InHand(e)') \o queue'[e]
  BY DEF DispatchInOrder, InHand
<1>4. ASSUME UNCHANGED <<published, handled, queue>>, \A e \in Types : InHand(e)' = InHand(e)
      PROVE  DispatchInOrder'
  BY <1>2, <1>3, <1>4
<1>5. ASSUME NEW e \in Types, PopEvent(e) PROVE DispatchInOrder'
  <2>1. /\ dpc[e] = "drain" /\ queue[e] # <<>> /\ UNCHANGED <<published, handled>>
        /\ event' = [event EXCEPT ![e] = Head(queue[e])]
        /\ queue' = [queue EXCEPT ![e] = Tail(queue[e])]
        /\ dpc' = [dpc EXCEPT ![e] = "handle"]
    BY <1>5 DEF PopEvent, publishVars
  <2>2. InHand(e) = <<>> /\ InHand(e)' = <<Head(queue[e])>> /\ queue'[e] = Tail(queue[e])
    BY <2>1 DEF InHand, TypeOK
  <2>3. \A f \in Types \ {e} : InHand(f)' = InHand(f) /\ queue'[f] = queue[f]
    BY <2>1 DEF InHand, TypeOK
  <2>4. published[e] = (handled[e] \o InHand(e)') \o queue'[e]
    <3>1. published[e] = (handled[e] \o <<>>) \o queue[e] BY <1>2, <2>2
    <3>2. QED BY <1>1, <2>1, <2>2, <3>1, PopOrder
  <2>5. QED BY <1>2, <1>3, <2>1, <2>3, <2>4
<1>6. ASSUME NEW e \in Types, Handle(e) PROVE DispatchInOrder'
  <2>1. handlers[e] = 1
    BY <1>6 DEF Handle, HandlersFirst
  <2>2. /\ dpc[e] = "handle" /\ UNCHANGED <<published, queue>>
        /\ handled' = [handled EXCEPT ![e] = Append(handled[e], event[e])]
        /\ event' = [event EXCEPT ![e] = NoEvent]
        /\ dpc' = [dpc EXCEPT ![e] = "relock"]
    BY <1>6, <2>1 DEF Handle, publishVars, busVars
  <2>3. InHand(e) = <<event[e]>> /\ InHand(e)' = <<>> /\ handled'[e] = Append(handled[e], event[e])
    BY <2>2 DEF InHand, TypeOK
  <2>4. \A f \in Types \ {e} : InHand(f)' = InHand(f) /\ handled'[f] = handled[f]
    BY <2>2 DEF InHand, TypeOK
  <2>5. published[e] = (handled'[e] \o InHand(e)') \o queue[e]
    <3>1. published[e] = (handled[e] \o <<event[e]>>) \o queue[e] BY <1>2, <2>3
    <3>2. (handled[e] \o <<event[e]>>) \o queue[e]
            = (Append(handled[e], event[e]) \o <<>>) \o queue[e]
      BY <1>1, HandleOrder
    <3>3. QED BY <2>3, <3>1, <3>2
  <2>6. QED BY <1>2, <1>3, <2>2, <2>4, <2>5
<1>7. ASSUME NEW p \in Publishers, PublishPush(p) PROVE DispatchInOrder'
  <2> DEFINE e == TypeOf[p]
             x == <<p, sent[p] + 1>>
  <2>1. e \in Types /\ x \in Known
    <3>1. sent[p] + 1 \in 1 .. MaxEvents BY <1>7, BusAssumption DEF PublishPush, TypeOK
    <3>2. x \in Events BY <3>1 DEF Events
    <3>3. QED BY <3>2, BusAssumption DEF Known
  <2>2. /\ UNCHANGED <<dpc, event, handled>>
        /\ queue' = [queue EXCEPT ![e] = Append(queue[e], x)]
        /\ published' = [published EXCEPT ![e] = Append(published[e], x)]
    BY <1>7 DEF PublishPush, dispatchVars
  <2> HIDE DEF e, x
  <2>3. \A f \in Types : InHand(f)' = InHand(f) BY <2>2 DEF InHand
  <2>4. /\ queue'[e] = Append(queue[e], x) /\ published'[e] = Append(published[e], x)
        /\ \A f \in Types \ {e} : queue'[f] = queue[f] /\ published'[f] = published[f]
    BY <2>1, <2>2 DEF TypeOK
  <2>5. published'[e] = (handled[e] \o InHand(e)) \o queue'[e]
    <3>1. published[e] = (handled[e] \o InHand(e)) \o queue[e] BY <1>2, <2>1
    <3>2. Append((handled[e] \o InHand(e)) \o queue[e], x)
            = (handled[e] \o InHand(e)) \o Append(queue[e], x)
      BY <1>1, <2>1, PushOrder
    <3>3. QED BY <2>4, <3>1, <3>2
  <2>6. QED BY <1>2, <1>3, <2>2, <2>3, <2>4, <2>5
<1>8. ASSUME NEW e \in Types,
             \/ LoopTest(e) \/ LockQueue(e) \/ TestPredicate(e) \/ Block(e) \/ Wake(e)
             \/ DrainEnds(e) \/ Relock(e)
      PROVE  DispatchInOrder'
  <2>1. UNCHANGED <<published, handled, queue, event>>
    BY <1>8 DEF LoopTest, LockQueue, TestPredicate, Block, Wake, DrainEnds, Relock, busVars, publishVars
  <2>2. \A f \in Types : dpc'[f] = "handle" <=> dpc[f] = "handle"
    BY <1>8 DEF LoopTest, LockQueue, TestPredicate, Block, Wake, DrainEnds, Relock, TypeOK
  <2>3. QED BY <1>4, <2>1, <2>2 DEF InHand
<1>9. ASSUME UNCHANGED <<published, handled, queue, event, dpc>> PROVE DispatchInOrder'
  BY <1>4, <1>9 DEF InHand
<1>10. ASSUME NEW e \in Types, Subscribe(e) \/ SpuriousWakeup(e) PROVE DispatchInOrder'
  BY <1>9, <1>10 DEF Subscribe, SpuriousWakeup, dispatchVars, publishVars
<1>11. ASSUME NEW p \in Publishers, PublishNotify(p) PROVE DispatchInOrder'
  BY <1>9, <1>11 DEF PublishNotify, dispatchVars
<1>12. CASE Destroy \/ Exited
  BY <1>9, <1>12 DEF Destroy, StopRunning, NotifyAll, Join, Exited, busVars, dispatchVars,
                     publishVars, vars
<1>13. QED
  BY <1>5, <1>6, <1>7, <1>8, <1>10, <1>11, <1>12 DEF Next, Dispatch, Publish

-----------------------------------------------------------------------------
(* No lost wakeup.                                                         *)

LEMMA WakeupKept ==
    ASSUME TypeOK, BlocksWhenEmpty, NoSleepingOnWork, Next
    PROVE  BlocksWhenEmpty' /\ NoSleepingOnWork'
<1> USE DEF TypeOK, BlocksWhenEmpty, NoSleepingOnWork
<1>1. ASSUME NEW e \in Types, Dispatch(e) PROVE BlocksWhenEmpty' /\ NoSleepingOnWork'
  <2>1. CASE LoopTest(e) BY <2>1 DEF LoopTest, busVars, publishVars
  <2>2. CASE LockQueue(e) BY <2>2 DEF LockQueue, publishVars
  <2>3. CASE TestPredicate(e) BY <2>3 DEF TestPredicate, busVars, publishVars
  <2>4. CASE Block(e) BY <2>4 DEF Block, publishVars
  <2>5. CASE Wake(e) BY <2>5 DEF Wake, publishVars
  <2>6. CASE PopEvent(e)
    <3>1. Tail(queue[e]) \in Seq(Events) BY <2>6 DEF PopEvent
    <3>2. \A f \in Types : queue'[f] # <<>> => queue[f] # <<>> BY <2>6, <3>1 DEF PopEvent
    <3>3. QED BY <2>6, <3>2 DEF PopEvent, publishVars
  <2>7. CASE DrainEnds(e) BY <2>7 DEF DrainEnds, publishVars
  <2>8. CASE Relock(e) BY <2>8 DEF Relock, publishVars
  <2>9. QED BY <1>1, <2>1, <2>2, <2>3, <2>4, <2>5, <2>6, <2>7, <2>8 DEF Dispatch
<1>2. ASSUME NEW e \in Types, Handle(e) PROVE BlocksWhenEmpty' /\ NoSleepingOnWork'
  BY <1>2 DEF Handle, busVars, publishVars
<1>3. ASSUME NEW e \in Types, Subscribe(e) \/ SpuriousWakeup(e)
      PROVE  BlocksWhenEmpty' /\ NoSleepingOnWork'
  <2>1. /\ UNCHANGED <<queue, locked, dpc, ppc>>
        /\ \A f \in Types : blocked'[f] => blocked[f]
    BY <1>3 DEF Subscribe, SpuriousWakeup, dispatchVars, publishVars
  <2>2. QED BY <2>1
<1>4. ASSUME NEW p \in Publishers, PublishPush(p) PROVE BlocksWhenEmpty' /\ NoSleepingOnWork'
  <2>1. TypeOf[p] \in Types /\ ~locked[TypeOf[p]] /\ ppc'[p] = "notify"
    BY <1>4, BusAssumption DEF PublishPush
  <2>2. \A q \in Publishers : ppc[q] = "notify" => ppc'[q] = "notify"
    BY <1>4 DEF PublishPush
  <2>3. /\ UNCHANGED <<locked, blocked, dpc>>
        /\ \A f \in Types \ {TypeOf[p]} : queue'[f] = queue[f]
    BY <1>4 DEF PublishPush, dispatchVars
  <2>4. dpc[TypeOf[p]] # "block" BY <2>1
  <2>5. BlocksWhenEmpty' BY <2>3, <2>4
  <2>6. NoSleepingOnWork' BY <2>1, <2>2, <2>3
  <2>7. QED BY <2>5, <2>6
<1>5. ASSUME NEW p \in Publishers, PublishNotify(p) PROVE BlocksWhenEmpty' /\ NoSleepingOnWork'
  <2>1. /\ ~blocked'[TypeOf[p]] /\ UNCHANGED <<queue, locked, dpc>>
        /\ \A f \in Types \ {TypeOf[p]} : blocked'[f] = blocked[f]
        /\ \A q \in Publishers \ {p} : ppc'[q] = ppc[q]
    BY <1>5, BusAssumption DEF PublishNotify, dispatchVars
  <2>2. BlocksWhenEmpty' BY <2>1
  <2>3. ASSUME NEW f \in Types, blocked'[f], queue'[f] # <<>>
        PROVE  \E q \in Publishers : TypeOf[q] = f /\ ppc'[q] = "notify"
    <3>1. f # TypeOf[p] BY <2>1, <2>3
    <3>2. blocked[f] /\ queue[f] # <<>> BY <2>1, <2>3, <3>1
    <3>3. PICK q \in Publishers : TypeOf[q] = f /\ ppc[q] = "notify" BY <3>2
    <3>4. q # p BY <3>1, <3>3
    <3>5. QED BY <2>1, <3>3, <3>4
  <2>4. QED BY <2>1, <2>2, <2>3
<1>6. CASE Destroy
  BY <1>6 DEF Destroy, StopRunning, NotifyAll, Join, busVars, dispatchVars, publishVars
<1>7. CASE Exited BY <1>7 DEF Exited, vars, busVars, dispatchVars, publishVars
<1>8. QED BY <1>1, <1>2, <1>3, <1>4, <1>5, <1>6, <1>7 DEF Next, Publish

-----------------------------------------------------------------------------
(* The theorems.                                                           *)

\* The inductive invariant of the bus, for every interleaving of publishers,
\* dispatch threads, spurious wake-ups and the destructor.
THEOREM BusInvariant == Spec => []BusInv
<1>1. Init => BusInv
  <2> SUFFICES ASSUME Init PROVE BusInv OBVIOUS
  <2>1. TypeOK BY TypeInit
  <2>2. HandHolds /\ HandlersFirst /\ BlocksWhenEmpty /\ NoSleepingOnWork
    BY DEF Init, HandHolds, HandlersFirst, BlocksWhenEmpty, NoSleepingOnWork
  <2>3. DispatchInOrder BY DEF Init, DispatchInOrder
  <2>4. QED BY <2>1, <2>2, <2>3 DEF BusInv
<1>2. BusInv /\ [Next]_vars => BusInv'
  <2> SUFFICES ASSUME BusInv, [Next]_vars PROVE BusInv' OBVIOUS
  <2>1. CASE Next
    BY <2>1, TypeKept, HandKept, SubscribersKept, OrderKept, WakeupKept DEF BusInv
  <2>2. CASE UNCHANGED vars
    BY <2>2 DEF BusInv, TypeOK, HandHolds, HandlersFirst, BlocksWhenEmpty, DispatchInOrder,
                NoSleepingOnWork, vars, busVars, dispatchVars, publishVars
  <2>3. QED BY <2>1, <2>2
<1>3. QED BY <1>1, <1>2, PTL DEF Spec

\* DispatchInOrder, of publish() and dispatch_loop(): every event queued is handled, in the handler's
\* hands or still queued, in order and once, whatever the publishers do while
\* the lock is released around the handler.
THEOREM InOrderDispatch == Spec => []DispatchInOrder
BY BusInvariant, PTL DEF BusInv

\* NoSleepingOnWork: publish() notifies after it has released the mutex, and still no event is
\* left to a dispatch thread that sleeps without a notification on its way.
THEOREM NoLostWakeup == Spec => []NoSleepingOnWork
BY BusInvariant, PTL DEF BusInv


=============================================================================
