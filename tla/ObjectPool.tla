----------------------------- MODULE ObjectPool -----------------------------
(***************************************************************************)
(* trading::ObjectPool (trading-engine/src/core/object_pool.hpp) and the   *)
(* PoolHandle that returns a slot: a free list threaded through the array  *)
(* free_list_, whose head is moved by compare-and-swap without a version   *)
(* tag.  A user either holds one slot at a time and gives it back          *)
(* (KafkaProducer::acquire_buffer() to publish()) or keeps it for ever     *)
(* (TickAggregator::get_or_create_state()).                                *)
(* Every load, store and CAS is a step; memory is sequentially consistent. *)
(***************************************************************************)
EXTENDS Naturals, FiniteSets

CONSTANTS Threads, PoolSize

ASSUME PoolAssumption == PoolSize \in Nat \ {0}

VARIABLES head,     \* head_
          next,     \* free_list_[i].next
          pc,       \* where each thread is in acquire() or release()
          idx,      \* the slot it is acquiring, holding or releasing
          link,     \* the local next of acquire(), current of release()
          kept      \* slots acquired for the rest of the run

vars == <<head, next, pc, idx, link, kept>>

Slots == 0 .. PoolSize - 1

\* kNull; any value that is no slot will do, and the constructor's loop links the
\* last slot to it.
kNull == PoolSize

TypeOK ==
    /\ head \in Slots \cup {kNull}
    /\ next \in [Slots -> Slots \cup {kNull}]
    /\ pc \in [Threads -> {"idle", "acqTest", "acqNext", "acqCas", "held",
                           "relStore", "relCas"}]
    /\ idx \in [Threads -> Slots \cup {kNull}]
    /\ link \in [Threads -> Slots \cup {kNull}]
    /\ kept \subseteq Slots

\* ObjectPool()
Init ==
    /\ head = 0
    /\ next = [i \in Slots |-> i + 1]
    /\ pc = [t \in Threads |-> "idle"]
    /\ idx = [t \in Threads |-> kNull]
    /\ link = [t \in Threads |-> kNull]
    /\ kept = {}

-----------------------------------------------------------------------------
(***************************************************************************)
(* acquire()                                                               *)
(***************************************************************************)
AcquireLoad(t) ==
    /\ pc[t] = "idle"
    /\ idx' = [idx EXCEPT ![t] = head]
    /\ pc' = [pc EXCEPT ![t] = "acqTest"]
    /\ UNCHANGED <<head, next, link, kept>>

\* return nullptr: the caller drops its message and comes back later.
AcquireNull(t) ==
    /\ pc[t] = "acqTest"
    /\ idx[t] = kNull
    /\ pc' = [pc EXCEPT ![t] = "idle"]
    /\ UNCHANGED <<head, next, idx, link, kept>>

AcquireNext(t) ==
    /\ pc[t] = "acqTest"
    /\ idx[t] # kNull
    /\ link' = [link EXCEPT ![t] = next[idx[t]]]
    /\ pc' = [pc EXCEPT ![t] = "acqCas"]
    /\ UNCHANGED <<head, next, idx, kept>>

AcquireCas(t) ==
    /\ pc[t] = "acqCas"
    /\ head = idx[t]
    /\ head' = link[t]
    /\ pc' = [pc EXCEPT ![t] = "held"]
    /\ UNCHANGED <<next, idx, link, kept>>

\* Mutant: a failed exchange is taken for an exhausted pool.
AcquireCasGivesUp(t) ==
    /\ pc[t] = "acqCas"
    /\ idx' = [idx EXCEPT ![t] = kNull]
    /\ pc' = [pc EXCEPT ![t] = "acqTest"]
    /\ UNCHANGED <<head, next, link, kept>>

\* compare_exchange_weak fails, spuriously or not, and reloads idx.
AcquireCasFails(t) ==
    /\ pc[t] = "acqCas"
    /\ idx' = [idx EXCEPT ![t] = head]
    /\ pc' = [pc EXCEPT ![t] = "acqTest"]
    /\ UNCHANGED <<head, next, link, kept>>

\* The registry takes the slot over: it is never released.
Keep(t) ==
    /\ pc[t] = "held"
    /\ kept' = kept \cup {idx[t]}
    /\ pc' = [pc EXCEPT ![t] = "idle"]
    /\ UNCHANGED <<head, next, idx, link>>

-----------------------------------------------------------------------------
(***************************************************************************)
(* release(), from PoolHandle::reset()                                     *)
(***************************************************************************)
ReleaseLoad(t) ==
    /\ pc[t] = "held"
    /\ link' = [link EXCEPT ![t] = head]
    /\ pc' = [pc EXCEPT ![t] = "relStore"]
    /\ UNCHANGED <<head, next, idx, kept>>

ReleaseStore(t) ==
    /\ pc[t] = "relStore"
    /\ next' = [next EXCEPT ![idx[t]] = link[t]]
    /\ pc' = [pc EXCEPT ![t] = "relCas"]
    /\ UNCHANGED <<head, idx, link, kept>>

\* Mutant: a plain store in place of the compare-and-swap.
ReleaseCasStores(t) ==
    /\ pc[t] = "relCas"
    /\ head' = idx[t]
    /\ pc' = [pc EXCEPT ![t] = "idle"]
    /\ UNCHANGED <<next, idx, link, kept>>

ReleaseCas(t) ==
    /\ pc[t] = "relCas"
    /\ head = link[t]
    /\ head' = idx[t]
    /\ pc' = [pc EXCEPT ![t] = "idle"]
    /\ UNCHANGED <<next, idx, link, kept>>

\* Mutant: current is not reloaded.
ReleaseCasFailsStale(t) ==
    /\ pc[t] = "relCas"
    /\ pc' = [pc EXCEPT ![t] = "relStore"]
    /\ UNCHANGED <<head, next, idx, link, kept>>

ReleaseCasFails(t) ==
    /\ pc[t] = "relCas"
    /\ link' = [link EXCEPT ![t] = head]
    /\ pc' = [pc EXCEPT ![t] = "relStore"]
    /\ UNCHANGED <<head, next, idx, kept>>

-----------------------------------------------------------------------------
Acquire(t) == \/ AcquireLoad(t) \/ AcquireNull(t) \/ AcquireNext(t)
              \/ AcquireCas(t) \/ AcquireCasFails(t)

Release(t) == \/ ReleaseLoad(t) \/ ReleaseStore(t)
              \/ ReleaseCas(t) \/ ReleaseCasFails(t)

Next == \E t \in Threads : Acquire(t) \/ Keep(t) \/ Release(t)

\* A thread inside acquire() or release() keeps running, and a weak CAS whose
\* comparison holds again and again does not fail spuriously for ever.  Nothing
\* is assumed of a thread that is idle or using its buffer.
Fairness ==
    \A t \in Threads :
        /\ WF_vars(AcquireNull(t) \/ AcquireNext(t) \/ AcquireCasFails(t))
        /\ SF_vars(AcquireCas(t))
        /\ WF_vars(ReleaseStore(t) \/ ReleaseCasFails(t))
        /\ SF_vars(ReleaseCas(t))

Spec == Init /\ [][Next]_vars

FairSpec == Spec /\ Fairness

-----------------------------------------------------------------------------
\* The slots met following next from head, at most n of them.
Chain[n \in 0 .. PoolSize] ==
    IF n = 0 THEN head
             ELSE IF Chain[n - 1] = kNull THEN kNull ELSE next[Chain[n - 1]]

FreeSlots == {Chain[n] : n \in 0 .. PoolSize} \ {kNull}

\* The threads, and the registry, that have slot s.
Owners(s) == {t \in Threads : idx[t] = s /\ pc[t] \in {"held", "relStore", "relCas"}}
Uses(s) == Cardinality(Owners(s)) + (IF s \in kept THEN 1 ELSE 0)

\* Every slot is on the free list or has exactly one user: acquire() never hands
\* out a slot in use, and no slot falls off the list ("thread-safe object pool
\* using a lock-free free-list", object_pool.hpp:13).
EachSlotOnce ==
    /\ Chain[PoolSize] = kNull
    /\ \A s \in Slots : Uses(s) = IF s \in FreeSlots THEN 0 ELSE 1

\* The slot in each thread's hands, and the threads about to return nullptr.
Hands == [t \in Threads |->
             IF pc[t] \in {"held", "relStore", "relCas"} THEN {idx[t]} ELSE {}]
Refused == {t \in Threads : pc[t] = "acqTest" /\ idx[t] = kNull}

Allocator == INSTANCE SlotAllocator WITH free <- FreeSlots, has <- Hands, refused <- Refused

\* The pool is the allocator: the compare-and-swaps are the moments a slot is
\* taken and given back, and nullptr is returned only if at the load the pool was
\* exhausted ("or nullptr if pool is exhausted", object_pool.hpp:28), never
\* because another thread was faster.
AllocatorSpec == Allocator!Spec

Completes(t) == AcquireCas(t) \/ AcquireNull(t) \/ ReleaseCas(t)

\* The pool is lock-free: as long as some thread is inside acquire() or
\* release(), calls keep returning; the threads never retry one another for ever.
LockFree ==
    \/ []<><<\E t \in Threads : Completes(t)>>_vars
    \/ <>[](\A t \in Threads : pc[t] \in {"idle", "held"})

=============================================================================
