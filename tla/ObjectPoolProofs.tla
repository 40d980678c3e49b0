--------------------------- MODULE ObjectPoolProofs ---------------------------
(***************************************************************************)
(* Each slot of the pool is free or used once, for a pool of any size      *)
(* shared by two threads: what ObjectPool's compare-and-swap without a     *)
(* version tag does guarantee.  With a third thread it does not hold (the  *)
(* run pool_aba); the engine calls each pool from two threads that hold    *)
(* one slot each.                                                          *)
(***************************************************************************)
EXTENDS ObjectPool, Integers, FiniteSetTheorems, TLAPS

\* The threads that may call acquire() and release() of one pool.
TwoThreads == \E a, b : Threads = {a, b}

Owned(t) == pc[t] \in {"held", "relStore", "relCas"}

Acquiring(t) == pc[t] \in {"acqTest", "acqCas"}

\* The free list is the stack L[n], ..., L[1] of distinct slots: head_ is its top
\* and every link points one below; L[0] is the end of the list.
Stack(n, L) ==
    /\ n \in Nat
    /\ L \in [Nat -> Slots \cup {kNull}]
    /\ L[0] = kNull
    /\ \A i \in 1 .. n : L[i] \in Slots /\ next[L[i]] = L[i - 1]
    /\ \A i, j \in 1 .. n : L[i] = L[j] => i = j
    /\ head = L[n]

Listed(n, L) == {L[i] : i \in 1 .. n}

\* The slots of F, those kept and those in the threads' hands share nothing and
\* leave nothing out.
Apart(F) ==
    /\ \A t \in Threads : Owned(t) => idx[t] \notin F /\ idx[t] \notin kept
    /\ \A t, u \in Threads : Owned(t) /\ Owned(u) /\ idx[t] = idx[u] => t = u
    /\ \A s \in Slots : s \in F => s \notin kept
    /\ \A s \in Slots : s \in F \/ s \in kept \/ \E t \in Threads : Owned(t) /\ idx[t] = s

\* A thread about to swap a listed slot off has read that slot's current link.
ReadsCurrent(F) ==
    \A t \in Threads : pc[t] = "acqCas" /\ idx[t] \in F => link[t] = next[idx[t]]

\* While one thread owns the slot another is trying to take, head_ stays where
\* the slot's link points: putting the slot back restores what was read.
SlotInTransit ==
    \A t, u \in Threads :
        Owned(u) /\ Acquiring(t) /\ idx[t] = idx[u] =>
            /\ pc[t] = "acqTest" => next[idx[t]] = head
            /\ pc[t] = "acqCas" => link[t] = head
            /\ pc[u] \in {"relStore", "relCas"} => link[u] = head

LinkStored == \A t \in Threads : pc[t] = "relCas" => next[idx[t]] = link[t]

PoolInv(n, L) ==
    /\ Stack(n, L)
    /\ Apart(Listed(n, L))
    /\ ReadsCurrent(Listed(n, L))
    /\ SlotInTransit
    /\ LinkStored

\* Only a slot is swapped off the list, used and put back, never the end mark.
Typed ==
    /\ TypeOK
    /\ \A t \in Threads : Owned(t) \/ pc[t] = "acqCas" => idx[t] \in Slots

IInv == Typed /\ \E n, L : PoolInv(n, L)

-----------------------------------------------------------------------------
(***************************************************************************)
(* Every step keeps the state well typed                                   *)
(***************************************************************************)
LEMMA InitTyped == Init => Typed
BY PoolAssumption DEF Init, Typed, TypeOK, Slots, kNull, Owned

LEMMA StepTyped == Typed /\ [Next]_vars => Typed'
<1> SUFFICES ASSUME Typed, [Next]_vars PROVE Typed'
  OBVIOUS
<1> USE DEF Typed, TypeOK, Owned
<1>1. ASSUME NEW t \in Threads, Acquire(t) PROVE Typed'
  <2>1. CASE AcquireLoad(t)
    BY <2>1 DEF AcquireLoad
  <2>2. CASE AcquireNull(t)
    BY <2>2 DEF AcquireNull
  <2>3. CASE AcquireNext(t)
    BY <2>3 DEF AcquireNext
  <2>4. CASE AcquireCas(t)
    BY <2>4 DEF AcquireCas
  <2>5. CASE AcquireCasFails(t)
    BY <2>5 DEF AcquireCasFails
  <2> QED
    BY <1>1, <2>1, <2>2, <2>3, <2>4, <2>5 DEF Acquire
<1>2. ASSUME NEW t \in Threads, Keep(t) PROVE Typed'
  BY <1>2 DEF Keep
<1>3. ASSUME NEW t \in Threads, Release(t) PROVE Typed'
  <2>1. CASE ReleaseLoad(t)
    BY <2>1 DEF ReleaseLoad
  <2>2. CASE ReleaseStore(t)
    BY <2>2 DEF ReleaseStore
  <2>3. CASE ReleaseCas(t)
    BY <2>3 DEF ReleaseCas
  <2>4. CASE ReleaseCasFails(t)
    BY <2>4 DEF ReleaseCasFails
  <2> QED
    BY <1>3, <2>1, <2>2, <2>3, <2>4 DEF Release
<1>4. CASE UNCHANGED vars
  BY <1>4 DEF vars
<1> QED
  BY <1>1, <1>2, <1>3, <1>4 DEF Next

\* The locals of acquire() and release() are well typed at every step, however
\* many threads share the pool.
THEOREM Typing == Spec => []TypeOK
<1>1. Typed => TypeOK
  BY DEF Typed
<1> QED
  BY <1>1, InitTyped, StepTyped, PTL DEF Spec

-----------------------------------------------------------------------------
(***************************************************************************)
(* The constructor's list, and the end of the list                         *)
(***************************************************************************)
\* free_list_[i].next = i + 1: the stack has slot PoolSize - 1 at its bottom.
LEMMA InitPool == Init => \E n, L : PoolInv(n, L)
<1> SUFFICES ASSUME Init PROVE \E n, L : PoolInv(n, L)
  OBVIOUS
<1> DEFINE L == [i \in Nat |-> IF i \in 0 .. PoolSize THEN PoolSize - i ELSE kNull]
<1> USE PoolAssumption DEF Slots, kNull
<1>1. Stack(PoolSize, L)
  BY DEF Stack, Init
<1>2. Apart(Listed(PoolSize, L))
  <2>1. ASSUME NEW s \in Slots PROVE s \in Listed(PoolSize, L)
    <3>1. PoolSize - s \in 1 .. PoolSize /\ L[PoolSize - s] = s
      OBVIOUS
    <3> QED BY <3>1, Zenon DEF Listed
  <2> QED BY <2>1 DEF Apart, Init, Owned
<1>3. /\ ReadsCurrent(Listed(PoolSize, L))
      /\ SlotInTransit
      /\ LinkStored
  BY DEF Init, ReadsCurrent, SlotInTransit, LinkStored, Owned, Acquiring
<1> HIDE DEF L
<1> QED BY <1>1, <1>2, <1>3 DEF PoolInv

-----------------------------------------------------------------------------
(***************************************************************************)
(* Every step keeps the stack: the six steps that do not move the list,    *)
(* the store of a link, and the two successful swaps                       *)
(***************************************************************************)
LEMMA ListedPrime ==
    ASSUME NEW n, NEW L
    PROVE  Listed(n, L)' = Listed(n, L)
BY DEF Listed

\* A step of acquire() that loads, fails or returns null, keep, and the steps of
\* release() up to its store: head_ and the links stay.
LEMMA QuietStep ==
    ASSUME Typed, NEW n, NEW L, PoolInv(n, L), NEW t \in Threads,
           \/ AcquireLoad(t) \/ AcquireNull(t) \/ AcquireNext(t) \/ AcquireCasFails(t)
           \/ Keep(t) \/ ReleaseLoad(t) \/ ReleaseCasFails(t)
    PROVE  PoolInv(n, L)'
<1> DEFINE F == Listed(n, L)
<1>1. F' = F
  BY ListedPrime
<1>2. UNCHANGED <<head, next>>
  BY DEF AcquireLoad, AcquireNull, AcquireNext, AcquireCasFails, Keep, ReleaseLoad,
         ReleaseCasFails
<1>3. Stack(n, L)'
  BY <1>2 DEF PoolInv, Stack
<1>4. head \in F \cup {kNull}
  BY DEF PoolInv, Stack, Listed
<1>5. Apart(F) /\ ReadsCurrent(F) /\ SlotInTransit /\ LinkStored
  BY DEF PoolInv
<1>6. Apart(F)' /\ ReadsCurrent(F)' /\ SlotInTransit' /\ LinkStored' => PoolInv(n, L)'
  BY <1>3 DEF PoolInv
<1>7. kNull \notin Slots
  BY PoolAssumption DEF Slots, kNull
<1> HIDE DEF F
<1> USE DEF Typed, TypeOK
<1>8. CASE AcquireLoad(t) \/ AcquireCasFails(t)
  <2>1. Apart(F)'
    BY <1>1, <1>5, <1>8 DEF Apart, Owned, AcquireLoad, AcquireCasFails
  <2>2. ReadsCurrent(F)' /\ LinkStored'
    BY <1>1, <1>5, <1>8 DEF ReadsCurrent, LinkStored, AcquireLoad, AcquireCasFails
  <2>3. \A u \in Threads : Owned(u) => idx[u] # head
    BY <1>4, <1>5, <1>7 DEF Apart
  <2>4. SlotInTransit'
    BY <1>5, <1>8, <2>3 DEF SlotInTransit, Owned, Acquiring, AcquireLoad, AcquireCasFails
  <2> QED
    BY <1>6, <2>1, <2>2, <2>4
<1>9. CASE AcquireNull(t)
  <2>1. Apart(F)' /\ SlotInTransit'
    BY <1>1, <1>5, <1>9 DEF Apart, SlotInTransit, Owned, Acquiring, AcquireNull
  <2>2. ReadsCurrent(F)' /\ LinkStored'
    BY <1>1, <1>5, <1>9 DEF ReadsCurrent, LinkStored, AcquireNull
  <2> QED
    BY <1>6, <2>1, <2>2
<1>10. CASE AcquireNext(t)
  <2>1. Apart(F)' /\ SlotInTransit'
    BY <1>1, <1>5, <1>10 DEF Apart, SlotInTransit, Owned, Acquiring, AcquireNext
  <2>2. ReadsCurrent(F)' /\ LinkStored'
    BY <1>1, <1>5, <1>10 DEF ReadsCurrent, LinkStored, AcquireNext
  <2> QED
    BY <1>6, <2>1, <2>2
<1>11. CASE Keep(t)
  <2>1. Apart(F)'
    <3>1. idx[t] \in Slots /\ idx[t] \notin F /\ idx[t] \notin kept
      BY <1>5, <1>11 DEF Apart, Owned, Keep
    <3>2. \A u \in Threads : Owned(u)' <=> Owned(u) /\ u # t
      BY <1>11 DEF Owned, Keep
    <3> QED
      BY <1>1, <1>5, <1>11, <3>1, <3>2 DEF Apart, Keep, Owned
  <2>2. ReadsCurrent(F)' /\ LinkStored' /\ SlotInTransit'
    BY <1>1, <1>5, <1>11 DEF ReadsCurrent, LinkStored, SlotInTransit, Owned, Acquiring, Keep
  <2> QED
    BY <1>6, <2>1, <2>2
<1>12. CASE ReleaseLoad(t) \/ ReleaseCasFails(t)
  <2>1. Apart(F)'
    BY <1>1, <1>5, <1>12 DEF Apart, Owned, ReleaseLoad, ReleaseCasFails
  <2>2. ReadsCurrent(F)' /\ LinkStored'
    BY <1>1, <1>5, <1>12 DEF ReadsCurrent, LinkStored, ReleaseLoad, ReleaseCasFails
  <2>3. SlotInTransit'
    BY <1>5, <1>12 DEF SlotInTransit, Owned, Acquiring, ReleaseLoad, ReleaseCasFails
  <2> QED
    BY <1>6, <2>1, <2>2, <2>3
<1> QED
  BY <1>8, <1>9, <1>10, <1>11, <1>12

\* The store of release(): the slot is in the thread's hands, so no link of the
\* list changes; nobody else owns it, and who is about to take it has head_.
LEMMA StoreStep ==
    ASSUME Typed, NEW n, NEW L, PoolInv(n, L), NEW t \in Threads, ReleaseStore(t)
    PROVE  PoolInv(n, L)'
<1> DEFINE F == Listed(n, L)
<1>1. F' = F
  BY ListedPrime
<1>2. Apart(F) /\ ReadsCurrent(F) /\ SlotInTransit /\ LinkStored /\ Stack(n, L)
  BY DEF PoolInv
<1>3. idx[t] \in Slots /\ idx[t] \notin F
  BY <1>2 DEF Apart, Typed, Owned, ReleaseStore
<1>4. \A s : s # idx[t] /\ s \in Slots => next'[s] = next[s]
  BY DEF ReleaseStore, Typed, TypeOK
<1>5. next'[idx[t]] = link[t]
  BY <1>3 DEF ReleaseStore, Typed, TypeOK
<1>6. Stack(n, L)'
  BY <1>2, <1>3, <1>4 DEF Stack, Listed, ReleaseStore
<1>7. Apart(F)'
  <2> HIDE DEF F
  <2> QED BY <1>1, <1>2 DEF Apart, Owned, ReleaseStore, Typed, TypeOK
<1>8. ReadsCurrent(F)'
  <2> HIDE DEF F
  <2> QED BY <1>1, <1>2, <1>3, <1>4 DEF ReadsCurrent, ReleaseStore, Typed, TypeOK
<1>9. SlotInTransit'
  BY <1>2, <1>3, <1>4, <1>5 DEF SlotInTransit, Owned, Acquiring, ReleaseStore, Typed, TypeOK
<1>10. LinkStored'
  <2> SUFFICES ASSUME NEW u \in Threads, pc'[u] = "relCas"
               PROVE next'[idx'[u]] = link'[u]
    BY DEF LinkStored
  <2>1. CASE u = t
    BY <2>1, <1>5 DEF ReleaseStore
  <2>2. CASE u # t
    <3>1. pc[u] = "relCas" /\ idx[u] # idx[t] /\ idx[u] \in Slots
      BY <2>2, <1>2 DEF ReleaseStore, Typed, TypeOK, Apart, Owned
    <3> QED BY <3>1, <1>2, <1>4 DEF ReleaseStore, LinkStored
  <2> QED BY <2>1, <2>2
<1> QED
  BY <1>6, <1>7, <1>8, <1>9, <1>10 DEF PoolInv

\* A successful swap of acquire(): the link it read is the slot below the top, so
\* the list loses its top and nothing else.
LEMMA PopStep ==
    ASSUME Typed, TwoThreads, NEW n, NEW L, PoolInv(n, L), NEW t \in Threads, AcquireCas(t)
    PROVE  PoolInv(n - 1, L)'
<1> DEFINE F == Listed(n, L)
           G == Listed(n - 1, L)
<1>1. G' = G
  BY ListedPrime
<1>2. Apart(F) /\ ReadsCurrent(F) /\ SlotInTransit /\ LinkStored /\ Stack(n, L)
  BY DEF PoolInv
<1>3. /\ head = idx[t] /\ idx[t] \in Slots /\ kNull \notin Slots
      /\ pc' = [pc EXCEPT ![t] = "held"] /\ pc[t] = "acqCas"
      /\ UNCHANGED <<next, idx, link, kept>>
  BY PoolAssumption DEF AcquireCas, Typed, Slots, kNull
<1>4. n \in Nat /\ n >= 1 /\ L[n] = idx[t]
  <2>1. n \in Nat /\ head = L[n] /\ L[0] = kNull
    BY <1>2 DEF Stack
  <2>2. n # 0
    BY <2>1, <1>3
  <2> QED BY <2>1, <2>2, <1>3
<1>5. F = G \cup {idx[t]} /\ idx[t] \notin G
  BY <1>2, <1>4 DEF Stack, Listed
<1>6. head' = next[idx[t]] /\ head' = L[n - 1]
  <2>1. idx[t] \in F
    BY <1>5
  <2>2. head' = next[idx[t]]
    BY <2>1, <1>2, <1>3 DEF ReadsCurrent, AcquireCas
  <2> QED BY <2>2, <1>2, <1>4 DEF Stack
<1>7. Stack(n - 1, L)'
  BY <1>2, <1>3, <1>4, <1>6 DEF Stack
<1> HIDE DEF F, G
<1>8. \A u \in Threads : Owned(u)' <=> Owned(u) \/ u = t
  BY <1>3 DEF Owned, Typed, TypeOK
<1>9. Apart(G)'
  BY <1>1, <1>2, <1>3, <1>5, <1>8 DEF Apart
<1>10. ReadsCurrent(G)'
  BY <1>1, <1>2, <1>3, <1>5 DEF ReadsCurrent, Typed, TypeOK
<1>11. LinkStored'
  BY <1>2, <1>3 DEF LinkStored, Typed, TypeOK
<1>12. SlotInTransit'
  <2> SUFFICES ASSUME NEW v \in Threads, NEW u \in Threads,
                      Owned(u)', Acquiring(v)', idx'[v] = idx'[u]
               PROVE  /\ pc'[v] = "acqTest" => next'[idx'[v]] = head'
                      /\ pc'[v] = "acqCas" => link'[v] = head'
                      /\ pc'[u] \in {"relStore", "relCas"} => link'[u] = head'
    BY DEF SlotInTransit
  <2>1. v # t /\ v # u
    BY <1>3 DEF Owned, Acquiring, Typed, TypeOK
  <2>2. u = t
    BY <2>1 DEF TwoThreads
  <2>3. idx[v] = idx[t] /\ idx[v] \in F /\ pc'[v] = pc[v] /\ pc'[t] = "held"
    BY <2>1, <2>2, <1>3, <1>5 DEF Typed, TypeOK
  <2> QED BY <2>2, <2>3, <1>2, <1>3, <1>6 DEF ReadsCurrent
<1> QED
  BY <1>7, <1>9, <1>10, <1>11, <1>12 DEF PoolInv, G

\* A successful swap of release(): head_ is what the slot's link holds, so the
\* slot becomes the new top.
LEMMA PushStep ==
    ASSUME Typed, TwoThreads, NEW n, NEW L, PoolInv(n, L), NEW t \in Threads, ReleaseCas(t)
    PROVE  PoolInv(n + 1, [L EXCEPT ![n + 1] = idx[t]])'
<1> DEFINE M == [L EXCEPT ![n + 1] = idx[t]]
           F == Listed(n, L)
           G == Listed(n + 1, M)
<1>2. Apart(F) /\ ReadsCurrent(F) /\ SlotInTransit /\ LinkStored /\ Stack(n, L)
  BY DEF PoolInv
<1>3. /\ head = link[t] /\ head' = idx[t] /\ idx[t] \in Slots /\ kNull \notin Slots
      /\ pc' = [pc EXCEPT ![t] = "idle"] /\ pc[t] = "relCas"
      /\ UNCHANGED <<next, idx, link, kept>>
      /\ next[idx[t]] = head /\ idx[t] \notin F /\ idx[t] \notin kept
  BY <1>2, PoolAssumption DEF ReleaseCas, Typed, Slots, kNull, LinkStored, Apart, Owned
<1>4. /\ n \in Nat /\ L \in [Nat -> Slots \cup {kNull}] /\ M \in [Nat -> Slots \cup {kNull}]
      /\ M[n + 1] = idx[t] /\ \A i \in 0 .. n : M[i] = L[i]
  BY <1>2, <1>3 DEF Stack
<1>5. G = F \cup {idx[t]}
  <2> HIDE DEF M
  <2> QED BY <1>4 DEF Listed
<1>6. G' = G /\ M' = M
  BY <1>3 DEF Listed
<1>7. Stack(n + 1, M)'
  <2>1. \A i \in 1 .. n : M[i] # idx[t] /\ M[i] \in Slots /\ next[M[i]] = M[i - 1]
    BY <1>2, <1>3, <1>4 DEF Stack, Listed
  <2>2. \A i, j \in 1 .. n : M[i] = M[j] => i = j
    BY <1>2, <1>4 DEF Stack
  <2>3. M[0] = kNull /\ M[n] = head
    BY <1>2, <1>4 DEF Stack
  <2> HIDE DEF M
  <2> QED BY <1>3, <1>4, <1>6, <2>1, <2>2, <2>3 DEF Stack
<1> HIDE DEF F, G, M
<1>8. \A u \in Threads : Owned(u)' <=> Owned(u) /\ u # t
  BY <1>3 DEF Owned, Typed, TypeOK
<1>9. Apart(G)'
  BY <1>2, <1>3, <1>5, <1>6, <1>8 DEF Apart, Owned
<1>10. ReadsCurrent(G)'
  <2> SUFFICES ASSUME NEW u \in Threads, pc'[u] = "acqCas", idx'[u] \in G
               PROVE link'[u] = next'[idx'[u]]
    BY <1>6 DEF ReadsCurrent
  <2>1. pc[u] = "acqCas" /\ u # t /\ idx'[u] = idx[u] /\ link'[u] = link[u] /\ next' = next
    BY <1>3 DEF Typed, TypeOK
  <2>2. CASE idx[u] \in F
    BY <2>1, <2>2, <1>2 DEF ReadsCurrent
  <2>3. CASE idx[u] = idx[t]
    BY <2>1, <2>3, <1>2, <1>3 DEF SlotInTransit, Owned, Acquiring
  <2> QED BY <2>1, <2>2, <2>3, <1>5
<1>11. LinkStored'
  BY <1>2, <1>3 DEF LinkStored, Typed, TypeOK
<1>12. SlotInTransit'
  <2> SUFFICES ASSUME NEW v \in Threads, NEW u \in Threads,
                      Owned(u)', Acquiring(v)', idx'[v] = idx'[u]
               PROVE  FALSE
    BY DEF SlotInTransit
  <2>1. v # t /\ v # u /\ u # t
    BY <1>3 DEF Owned, Acquiring, Typed, TypeOK
  <2> QED BY <2>1 DEF TwoThreads
<1> QED
  BY <1>7, <1>9, <1>10, <1>11, <1>12 DEF PoolInv, G, M

LEMMA StepPool ==
    ASSUME Typed, TwoThreads, \E n, L : PoolInv(n, L), [Next]_vars
    PROVE  \E n, L : PoolInv(n, L)'
<1> PICK n, L : PoolInv(n, L)
  OBVIOUS
<1>1. ASSUME NEW t \in Threads, Acquire(t) \/ Keep(t) \/ Release(t)
      PROVE  \E m, M : PoolInv(m, M)'
  <2>1. CASE ReleaseStore(t)
    BY <2>1, StoreStep
  <2>2. CASE AcquireCas(t)
    BY <2>2, PopStep
  <2>3. CASE ReleaseCas(t)
    <3>1. PoolInv(n + 1, [L EXCEPT ![n + 1] = idx[t]])'
      BY <2>3, PushStep
    <3>2. idx' = idx
      BY <2>3 DEF ReleaseCas
    <3> QED BY <3>1, <3>2
  <2>4. CASE \/ AcquireLoad(t) \/ AcquireNull(t) \/ AcquireNext(t) \/ AcquireCasFails(t)
             \/ Keep(t) \/ ReleaseLoad(t) \/ ReleaseCasFails(t)
    BY <2>4, QuietStep
  <2> QED
    BY <1>1, <2>1, <2>2, <2>3, <2>4 DEF Acquire, Release
<1>2. CASE UNCHANGED vars
  <2>1. PoolInv(n, L)'
    BY <1>2 DEF vars, PoolInv, Stack, Listed, Apart, ReadsCurrent, SlotInTransit, LinkStored,
                Owned, Acquiring
  <2> QED BY <2>1
<1> QED
  BY <1>1, <1>2 DEF Next

\* What is true of some stack holds at every step of two threads.
LEMMA PoolAlways == ASSUME TwoThreads PROVE Spec => []IInv
<1>1. Init => IInv
  BY InitTyped, InitPool DEF IInv
<1>2. IInv /\ [Next]_vars => IInv'
  <2> SUFFICES ASSUME IInv, [Next]_vars PROVE IInv'
    OBVIOUS
  <2>1. Typed'
    BY StepTyped DEF IInv
  <2>2. \E n, L : PoolInv(n, L)'
    BY StepPool DEF IInv
  <2> QED
    BY <2>1, <2>2 DEF IInv
<1> QED
  BY <1>1, <1>2, PTL DEF Spec

-----------------------------------------------------------------------------
(***************************************************************************)
(* Walking the list from head_ meets the stack from its top.  The prover   *)
(* has no induction over formulas; that every nonempty set of numbers has  *)
(* a least element follows from the well-foundedness of finite subsets,    *)
(* and induction over sets from that.                                      *)
(***************************************************************************)
LEMMA LeastElement ==
    ASSUME NEW S \in SUBSET Nat, S # {}
    PROVE  \E n \in S : \A m \in S : n <= m
<1> DEFINE C == {0 .. m : m \in S}
<1>1. C \subseteq FiniteSubsetsOf(Nat)
  <2> SUFFICES ASSUME NEW m \in S PROVE 0 .. m \in FiniteSubsetsOf(Nat)
    OBVIOUS
  <2>1. IsFiniteSet(0 .. m)
    BY FS_Interval
  <2>2. 0 .. m \in SUBSET Nat
    OBVIOUS
  <2> QED BY <2>1, <2>2 DEF FiniteSubsetsOf
<1>2. C # {}
  OBVIOUS
<1>3. PICK x \in C : \A y \in C : ~ (<<y, x>> \in StrictSubsetOrdering(Nat))
  <2>1. IsWellFoundedOn(StrictSubsetOrdering(Nat), FiniteSubsetsOf(Nat))
    BY FS_StrictSubsetOrderingWellFounded
  <2> HIDE DEF C
  <2> QED BY <1>1, <1>2, <2>1, WFMin
<1>4. PICK n \in S : x = 0 .. n
  OBVIOUS
<1>5. ASSUME NEW m \in S, ~ (n <= m) PROVE FALSE
  <2>1. 0 .. m \in C /\ 0 .. m \in SUBSET Nat /\ 0 .. n \in SUBSET Nat
    OBVIOUS
  <2>2. 0 .. m \subseteq 0 .. n /\ n \in 0 .. n /\ n \notin 0 .. m
    BY <1>5
  <2>3. <<0 .. m, 0 .. n>> \in StrictSubsetOrdering(Nat)
    BY <2>1, <2>2, Zenon DEF StrictSubsetOrdering
  <2> QED BY <2>1, <2>3, <1>3, <1>4
<1> QED BY <1>5

LEMMA Induction ==
    ASSUME NEW S \in SUBSET Nat, 0 \in S, \A n \in S : n + 1 \in S
    PROVE  S = Nat
<1>1. SUFFICES ASSUME Nat \ S # {} PROVE FALSE
  OBVIOUS
<1>2. PICK n \in Nat \ S : \A m \in Nat \ S : n <= m
  BY <1>1, LeastElement
<1>3. n # 0 /\ n - 1 \in Nat /\ n - 1 \in S
  BY <1>2
<1> QED BY <1>3

\* n distinct slots are no more than there are slots.
LEMMA StackFits ==
    ASSUME NEW n, NEW L, Stack(n, L)
    PROVE  n <= PoolSize
<1> SUFFICES ASSUME n > PoolSize PROVE FALSE
  BY PoolAssumption DEF Stack
<1> DEFINE f == [i \in 1 .. n |-> L[i]]
<1>1. n \in Nat /\ f \in [1 .. n -> Slots]
  BY DEF Stack
<1>2. IsFiniteSet(1 .. n) /\ Cardinality(1 .. n) = n
  BY <1>1, FS_Interval
<1>3. IsFiniteSet(Slots) /\ Cardinality(Slots) = PoolSize
  BY FS_Interval, PoolAssumption DEF Slots
<1>4. \E i, j \in 1 .. n : i # j /\ f[i] = f[j]
  <2> HIDE DEF f
  <2> QED BY <1>1, <1>2, <1>3, FS_PigeonHole
<1> QED BY <1>4 DEF Stack

\* Chain is the stack read from its top, and the end mark from there on.
LEMMA ChainIsStack ==
    ASSUME NEW n, NEW L, Stack(n, L), n <= PoolSize
    PROVE  \A k \in 0 .. PoolSize : Chain[k] = IF k <= n THEN L[n - k] ELSE kNull
<1> DEFINE g == [k \in 0 .. PoolSize |-> IF k <= n THEN L[n - k] ELSE kNull]
           Walk(h) == [k \in 0 .. PoolSize |->
                          IF k = 0 THEN head
                          ELSE IF h[k - 1] = kNull THEN kNull ELSE next[h[k - 1]]]
<1> USE PoolAssumption
<1>1. /\ n \in Nat /\ L[0] = kNull /\ head = L[n] /\ kNull \notin Slots
      /\ \A i \in 1 .. n : L[i] \in Slots /\ next[L[i]] = L[i - 1]
  BY DEF Stack, Slots, kNull
<1>2. g = Walk(g)
  <2>1. ASSUME NEW k \in 0 .. PoolSize
        PROVE  g[k] = IF k = 0 THEN head
                      ELSE IF g[k - 1] = kNull THEN kNull ELSE next[g[k - 1]]
    <3>1. CASE k = 0
      BY <3>1, <1>1
    <3>2. CASE k # 0 /\ k <= n
      BY <3>2, <1>1
    <3>3. CASE k # 0 /\ k = n + 1
      BY <3>3, <1>1
    <3>4. CASE k # 0 /\ k > n + 1
      BY <3>4, <1>1
    <3> QED BY <3>1, <3>2, <3>3, <3>4, <1>1
  <2> QED BY <2>1, Zenon
<1>3. Chain = Walk(Chain)
  <2>1. Chain = CHOOSE h : h = Walk(h)
    BY DEF Chain
  <2> HIDE DEF g, Walk
  <2> QED BY <1>2, <2>1, Zenon
<1>4. ASSUME NEW k \in Nat, k + 1 \in 0 .. PoolSize, Chain[k] = g[k]
      PROVE  Chain[k + 1] = g[k + 1]
  <2>1. k \in 0 .. PoolSize /\ k + 1 # 0 /\ (k + 1) - 1 = k
    BY <1>4
  <2>2. \A h : h = Walk(h) => h[k + 1] = IF h[k] = kNull THEN kNull ELSE next[h[k]]
    BY <1>4, <2>1, Zenon
  <2> HIDE DEF g, Walk
  <2> QED BY <1>2, <1>3, <1>4, <2>2
<1>5. Chain[0] = g[0]
  <2>1. 0 \in 0 .. PoolSize
    OBVIOUS
  <2>2. \A h : h = Walk(h) => h[0] = head
    BY <2>1, Zenon
  <2> HIDE DEF g, Walk
  <2> QED BY <1>2, <1>3, <2>2
<1> DEFINE S == {k \in Nat : k \in 0 .. PoolSize => Chain[k] = g[k]}
<1>6. S = Nat
  <2> HIDE DEF g
  <2>1. S \in SUBSET Nat /\ 0 \in S
    BY <1>5
  <2>2. ASSUME NEW k \in S PROVE k + 1 \in S
    BY <1>4
  <2> HIDE DEF S
  <2> QED BY <2>1, <2>2, Induction
<1>7. \A k \in 0 .. PoolSize : Chain[k] = g[k]
  <2> HIDE DEF g
  <2> QED BY <1>6
<1> QED BY <1>7

\* The slots met on the walk are the stack's, and the walk comes to the end.
LEMMA FreeIsListed ==
    ASSUME NEW n, NEW L, Stack(n, L)
    PROVE  Chain[PoolSize] = kNull /\ FreeSlots = Listed(n, L)
<1>1. n \in Nat /\ n <= PoolSize /\ L[0] = kNull /\ kNull \notin Slots
      /\ \A i \in 1 .. n : L[i] \in Slots
  BY StackFits, PoolAssumption DEF Stack, Slots, kNull
<1>2. \A k \in 0 .. PoolSize : Chain[k] = IF k <= n THEN L[n - k] ELSE kNull
  BY <1>1, ChainIsStack
<1>3. Chain[PoolSize] = kNull
  BY <1>1, <1>2, PoolAssumption
<1>4. ASSUME NEW s \in FreeSlots PROVE s \in Listed(n, L)
  <2>1. PICK k \in 0 .. PoolSize : s = Chain[k] /\ s # kNull
    BY DEF FreeSlots
  <2>2. k <= n /\ s = L[n - k] /\ n - k \in 1 .. n
    BY <1>1, <1>2, <2>1
  <2> QED BY <2>2 DEF Listed
<1>5. ASSUME NEW s \in Listed(n, L) PROVE s \in FreeSlots
  <2>1. PICK i \in 1 .. n : s = L[i]
    BY DEF Listed
  <2>2. n - i \in 0 .. PoolSize /\ n - i <= n /\ n - (n - i) = i
    BY <1>1, PoolAssumption
  <2>3. Chain[n - i] = s /\ s # kNull
    BY <1>1, <1>2, <2>1, <2>2
  <2> QED BY <2>2, <2>3 DEF FreeSlots
<1> QED BY <1>3, <1>4, <1>5

\* A slot is on the free list or in the hands of one user.
LEMMA PoolInvEachSlot ==
    ASSUME Typed, NEW n, NEW L, PoolInv(n, L)
    PROVE  EachSlotOnce
<1>1. Chain[PoolSize] = kNull /\ FreeSlots = Listed(n, L) /\ Apart(FreeSlots)
  BY FreeIsListed DEF PoolInv
<1>2. ASSUME NEW s \in Slots PROVE Uses(s) = IF s \in FreeSlots THEN 0 ELSE 1
  <2>1. CASE Owners(s) = {}
    <3>1. \A t \in Threads : ~ (Owned(t) /\ idx[t] = s)
      BY <2>1 DEF Owners, Owned
    <3>2. s \in FreeSlots <=> s \notin kept
      BY <1>1, <3>1 DEF Apart
    <3>3. Cardinality(Owners(s)) = 0
      BY <2>1, FS_EmptySet
    <3> QED BY <3>2, <3>3 DEF Uses
  <2>2. CASE Owners(s) # {}
    <3>1. PICK t \in Threads : Owned(t) /\ idx[t] = s
      BY <2>2 DEF Owners, Owned
    <3>2. Owners(s) = {t}
      BY <1>1, <3>1 DEF Owners, Owned, Apart
    <3>3. Cardinality(Owners(s)) = 1
      BY <3>2, FS_Singleton
    <3>4. s \notin FreeSlots /\ s \notin kept
      BY <1>1, <3>1 DEF Apart
    <3> QED BY <3>3, <3>4 DEF Uses
  <2> QED BY <2>1, <2>2
<1> QED BY <1>1, <1>2 DEF EachSlotOnce

\* With at most two threads in acquire() and release(), the compare-and-swap
\* without a version tag never hands out a slot in use and never loses one,
\* whatever the size of the pool and however long the run.
THEOREM SlotsNeverShared == ASSUME TwoThreads PROVE Spec => []EachSlotOnce
<1>1. IInv => EachSlotOnce
  BY PoolInvEachSlot DEF IInv
<1> QED
  BY <1>1, PoolAlways, PTL

-----------------------------------------------------------------------------
(***************************************************************************)
(* The pool implements the allocator                                       *)
(***************************************************************************)
\* The free list as the refinement sees it: what it lacks is kept or in hands, and
\* head_ is its top, or it is empty.
FreeApart ==
    /\ Typed
    /\ Apart(FreeSlots)
    /\ FreeSlots \subseteq Slots
    /\ IF head = kNull THEN FreeSlots = {} ELSE head \in FreeSlots

LEMMA PoolInvFree ==
    ASSUME Typed, NEW n, NEW L, PoolInv(n, L)
    PROVE  FreeApart
<1>1. FreeSlots = Listed(n, L) /\ Apart(FreeSlots)
  BY FreeIsListed DEF PoolInv
<1>2. /\ n \in Nat /\ L[0] = kNull /\ head = L[n] /\ kNull \notin Slots
      /\ \A i \in 1 .. n : L[i] \in Slots
  BY PoolAssumption DEF PoolInv, Stack, Slots, kNull
<1>3. FreeSlots \subseteq Slots
  BY <1>1, <1>2 DEF Listed
<1>4. CASE n = 0
  BY <1>1, <1>2, <1>3, <1>4 DEF Listed, FreeApart
<1>5. CASE n # 0
  <2>1. n \in 1 .. n
    BY <1>2, <1>5
  <2>2. head \in Listed(n, L) /\ head # kNull
    BY <1>2, <2>1 DEF Listed
  <2> QED BY <1>1, <1>3, <2>2 DEF FreeApart
<1> QED BY <1>4, <1>5

\* A step that leaves the kept slots and the hands alone leaves the free list alone.
LEMMA SameHands ==
    ASSUME FreeApart, FreeApart', kept' = kept,
           \A t \in Threads : Owned(t)' = Owned(t) /\ (Owned(t) => idx[t]' = idx[t])
    PROVE  FreeSlots' = FreeSlots /\ Hands' = Hands
<1>1. Slots' = Slots
  BY DEF Slots
<1>2. \A s \in Slots : s \in FreeSlots <=> s \notin kept /\ ~ \E t \in Threads : Owned(t) /\ idx[t] = s
  BY DEF FreeApart, Apart
<1>3. \A s \in Slots : s \in FreeSlots' <=> s \notin kept' /\ ~ \E t \in Threads : Owned(t)' /\ idx[t]' = s
  BY <1>1 DEF FreeApart, Apart
<1>4. FreeSlots \subseteq Slots /\ FreeSlots' \subseteq Slots
  BY <1>1 DEF FreeApart
<1>5. \A s \in Slots : s \in FreeSlots' <=> s \in FreeSlots
  BY <1>2, <1>3
<1>6. Hands' = Hands
  BY DEF Hands, Owned
<1> QED BY <1>4, <1>5, <1>6

\* The compare-and-swap of acquire(): the top of the list changes hands.
LEMMA TakeStep ==
    ASSUME FreeApart, FreeApart', NEW t \in Threads, AcquireCas(t)
    PROVE  idx[t] \in Slots /\ Allocator!Take(t, idx[t])
<1>1. idx[t] \in Slots /\ idx[t] # kNull /\ head = idx[t] /\ ~ Owned(t) /\ pc[t] = "acqCas"
  BY PoolAssumption DEF FreeApart, Typed, AcquireCas, Owned, Slots, kNull
<1>2. idx[t] \in FreeSlots
  BY <1>1 DEF FreeApart
<1>3. /\ pc' = [pc EXCEPT ![t] = "held"] /\ UNCHANGED <<idx, kept>> /\ DOMAIN pc = Threads
      /\ Slots' = Slots
  BY DEF AcquireCas, FreeApart, Typed, TypeOK, Slots
<1>4. Owned(t)' /\ \A u \in Threads : u # t => Owned(u)' = Owned(u)
  BY <1>3 DEF Owned
<1>5. \A s \in Slots : s \in FreeSlots' <=> s \in FreeSlots /\ s # idx[t]
  BY <1>1, <1>2, <1>3, <1>4 DEF FreeApart, Apart
<1>6. FreeSlots' = FreeSlots \ {idx[t]}
  BY <1>3, <1>5 DEF FreeApart
<1>7. Hands' = [Hands EXCEPT ![t] = {idx[t]}] /\ Hands[t] = {}
  BY <1>1, <1>3, <1>4 DEF Hands, Owned
<1>8. Refused' = Refused /\ t \notin Refused
  BY <1>1, <1>3 DEF Refused
<1> QED
  BY <1>1, <1>2, <1>3, <1>6, <1>7, <1>8 DEF Allocator!Take, Allocator!Wants

\* The compare-and-swap of release(): the slot in hand is the new top.
LEMMA GiveStep ==
    ASSUME FreeApart, FreeApart', NEW t \in Threads, ReleaseCas(t)
    PROVE  idx[t] \in Slots /\ Allocator!GiveBack(t, idx[t])
<1>1. idx[t] \in Slots /\ Owned(t) /\ pc[t] = "relCas"
  BY DEF FreeApart, Typed, ReleaseCas, Owned
<1>2. idx[t] \notin FreeSlots /\ idx[t] \notin kept
  BY <1>1 DEF FreeApart, Apart
<1>3. /\ pc' = [pc EXCEPT ![t] = "idle"] /\ UNCHANGED <<idx, kept>> /\ DOMAIN pc = Threads
      /\ Slots' = Slots
  BY DEF ReleaseCas, FreeApart, Typed, TypeOK, Slots
<1>4. ~ Owned(t)' /\ \A u \in Threads : u # t => Owned(u)' = Owned(u)
  BY <1>3 DEF Owned
<1>5. \A u \in Threads : Owned(u) /\ idx[u] = idx[t] => u = t
  BY <1>1 DEF FreeApart, Apart
<1>6. \A s \in Slots : s \in FreeSlots' <=> s \in FreeSlots \/ s = idx[t]
  BY <1>1, <1>2, <1>3, <1>4, <1>5 DEF FreeApart, Apart
<1>7. FreeSlots' = FreeSlots \cup {idx[t]}
  BY <1>1, <1>3, <1>6 DEF FreeApart
<1>8. Hands' = [Hands EXCEPT ![t] = {}] /\ Hands[t] = {idx[t]}
  BY <1>1, <1>3, <1>4 DEF Hands, Owned
<1>9. Refused' = Refused
  BY <1>1, <1>3 DEF Refused
<1> QED
  BY <1>1, <1>2, <1>3, <1>7, <1>8, <1>9 DEF Allocator!GiveBack

\* The registry takes the slot: neither in hand nor free.
LEMMA KeepStep ==
    ASSUME FreeApart, FreeApart', NEW t \in Threads, Keep(t)
    PROVE  idx[t] \in Slots /\ Allocator!Keep(t, idx[t])
<1>1. idx[t] \in Slots /\ Owned(t) /\ pc[t] = "held"
  BY DEF FreeApart, Typed, Keep, Owned
<1>2. /\ pc' = [pc EXCEPT ![t] = "idle"] /\ kept' = kept \cup {idx[t]} /\ idx' = idx
      /\ DOMAIN pc = Threads /\ Slots' = Slots
  BY DEF Keep, FreeApart, Typed, TypeOK, Slots
<1>3. ~ Owned(t)' /\ \A u \in Threads : u # t => Owned(u)' = Owned(u)
  BY <1>2 DEF Owned
<1>4. \A s \in Slots : s \in FreeSlots' <=> s \in FreeSlots
  BY <1>1, <1>2, <1>3 DEF FreeApart, Apart
<1>5. FreeSlots' = FreeSlots
  BY <1>2, <1>4 DEF FreeApart
<1>6. Hands' = [Hands EXCEPT ![t] = {}] /\ Hands[t] = {idx[t]}
  BY <1>1, <1>2, <1>3 DEF Hands, Owned
<1>7. Refused' = Refused
  BY <1>1, <1>2 DEF Refused
<1> QED
  BY <1>1, <1>2, <1>5, <1>6, <1>7 DEF Allocator!Keep

\* A load that finds the end of the list for a top finds nothing free.
LEMMA LoadStep ==
    ASSUME FreeApart, FreeApart', NEW t \in Threads, AcquireLoad(t) \/ AcquireCasFails(t)
    PROVE  Allocator!Refuse(t) \/ UNCHANGED Allocator!poolVars
<1>1. /\ pc[t] \in {"idle", "acqCas"} /\ pc' = [pc EXCEPT ![t] = "acqTest"]
      /\ idx' = [idx EXCEPT ![t] = head] /\ UNCHANGED <<head, kept>>
      /\ DOMAIN pc = Threads /\ idx \in [Threads -> Slots \cup {kNull}]
  BY DEF AcquireLoad, AcquireCasFails, FreeApart, Typed, TypeOK
<1>2. ~ Owned(t) /\ \A u \in Threads : Owned(u)' = Owned(u) /\ (Owned(u) => idx[u]' = idx[u])
  BY <1>1 DEF Owned
<1>3. FreeSlots' = FreeSlots /\ Hands' = Hands
  BY <1>1, <1>2, SameHands
<1>4. Hands[t] = {} /\ t \notin Refused
  BY <1>1, <1>2 DEF Hands, Owned, Refused
<1>5. CASE head = kNull
  <2>1. FreeSlots = {}
    BY <1>5 DEF FreeApart
  <2>2. Refused' = Refused \cup {t}
    BY <1>1, <1>5 DEF Refused, kNull
  <2> QED
    BY <1>1, <1>3, <1>4, <2>1, <2>2 DEF Allocator!Refuse, Allocator!Wants
<1>6. CASE head # kNull
  <2>1. Refused' = Refused
    BY <1>1, <1>4, <1>6 DEF Refused, kNull
  <2> QED
    BY <1>1, <1>3, <2>1 DEF Allocator!poolVars
<1> QED BY <1>5, <1>6

\* Every other step is the thread's own, but for the nullptr it returns.
LEMMA OwnStep ==
    ASSUME FreeApart, FreeApart', NEW t \in Threads,
           AcquireNull(t) \/ AcquireNext(t) \/ ReleaseLoad(t) \/ ReleaseStore(t) \/ ReleaseCasFails(t)
    PROVE  Allocator!Tell(t) \/ UNCHANGED Allocator!poolVars
<1>1. UNCHANGED <<idx, kept>> /\ DOMAIN pc = Threads /\ kNull' = kNull
  BY DEF AcquireNull, AcquireNext, ReleaseLoad, ReleaseStore, ReleaseCasFails, FreeApart, Typed,
         TypeOK, kNull
<1>2. \A u \in Threads : Owned(u)' = Owned(u)
  BY <1>1 DEF AcquireNull, AcquireNext, ReleaseLoad, ReleaseStore, ReleaseCasFails, Owned
<1>3. FreeSlots' = FreeSlots /\ Hands' = Hands
  BY <1>1, <1>2, SameHands
<1>4. CASE AcquireNull(t)
  <2>1. t \in Refused /\ Refused' = Refused \ {t}
    BY <1>1, <1>4 DEF AcquireNull, Refused
  <2> QED BY <1>1, <1>3, <2>1 DEF Allocator!Tell
<1>5. CASE ~ AcquireNull(t)
  <2>1. Refused' = Refused
    BY <1>1, <1>5 DEF AcquireNext, ReleaseLoad, ReleaseStore, ReleaseCasFails, Refused
  <2> QED BY <1>1, <1>3, <2>1 DEF Allocator!poolVars
<1> QED BY <1>4, <1>5

LEMMA AllocatorStep ==
    FreeApart /\ FreeApart' /\ [Next]_vars => [Allocator!Next]_(Allocator!poolVars)
<1> SUFFICES ASSUME FreeApart, FreeApart', [Next]_vars
             PROVE  Allocator!Next \/ UNCHANGED Allocator!poolVars
  OBVIOUS
<1>1. ASSUME NEW t \in Threads, Acquire(t) \/ Keep(t) \/ Release(t)
      PROVE  Allocator!Next \/ UNCHANGED Allocator!poolVars
  <2>1. CASE AcquireCas(t)
    BY <2>1, TakeStep DEF Allocator!Next
  <2>2. CASE ReleaseCas(t)
    BY <2>2, GiveStep DEF Allocator!Next
  <2>3. CASE Keep(t)
    BY <2>3, KeepStep DEF Allocator!Next
  <2>4. CASE AcquireLoad(t) \/ AcquireCasFails(t)
    BY <2>4, LoadStep DEF Allocator!Next
  <2>5. CASE AcquireNull(t) \/ AcquireNext(t) \/ ReleaseLoad(t) \/ ReleaseStore(t)
             \/ ReleaseCasFails(t)
    BY <2>5, OwnStep DEF Allocator!Next
  <2> QED
    BY <1>1, <2>1, <2>2, <2>3, <2>4, <2>5 DEF Acquire, Release
<1>2. CASE UNCHANGED vars
  BY <1>2 DEF vars, Allocator!poolVars, Chain, FreeSlots, Hands, Refused, Slots, kNull
<1> QED
  BY <1>1, <1>2 DEF Next

\* Two threads see in the lock-free pool a plain allocator: a slot is taken and
\* given back at one moment, and nullptr means that the pool was exhausted at a
\* moment of the call, never that another thread was faster.
THEOREM PoolAllocates == ASSUME TwoThreads PROVE Spec => AllocatorSpec
<1>1. IInv => FreeApart
  BY PoolInvFree DEF IInv
<1>2. Init => Allocator!Init
  <2> SUFFICES ASSUME Init PROVE Allocator!Init
    OBVIOUS
  <2>1. FreeApart
    BY InitTyped, InitPool, PoolInvFree
  <2>2. \A t \in Threads : ~ Owned(t)
    BY DEF Init, Owned
  <2>3. FreeSlots = Slots
    BY <2>1, <2>2 DEF FreeApart, Apart, Init
  <2> QED
    BY <2>3 DEF Allocator!Init, Init, Hands, Refused
<1> QED
  BY <1>1, <1>2, AllocatorStep, PoolAlways, PTL DEF Spec, AllocatorSpec, Allocator!Spec

=============================================================================
