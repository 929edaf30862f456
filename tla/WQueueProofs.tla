----------------------------- MODULE WQueueProofs -----------------------------
(***************************************************************************)
(* Proofs about WQueue, for any finite number of threads and any items:    *)
(* its mutex excludes, no wake-up is lost, and it is an AtomicQueue.       *)
(***************************************************************************)
EXTENDS WQueue, FiniteSetTheorems, TLAPS

-----------------------------------------------------------------------------
(* The places of the threads.                                              *)

\* A thread between lock and unlock, or woken from the wait inside, holds the
\* mutex, and nobody else does.
MutexHeld ==
    /\ \A p \in Producers : adding[p].pc \in {"push", "signal", "unlock"} <=> m_mutex = p
    /\ \A c \in Consumers : removing[c] \in {"test", "unlock"} <=> m_mutex = c

\* m_queue, and any wait, is looked at by one thread at a time.
MutexExcludes ==
    /\ \A p, q \in Producers :
           adding[p].pc \in {"push", "signal", "unlock"}
           /\ adding[q].pc \in {"push", "signal", "unlock"} => p = q
    /\ \A c, d \in Consumers :
           removing[c] \in {"test", "unlock"} /\ removing[d] \in {"test", "unlock"} => c = d
    /\ \A p \in Producers, c \in Consumers :
           ~(adding[p].pc \in {"push", "signal", "unlock"}
             /\ removing[c] \in {"test", "unlock"})

\* Those of whom NoLostWakeup speaks.
OnTheirWay == {c \in Consumers : removing[c] \in {"lock", "test"}}
Signalling == {p \in Producers : adding[p].pc = "signal"}

AddPlaces == {"lock", "push", "signal", "unlock"}

\* A producer is out of add or has an item in hand.
LEMMA ProducerCases ==
    ASSUME QueueTypeOK, NEW p \in Producers
    PROVE  \/ adding[p] = Out /\ adding[p].pc = "out"
           \/ /\ adding[p] \in [pc: AddPlaces, item: Items]
              /\ adding[p].pc \in AddPlaces /\ adding[p].item \in Items
<1>1. adding[p] \in {Out} \cup [pc: AddPlaces, item: Items]
  BY DEF QueueTypeOK, AddPlaces
<1>2. QED
  BY <1>1 DEF Out

\* A producer that goes on inside add keeps its item; the others stay.
LEMMA AtPlace ==
    ASSUME QueueTypeOK, NEW p \in Producers, NEW place \in AddPlaces,
           NEW next \in AddPlaces, At(p, place, next)
    PROVE  /\ adding[p].pc = place /\ adding[p].item \in Items
           /\ adding' \in [Producers -> {Out} \cup [pc: AddPlaces, item: Items]]
           /\ adding'[p].pc = next
           /\ \A q \in Producers : q # p => adding'[q] = adding[q]
<1>1. /\ adding[p].pc = place
      /\ adding' = [adding EXCEPT ![p] = [adding[p] EXCEPT !.pc = next]]
  BY DEF At
<1>2. adding[p] \in [pc: AddPlaces, item: Items] /\ adding[p].item \in Items
  BY <1>1, ProducerCases DEF AddPlaces
<1>3. /\ [adding[p] EXCEPT !.pc = next] \in [pc: AddPlaces, item: Items]
      /\ [adding[p] EXCEPT !.pc = next].pc = next
  BY <1>2
<1>4. adding \in [Producers -> {Out} \cup [pc: AddPlaces, item: Items]]
  BY DEF QueueTypeOK, AddPlaces
<1>5. QED
  BY <1>1, <1>2, <1>3, <1>4

\* A consumer goes from one place to the next; the others stay.
LEMMA GoPlace ==
    ASSUME QueueTypeOK, NEW c \in Consumers, NEW place,
           NEW next \in {"out", "lock", "test", "waiting", "unlock"}, Go(c, place, next)
    PROVE  /\ removing[c] = place
           /\ removing' \in [Consumers -> {"out", "lock", "test", "waiting", "unlock"}]
           /\ removing'[c] = next
           /\ \A d \in Consumers : d # c => removing'[d] = removing[d]
BY DEF QueueTypeOK, Go

\* Both sets of threads are finite, and how they count when one thread comes or
\* goes.
LEMMA Counts ==
    ASSUME NEW S, IsFiniteSet(S), NEW T \in SUBSET S
    PROVE  /\ Cardinality(T) \in Nat
           /\ \A x \in S : /\ x \notin T => Cardinality(T \cup {x}) = Cardinality(T) + 1
                           /\ x \in T => Cardinality(T \ {x}) = Cardinality(T) - 1
<1>1. IsFiniteSet(T)
  BY FS_Subset
<1>2. QED
  BY <1>1, FS_CardinalityType, FS_AddElement, FS_RemoveElement

-----------------------------------------------------------------------------
(* Type, mutual exclusion and wake-ups are inductive together.             *)

QueueInv == QueueTypeOK /\ MutexHeld /\ NoLostWakeup

\* Nobody is inside an empty queue at first.
LEMMA InitQueueInv == QueueInit => QueueInv
<1> SUFFICES ASSUME QueueInit PROVE QueueInv
  OBVIOUS
<1>1. /\ m_queue = <<>> /\ m_mutex = Nobody
      /\ \A p \in Producers : adding[p] = Out /\ adding[p].pc = "out"
      /\ \A c \in Consumers : removing[c] = "out"
  BY DEF QueueInit, Out
<1>2. QueueTypeOK
  BY DEF QueueInit, QueueTypeOK
<1>3. MutexHeld
  BY <1>1, ThreadsAssumption DEF MutexHeld
<1>4. NoLostWakeup
  BY <1>1 DEF NoLostWakeup, Waiters
<1>5. QED
  BY <1>2, <1>3, <1>4 DEF QueueInv

\* Every statement of add and remove, and every wake-up, keeps the three.
LEMMA StepQueueInv == QueueInv /\ [QueueNext]_qvars => QueueInv'
<1> SUFFICES ASSUME QueueInv, [QueueNext]_qvars PROVE QueueInv'
  OBVIOUS
<1> USE ThreadsAssumption DEF QueueInv
<1>a. /\ m_queue \in Seq(Items) /\ m_mutex \in Producers \cup Consumers \cup {Nobody}
      /\ adding \in [Producers -> {Out} \cup [pc: AddPlaces, item: Items]]
      /\ removing \in [Consumers -> {"out", "lock", "test", "waiting", "unlock"}]
      /\ got \in [Consumers -> {<<>>} \cup {<<i>> : i \in Items}]
      /\ Len(m_queue) \in Nat
  BY DEF QueueTypeOK, AddPlaces
<1>b. ASSUME /\ m_queue' \in Seq(Items)
             /\ m_mutex' \in Producers \cup Consumers \cup {Nobody}
             /\ adding' \in [Producers -> {Out} \cup [pc: AddPlaces, item: Items]]
             /\ removing' \in [Consumers -> {"out", "lock", "test", "waiting", "unlock"}]
             /\ got' \in [Consumers -> {<<>>} \cup {<<i>> : i \in Items}]
      PROVE  QueueTypeOK'
  BY <1>b DEF QueueTypeOK, AddPlaces
<1>n. Cardinality(OnTheirWay) \in Nat /\ Cardinality(Signalling) \in Nat
  BY Counts DEF OnTheirWay, Signalling
<1>w. /\ NoLostWakeup <=> (Waiters # {} =>
             Len(m_queue) <= Cardinality(OnTheirWay) + Cardinality(Signalling))
      /\ NoLostWakeup' <=> (Waiters' # {} =>
             Len(m_queue') <= Cardinality(OnTheirWay') + Cardinality(Signalling'))
  BY DEF NoLostWakeup, OnTheirWay, Signalling
<1>1. ASSUME NEW p \in Producers, NEW item \in Items, CallAdd(p, item) PROVE QueueInv'
  <2> DEFINE r == [pc |-> "lock", item |-> item]
  <2>1. /\ adding[p].pc = "out" /\ adding' = [adding EXCEPT ![p] = r]
        /\ UNCHANGED <<m_queue, m_mutex, removing, got>>
    BY <1>1 DEF CallAdd, Out
  <2>2. r \in [pc: AddPlaces, item: Items] /\ r.pc = "lock"
    BY DEF AddPlaces
  <2> HIDE DEF r
  <2>3. /\ adding' \in [Producers -> {Out} \cup [pc: AddPlaces, item: Items]]
        /\ adding'[p].pc = "lock"
        /\ \A q \in Producers : q # p => adding'[q] = adding[q]
    BY <1>a, <2>1, <2>2
  <2>4. QueueTypeOK'
    BY <1>a, <1>b, <2>1, <2>3
  <2>5. MutexHeld'
    BY <2>1, <2>3 DEF MutexHeld
  <2>6. Waiters' = Waiters /\ OnTheirWay' = OnTheirWay /\ Signalling' = Signalling
    BY <2>1, <2>3 DEF Waiters, OnTheirWay, Signalling
  <2>7. QED
    BY <1>w, <2>1, <2>4, <2>5, <2>6
<1>2. ASSUME NEW p \in Producers, AddLock(p) PROVE QueueInv'
  <2>1. /\ At(p, "lock", "push") /\ m_mutex = Nobody /\ m_mutex' = p
        /\ UNCHANGED <<m_queue, removing, got>>
    BY <1>2 DEF AddLock, Lock
  <2>2. /\ adding[p].pc = "lock" /\ adding'[p].pc = "push"
        /\ adding' \in [Producers -> {Out} \cup [pc: AddPlaces, item: Items]]
        /\ \A q \in Producers : q # p => adding'[q] = adding[q]
    BY <2>1, AtPlace DEF AddPlaces
  <2>3. QueueTypeOK'
    BY <1>a, <1>b, <2>1, <2>2
  <2>4. MutexHeld'
    BY <2>1, <2>2 DEF MutexHeld
  <2>5. Waiters' = Waiters /\ OnTheirWay' = OnTheirWay /\ Signalling' = Signalling
    BY <2>1, <2>2 DEF Waiters, OnTheirWay, Signalling
  <2>6. QED
    BY <1>w, <2>1, <2>3, <2>4, <2>5
<1>3. ASSUME NEW p \in Producers, Push(p) PROVE QueueInv'
  <2>1. /\ At(p, "push", "signal") /\ m_queue' = Append(m_queue, adding[p].item)
        /\ UNCHANGED <<m_mutex, removing, got>>
    BY <1>3 DEF Push
  <2>2. /\ adding[p].pc = "push" /\ adding'[p].pc = "signal" /\ adding[p].item \in Items
        /\ adding' \in [Producers -> {Out} \cup [pc: AddPlaces, item: Items]]
        /\ \A q \in Producers : q # p => adding'[q] = adding[q]
    BY <2>1, AtPlace DEF AddPlaces
  <2>3. m_queue' \in Seq(Items) /\ Len(m_queue') = Len(m_queue) + 1
    BY <1>a, <2>1, <2>2
  <2>4. QueueTypeOK'
    BY <1>a, <1>b, <2>1, <2>2, <2>3
  <2>5. MutexHeld'
    BY <2>1, <2>2 DEF MutexHeld
  <2>6. Waiters' = Waiters /\ OnTheirWay' = OnTheirWay
    BY <2>1 DEF Waiters, OnTheirWay
  <2>7. Cardinality(Signalling') = Cardinality(Signalling) + 1
    <3>1. Signalling' = Signalling \cup {p} /\ p \notin Signalling
      BY <2>2 DEF Signalling
    <3>2. QED
      BY <3>1, Counts DEF Signalling
  <2>8. QED
    BY <1>a, <1>n, <1>w, <2>3, <2>4, <2>5, <2>6, <2>7
<1>4. ASSUME NEW p \in Producers, Signal(p) PROVE QueueInv'
  <2>1. At(p, "signal", "unlock") /\ UNCHANGED <<m_queue, m_mutex, got>>
    BY <1>4 DEF Signal
  <2>2. /\ adding[p].pc = "signal" /\ adding'[p].pc = "unlock"
        /\ adding' \in [Producers -> {Out} \cup [pc: AddPlaces, item: Items]]
        /\ \A q \in Producers : q # p => adding'[q] = adding[q]
    BY <2>1, AtPlace DEF AddPlaces
  <2>3. Cardinality(Signalling') = Cardinality(Signalling) - 1
    <3>1. Signalling' = Signalling \ {p} /\ p \in Signalling
      BY <2>2 DEF Signalling
    <3>2. QED
      BY <3>1, Counts DEF Signalling
  <2>4. CASE Waiters = {}
    <3>1. removing' = removing
      BY <1>4, <2>4 DEF Signal
    <3>2. QueueTypeOK'
      BY <1>a, <1>b, <2>1, <2>2, <3>1
    <3>3. MutexHeld'
      BY <2>1, <2>2, <3>1 DEF MutexHeld
    <3>4. Waiters' = {}
      BY <2>4, <3>1 DEF Waiters
    <3>5. QED
      BY <1>w, <3>2, <3>3, <3>4
  <2>5. CASE Waiters # {}
    <3>1. PICK c \in Waiters : removing' = [removing EXCEPT ![c] = "lock"]
      BY <1>4, <2>5 DEF Signal
    <3>2. /\ c \in Consumers /\ removing[c] = "waiting" /\ removing'[c] = "lock"
          /\ removing' \in [Consumers -> {"out", "lock", "test", "waiting", "unlock"}]
          /\ \A d \in Consumers : d # c => removing'[d] = removing[d]
      BY <1>a, <3>1 DEF Waiters
    <3>3. QueueTypeOK'
      BY <1>a, <1>b, <2>1, <2>2, <3>2
    <3>4. MutexHeld'
      BY <2>1, <2>2, <3>2 DEF MutexHeld
    <3>5. Cardinality(OnTheirWay') = Cardinality(OnTheirWay) + 1
      <4>1. OnTheirWay' = OnTheirWay \cup {c} /\ c \notin OnTheirWay
        BY <3>2 DEF OnTheirWay
      <4>2. QED
        BY <3>2, <4>1, Counts DEF OnTheirWay
    <3>6. NoLostWakeup'
      BY <1>a, <1>n, <1>w, <2>1, <2>3, <2>5, <3>5
    <3>7. QED
      BY <3>3, <3>4, <3>6
  <2>6. QED
    BY <2>4, <2>5
<1>5. ASSUME NEW p \in Producers, AddUnlock(p) PROVE QueueInv'
  <2>1. /\ adding[p].pc = "unlock" /\ adding' = [adding EXCEPT ![p] = Out]
        /\ m_mutex' = Nobody /\ UNCHANGED <<m_queue, removing, got>>
    BY <1>5 DEF AddUnlock, Unlock
  <2>2. /\ adding'[p].pc = "out"
        /\ adding' \in [Producers -> {Out} \cup [pc: AddPlaces, item: Items]]
        /\ \A q \in Producers : q # p => adding'[q] = adding[q]
    BY <1>a, <2>1 DEF Out
  <2>3. QueueTypeOK'
    BY <1>a, <1>b, <2>1, <2>2
  <2>4. MutexHeld'
    BY <2>1, <2>2 DEF MutexHeld
  <2>5. Waiters' = Waiters /\ OnTheirWay' = OnTheirWay /\ Signalling' = Signalling
    BY <2>1, <2>2 DEF Waiters, OnTheirWay, Signalling
  <2>6. QED
    BY <1>w, <2>1, <2>3, <2>4, <2>5
\* A consumer that comes to the lock of remove, from outside or from its wait.
<1>6. ASSUME NEW c \in Consumers, Go(c, "out", "lock") \/ Go(c, "waiting", "lock"),
             UNCHANGED <<m_queue, m_mutex, adding, got>>
      PROVE  QueueInv'
  <2>1. /\ removing[c] \in {"out", "waiting"} /\ removing'[c] = "lock"
        /\ removing' \in [Consumers -> {"out", "lock", "test", "waiting", "unlock"}]
        /\ \A d \in Consumers : d # c => removing'[d] = removing[d]
    BY <1>6, GoPlace
  <2>2. QueueTypeOK'
    BY <1>a, <1>b, <1>6, <2>1
  <2>3. MutexHeld'
    BY <1>6, <2>1 DEF MutexHeld
  <2>4. Cardinality(OnTheirWay') = Cardinality(OnTheirWay) + 1
    <3>1. OnTheirWay' = OnTheirWay \cup {c} /\ c \notin OnTheirWay
      BY <2>1 DEF OnTheirWay
    <3>2. QED
      BY <3>1, Counts DEF OnTheirWay
  <2>5. Waiters' \subseteq Waiters /\ Signalling' = Signalling
    BY <1>6, <2>1 DEF Waiters, Signalling
  <2>6. NoLostWakeup'
    BY <1>a, <1>n, <1>w, <1>6, <2>4, <2>5
  <2>7. QED
    BY <2>2, <2>3, <2>6
<1>7. ASSUME NEW c \in Consumers, RemoveLock(c) PROVE QueueInv'
  <2>1. /\ Go(c, "lock", "test") /\ m_mutex = Nobody /\ m_mutex' = c
        /\ UNCHANGED <<m_queue, adding, got>>
    BY <1>7 DEF RemoveLock, Lock
  <2>2. /\ removing[c] = "lock" /\ removing'[c] = "test"
        /\ removing' \in [Consumers -> {"out", "lock", "test", "waiting", "unlock"}]
        /\ \A d \in Consumers : d # c => removing'[d] = removing[d]
    BY <2>1, GoPlace
  <2>3. QueueTypeOK'
    BY <1>a, <1>b, <2>1, <2>2
  <2>4. MutexHeld'
    BY <2>1, <2>2 DEF MutexHeld
  <2>5. Waiters' = Waiters /\ OnTheirWay' = OnTheirWay /\ Signalling' = Signalling
    BY <2>1, <2>2 DEF Waiters, OnTheirWay, Signalling
  <2>6. QED
    BY <1>w, <2>1, <2>3, <2>4, <2>5
<1>8. ASSUME NEW c \in Consumers, Wait(c) PROVE QueueInv'
  <2>1. /\ Go(c, "test", "waiting") /\ m_queue = <<>> /\ m_mutex' = Nobody
        /\ UNCHANGED <<m_queue, adding, got>>
    BY <1>8 DEF Wait, Unlock
  <2>2. /\ removing[c] = "test" /\ removing'[c] = "waiting"
        /\ removing' \in [Consumers -> {"out", "lock", "test", "waiting", "unlock"}]
        /\ \A d \in Consumers : d # c => removing'[d] = removing[d]
    BY <2>1, GoPlace
  <2>3. QueueTypeOK'
    BY <1>a, <1>b, <2>1, <2>2
  <2>4. MutexHeld'
    BY <2>1, <2>2 DEF MutexHeld
  <2>5. Cardinality(OnTheirWay') \in Nat /\ Cardinality(Signalling') \in Nat
    BY Counts DEF OnTheirWay, Signalling
  <2>6. Len(m_queue') = 0
    BY <2>1
  <2>7. QED
    BY <1>w, <2>3, <2>4, <2>5, <2>6
<1>9. ASSUME NEW c \in Consumers, Pop(c) PROVE QueueInv'
  <2>1. /\ Go(c, "test", "unlock") /\ m_queue # <<>> /\ m_queue' = Tail(m_queue)
        /\ got' = [got EXCEPT ![c] = <<Head(m_queue)>>] /\ UNCHANGED <<m_mutex, adding>>
    BY <1>9 DEF Pop
  <2>2. /\ removing[c] = "test" /\ removing'[c] = "unlock"
        /\ removing' \in [Consumers -> {"out", "lock", "test", "waiting", "unlock"}]
        /\ \A d \in Consumers : d # c => removing'[d] = removing[d]
    BY <2>1, GoPlace
  <2>3. /\ m_queue' \in Seq(Items) /\ Head(m_queue) \in Items
        /\ Len(m_queue') = Len(m_queue) - 1
    BY <1>a, <2>1
  <2>4. got' \in [Consumers -> {<<>>} \cup {<<i>> : i \in Items}]
    BY <1>a, <2>1, <2>3
  <2>5. QueueTypeOK'
    BY <1>a, <1>b, <2>1, <2>2, <2>3, <2>4
  <2>6. MutexHeld'
    BY <2>1, <2>2 DEF MutexHeld
  <2>7. Cardinality(OnTheirWay') = Cardinality(OnTheirWay) - 1
    <3>1. OnTheirWay' = OnTheirWay \ {c} /\ c \in OnTheirWay
      BY <2>2 DEF OnTheirWay
    <3>2. QED
      BY <3>1, Counts DEF OnTheirWay
  <2>8. Waiters' = Waiters /\ Signalling' = Signalling
    BY <2>1, <2>2 DEF Waiters, Signalling
  <2>9. NoLostWakeup'
    BY <1>a, <1>n, <1>w, <2>3, <2>7, <2>8
  <2>10. QED
    BY <2>5, <2>6, <2>9
<1>10. ASSUME NEW c \in Consumers, RemoveUnlock(c) PROVE QueueInv'
  <2>1. /\ Go(c, "unlock", "out") /\ m_mutex' = Nobody /\ UNCHANGED <<m_queue, adding, got>>
    BY <1>10 DEF RemoveUnlock, Unlock
  <2>2. /\ removing[c] = "unlock" /\ removing'[c] = "out"
        /\ removing' \in [Consumers -> {"out", "lock", "test", "waiting", "unlock"}]
        /\ \A d \in Consumers : d # c => removing'[d] = removing[d]
    BY <2>1, GoPlace
  <2>3. QueueTypeOK'
    BY <1>a, <1>b, <2>1, <2>2
  <2>4. MutexHeld'
    BY <2>1, <2>2 DEF MutexHeld
  <2>5. Waiters' = Waiters /\ OnTheirWay' = OnTheirWay /\ Signalling' = Signalling
    BY <2>1, <2>2 DEF Waiters, OnTheirWay, Signalling
  <2>6. QED
    BY <1>w, <2>1, <2>3, <2>4, <2>5
<1>11. CASE UNCHANGED qvars
  <2>1. UNCHANGED <<m_queue, m_mutex, adding, removing, got>>
    BY <1>11 DEF qvars
  <2>2. QueueTypeOK' /\ MutexHeld'
    BY <1>a, <1>b, <2>1 DEF MutexHeld
  <2>3. NoLostWakeup'
    BY <2>1 DEF NoLostWakeup, Waiters
  <2>4. QED
    BY <2>2, <2>3
<1>12. QED
  BY <1>1, <1>2, <1>3, <1>4, <1>5, <1>6, <1>7, <1>8, <1>9, <1>10, <1>11
     DEF QueueNext, AddStep, RemoveStep, CallRemove, WakeForNoReason

-----------------------------------------------------------------------------
(* The theorems.                                                           *)

\* The inductive invariant holds at every moment, for any number of threads.
THEOREM QueueInvariant == QueueSpec => []QueueInv
BY InitQueueInv, StepQueueInv, PTL DEF QueueSpec

\* The list holds items only, and what remove returns is one of them.
THEOREM QueueTypeCorrect == QueueSpec => []QueueTypeOK
<1>1. QueueInv => QueueTypeOK
  BY DEF QueueInv
<1>2. QED
  BY <1>1, QueueInvariant, PTL

\* add and remove lock and unlock on every path: two threads are never between
\* lock and unlock together, waiters of pthread_cond_wait included.
THEOREM MutexIsExclusive == QueueSpec => []MutexExcludes
<1>1. QueueInv => MutexExcludes
  BY ThreadsAssumption DEF QueueInv, MutexHeld, MutexExcludes
<1>2. QED
  BY <1>1, QueueInvariant, PTL

\* pthread_cond_signal before every unlock of add is enough: no item is left
\* behind by a signal that came too early, however many threads add and remove.
THEOREM WakeupsAreNotLost == QueueSpec => []NoLostWakeup
<1>1. QueueInv => NoLostWakeup
  BY DEF QueueInv
<1>2. QED
  BY <1>1, QueueInvariant, PTL

\* wqueue is a first-in first-out queue with atomic operations: Push is its
\* add, Pop its remove, and every other statement is invisible.  (That items do
\* not wait while a consumer does is left to TLC.)
THEOREM QueueImplemented == QueueSpec => Queue!Spec
<1>1. QueueInit => Queue!Init
  BY DEF QueueInit, Queue!Init, Asking
<1>2. QueueTypeOK /\ [QueueNext]_qvars => [Queue!Next]_(Queue!avars)
  <2> SUFFICES ASSUME QueueTypeOK, [QueueNext]_qvars
               PROVE  Queue!Next \/ UNCHANGED <<m_queue, Asking, got>>
    BY DEF Queue!avars
  <2>1. ASSUME NEW p \in Producers, Push(p) PROVE Queue!Next
    <3>1. adding[p].item \in Items
      BY <2>1, AtPlace DEF Push, AddPlaces
    <3>2. Queue!Add(adding[p].item)
      BY <2>1 DEF Push, Queue!Add, Asking
    <3>3. QED
      BY <3>1, <3>2 DEF Queue!Next
  <2>2. ASSUME NEW c \in Consumers, CallRemove(c) PROVE Queue!Next
    <3>1. /\ removing[c] = "out" /\ removing'[c] = "lock"
          /\ \A d \in Consumers : d # c => removing'[d] = removing[d]
      BY <2>2, GoPlace DEF CallRemove
    <3>2. c \notin Asking /\ Asking' = Asking \cup {c}
      BY <3>1 DEF Asking
    <3>3. QED
      BY <2>2, <3>2 DEF CallRemove, Queue!Next, Queue!Ask
  <2>3. ASSUME NEW c \in Consumers, Pop(c) PROVE Queue!Next
    <3>1. /\ removing[c] = "test" /\ removing'[c] = "unlock"
          /\ \A d \in Consumers : d # c => removing'[d] = removing[d]
      BY <2>3, GoPlace DEF Pop
    <3>2. c \in Asking /\ Asking' = Asking \ {c}
      BY <3>1 DEF Asking
    <3>3. QED
      BY <2>3, <3>2 DEF Pop, Queue!Next, Queue!Take
  <2>4. ASSUME NEW c \in Consumers, NEW place, NEW next,
               \/ place \in {"lock", "test", "waiting"} /\ next \in {"lock", "test", "waiting"}
               \/ place = "unlock" /\ next = "out",
               Go(c, place, next)
        PROVE  Asking' = Asking
    <3>1. /\ removing[c] = place /\ removing'[c] = next
          /\ \A d \in Consumers : d # c => removing'[d] = removing[d]
      BY <2>4, GoPlace
    <3>2. QED
      BY <2>4, <3>1 DEF Asking
  <2>5. ASSUME NEW c \in Consumers,
               RemoveLock(c) \/ Wait(c) \/ RemoveUnlock(c) \/ WakeForNoReason(c)
        PROVE  UNCHANGED <<m_queue, Asking, got>>
    BY <2>4, <2>5 DEF RemoveLock, Wait, RemoveUnlock, WakeForNoReason
  <2>6. ASSUME NEW p \in Producers, Signal(p) PROVE UNCHANGED <<m_queue, Asking, got>>
    <3>1. removing' = removing \/ \E c \in Waiters : removing' = [removing EXCEPT ![c] = "lock"]
      BY <2>6 DEF Signal
    <3>2. CASE removing' = removing
      BY <2>6, <3>2 DEF Signal, Asking
    <3>3. ASSUME NEW c \in Waiters, removing' = [removing EXCEPT ![c] = "lock"]
          PROVE  UNCHANGED <<m_queue, Asking, got>>
      <4>1. c \in Consumers /\ Go(c, "waiting", "lock")
        BY <3>3 DEF Waiters, Go
      <4>2. QED
        BY <2>4, <2>6, <4>1 DEF Signal
    <3>4. QED
      BY <3>1, <3>2, <3>3
  <2>7. ASSUME NEW p \in Producers, AddLock(p) \/ AddUnlock(p) \/ \E item \in Items : CallAdd(p, item)
        PROVE  UNCHANGED <<m_queue, Asking, got>>
    BY <2>7 DEF AddLock, AddUnlock, CallAdd, Asking
  <2>8. CASE UNCHANGED qvars
    BY <2>8 DEF qvars, Asking
  <2>9. QED
    BY <2>1, <2>2, <2>3, <2>5, <2>6, <2>7, <2>8 DEF QueueNext, AddStep, RemoveStep
<1>3. QED
  BY <1>1, <1>2, QueueTypeCorrect, PTL DEF QueueSpec, Queue!Spec
=============================================================================
