-------------------------------- MODULE WQueue --------------------------------
(***************************************************************************)
(* wqueue: a list, a mutex and a condition variable.  Each statement of    *)
(* add and remove is a step.  pthread_cond_signal wakes one waiter if      *)
(* there is one, and a waiter may also wake for no reason.  As in          *)
(* LinkManager, Name_Fault is Name with a bug.                             *)
(***************************************************************************)
EXTENDS Naturals, Sequences, FiniteSets

CONSTANTS Producers, Consumers, Items, Nobody,
    MaxLen      \* producers begin to add while the list is shorter, for TLC

ASSUME ThreadsAssumption ==
    /\ Producers \cap Consumers = {}
    /\ IsFiniteSet(Producers) /\ IsFiniteSet(Consumers)
    /\ Nobody \notin Producers \cup Consumers
    /\ MaxLen \in Nat

VARIABLES
    m_queue,
    m_mutex,    \* the thread that holds it
    adding,     \* producer -> its place in add, and the item
    removing,   \* consumer -> its place in remove
    got         \* consumer -> the item it took last

qvars == <<m_queue, m_mutex, adding, removing, got>>

Out == [pc |-> "out"]

QueueTypeOK ==
    /\ m_queue \in Seq(Items)
    /\ m_mutex \in Producers \cup Consumers \cup {Nobody}
    /\ adding \in [Producers -> {Out} \cup
           [pc: {"lock", "push", "signal", "unlock"}, item: Items]]
    /\ removing \in [Consumers -> {"out", "lock", "test", "waiting", "unlock"}]
    /\ got \in [Consumers -> {<<>>} \cup {<<i>> : i \in Items}]

QueueInit ==
    /\ m_queue = <<>>
    /\ m_mutex = Nobody
    /\ adding = [p \in Producers |-> Out]
    /\ removing = [c \in Consumers |-> "out"]
    /\ got = [c \in Consumers |-> <<>>]

Lock(thread) == m_mutex = Nobody /\ m_mutex' = thread
Unlock == m_mutex' = Nobody

-----------------------------------------------------------------------------
At(p, place, next) ==
    /\ adding[p].pc = place
    /\ adding' = [adding EXCEPT ![p].pc = next]

CallAdd(p, item) ==
    /\ adding[p] = Out
    /\ Len(m_queue) < MaxLen
    /\ adding' = [adding EXCEPT ![p] = [pc |-> "lock", item |-> item]]
    /\ UNCHANGED <<m_queue, m_mutex, removing, got>>

AddLock(p) ==
    /\ At(p, "lock", "push")
    /\ Lock(p)
    /\ UNCHANGED <<m_queue, removing, got>>

Push(p) ==
    /\ At(p, "push", "signal")
    /\ m_queue' = Append(m_queue, adding[p].item)
    /\ UNCHANGED <<m_mutex, removing, got>>

Waiters == {c \in Consumers : removing[c] = "waiting"}

Signal_WhenFirst(p) ==
    /\ At(p, "signal", "unlock")
    /\ IF Waiters = {} \/ Len(m_queue) > 1
       THEN UNCHANGED removing
       ELSE \E c \in Waiters : removing' = [removing EXCEPT ![c] = "lock"]
    /\ UNCHANGED <<m_queue, m_mutex, got>>

Signal(p) ==
    /\ At(p, "signal", "unlock")
    /\ IF Waiters = {}
       THEN UNCHANGED removing
       ELSE \E c \in Waiters : removing' = [removing EXCEPT ![c] = "lock"]
    /\ UNCHANGED <<m_queue, m_mutex, got>>

AddUnlock(p) ==
    /\ adding[p].pc = "unlock"
    /\ adding' = [adding EXCEPT ![p] = Out]
    /\ Unlock
    /\ UNCHANGED <<m_queue, removing, got>>

-----------------------------------------------------------------------------
Go(c, place, next) ==
    /\ removing[c] = place
    /\ removing' = [removing EXCEPT ![c] = next]

CallRemove(c) == Go(c, "out", "lock") /\ UNCHANGED <<m_queue, m_mutex, adding, got>>

\* The lock of remove, and the one a thread takes again as it wakes.
RemoveLock(c) ==
    /\ Go(c, "lock", "test")
    /\ Lock(c)
    /\ UNCHANGED <<m_queue, adding, got>>

\* Waiting and giving up the mutex are one step.
Wait(c) ==
    /\ m_queue = <<>>
    /\ Go(c, "test", "waiting")
    /\ Unlock
    /\ UNCHANGED <<m_queue, adding, got>>

WakeForNoReason(c) == Go(c, "waiting", "lock") /\ UNCHANGED <<m_queue, m_mutex, adding, got>>

Pop_Unchecked(c) ==
    /\ Go(c, "test", "unlock")
    /\ got' = [got EXCEPT ![c] = IF m_queue = <<>> THEN <<Nobody>> ELSE <<Head(m_queue)>>]
    /\ m_queue' = IF m_queue = <<>> THEN <<>> ELSE Tail(m_queue)
    /\ UNCHANGED <<m_mutex, adding>>

Pop_Last(c) ==
    /\ m_queue # <<>>
    /\ Go(c, "test", "unlock")
    /\ got' = [got EXCEPT ![c] = <<m_queue[Len(m_queue)]>>]
    /\ m_queue' = SubSeq(m_queue, 1, Len(m_queue) - 1)
    /\ UNCHANGED <<m_mutex, adding>>

Pop(c) ==
    /\ m_queue # <<>>
    /\ Go(c, "test", "unlock")
    /\ got' = [got EXCEPT ![c] = <<Head(m_queue)>>]
    /\ m_queue' = Tail(m_queue)
    /\ UNCHANGED <<m_mutex, adding>>

RemoveUnlock(c) ==
    /\ Go(c, "unlock", "out")
    /\ Unlock
    /\ UNCHANGED <<m_queue, adding, got>>

AddStep(p) == AddLock(p) \/ Push(p) \/ Signal(p) \/ AddUnlock(p)
RemoveStep(c) == RemoveLock(c) \/ Wait(c) \/ Pop(c) \/ RemoveUnlock(c)

QueueNext ==
    \/ \E p \in Producers : AddStep(p) \/ \E item \in Items : CallAdd(p, item)
    \/ \E c \in Consumers : RemoveStep(c) \/ CallRemove(c) \/ WakeForNoReason(c)

QueueSpec == QueueInit /\ [][QueueNext]_qvars

\* A thread inside add or remove goes on, and gets the mutex if it is free
\* again and again.  Nobody need call, nor wake for no reason.
QueueFairSpec ==
    /\ QueueSpec
    /\ \A p \in Producers : SF_qvars(AddStep(p))
    /\ \A c \in Consumers : SF_qvars(RemoveStep(c))

-----------------------------------------------------------------------------
\* While somebody waits there are no more items than threads on their way to
\* take one, or to wake one: no item is left behind by a signal that came
\* before the wait.
NoLostWakeup ==
    Waiters # {} =>
        Len(m_queue) <=
            Cardinality({c \in Consumers : removing[c] \in {"lock", "test"}})
            + Cardinality({p \in Producers : adding[p].pc = "signal"})

Asking == {c \in Consumers : removing[c] \in {"lock", "test", "waiting"}}

Queue == INSTANCE AtomicQueue WITH queue <- m_queue, asking <- Asking

\* The class implements the queue that PacketPath takes for granted: items come
\* out in order and once, and do not wait while a consumer does.
ImplementsQueue == Queue!FairSpec
===============================================================================
