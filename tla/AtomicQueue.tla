----------------------------- MODULE AtomicQueue ------------------------------
(***************************************************************************)
(* What PacketPath relies on for g_send_queue and g_recv_queue: a first-in *)
(* first-out queue whose add and remove are single steps, and whose remove *)
(* waits for an item and gets one if there is one.                         *)
(***************************************************************************)
EXTENDS Sequences

CONSTANTS Consumers, Items

VARIABLES
    queue,
    asking,     \* consumers inside remove that have no item yet
    got         \* consumer -> the item it took last, <<>> at first

avars == <<queue, asking, got>>

Init == queue = <<>> /\ asking = {} /\ got = [c \in Consumers |-> <<>>]

Add(item) == queue' = Append(queue, item) /\ UNCHANGED <<asking, got>>

Ask(c) ==
    /\ c \notin asking
    /\ asking' = asking \cup {c}
    /\ UNCHANGED <<queue, got>>

Take(c) ==
    /\ c \in asking
    /\ queue # <<>>
    /\ queue' = Tail(queue)
    /\ asking' = asking \ {c}
    /\ got' = [got EXCEPT ![c] = <<Head(queue)>>]

Next ==
    \/ \E item \in Items : Add(item)
    \/ \E c \in Consumers : Ask(c) \/ Take(c)

Spec == Init /\ [][Next]_avars

\* Items do not wait while a consumer does.
FairSpec == Spec /\ WF_avars(\E c \in Consumers : Take(c))
===============================================================================
