-------------------------- MODULE TransportLifecycle --------------------------
(***************************************************************************)
(* What the connection manager promises the packet handling thread about   *)
(* the address of a transport: packets can be routed to it only after it   *)
(* has been built and before it begins to be destroyed, it is destroyed    *)
(* only once no packet can be routed to it, and one transport at a time is *)
(* on its way in or out.                                                   *)
(***************************************************************************)
CONSTANT Transports

VARIABLE life   \* transport -> stage of the life at its address

Stages == {"free", "built", "routed", "retired"}
TypeOK == life \in [Transports -> Stages]

Init == life = [t \in Transports |-> "free"]

Advance(t, from, to) ==
    /\ life[t] = from
    /\ \A other \in Transports \ {t} : life[other] \in {"free", "routed"}
    /\ life' = [life EXCEPT ![t] = to]

Build(t) == Advance(t, "free", "built")
Publish(t) == Advance(t, "built", "routed")
Withdraw(t) == Advance(t, "routed", "retired")
Destroy(t) == Advance(t, "retired", "free")

Next == \E t \in Transports : Build(t) \/ Publish(t) \/ Withdraw(t) \/ Destroy(t)

Spec == Init /\ [][Next]_life

\* What has been begun is finished; the controller need not begin anything.
FairSpec == Spec /\ \A t \in Transports : WF_life(Publish(t)) /\ WF_life(Destroy(t))
===============================================================================
