-------------------------- MODULE LinkManagerProofs --------------------------
(***************************************************************************)
(* Proofs about LinkManager, for any set of identifiers, prefixes (shared  *)
(* or not), transports and candidates.                                     *)
(***************************************************************************)
EXTENDS LinkManager, TLAPS

-----------------------------------------------------------------------------
(* The inductive invariant.                                                *)

\* The two tables of L are inverse to each other at every moment.
TablesInverse ==
    /\ \A u \in Uids : uid_map[u] # NoPeer => Uid(uid_map[u].transport) = u
    /\ \A t \in Transports : Uid(t) # NoUid =>
           uid_map[Uid(t)] # NoPeer /\ uid_map[Uid(t)].transport = t

\* A transport lives as long as the tables name it, and until ~PeerState has
\* run when DestroyTransport has already erased it from them.
AliveExact ==
    /\ \A t \in Transports :
           t \in alive <=> Uid(t) # NoUid \/ (l.pc = "destroying" /\ l.transport = t)
    /\ l.pc = "destroying" => Uid(l.transport) = NoUid

\* The operation in progress is about a link that is in the tables.
LinkInProgress ==
    l.pc \in {"inserting", "inserted", "deleting", "deleted", "stats"} =>
        uid_map[l.uid] # NoPeer /\ uid_map[l.uid].transport = l.transport

\* A route leads to the transport of a link with that prefix, and to none that
\* has yet to be published or is about to leave the tables.
RoutesSound ==
    /\ \A s \in Shorts : short_uid_map[s] # NoTransport =>
           Uid(short_uid_map[s]) # NoUid /\ Short[Uid(short_uid_map[s])] = s
    /\ l.pc \in {"inserting", "deleted"} => \A s \in Shorts : short_uid_map[s] # l.transport

\* With distinct prefixes only the link being created or destroyed may lack
\* its route.
RoutesPresent ==
    Injective => \A u \in Uids :
        uid_map[u] # NoPeer /\ ~(l.pc \in {"inserting", "deleted"} /\ l.uid = u)
            => short_uid_map[Short[u]] = uid_map[u].transport

\* Nothing is posted for an address that holds no transport.
DeadAreSilent == \A t \in Transports : t \notin alive => pending[t] = <<>>

IInv ==
    /\ TypeOK
    /\ TablesInverse
    /\ AliveExact
    /\ LinkInProgress
    /\ RoutesSound
    /\ RoutesPresent
    /\ DeadAreSilent
    /\ DtlsIdentityAlive

\* L is idle or in an operation whose record has all its fields.
LEMMA OperationCases ==
    ASSUME TypeOK
    PROVE  \/ l = Idle /\ l.pc = "idle"
           \/ l \in Busy /\ l.pc # "idle" /\ l.uid \in Uids /\ l.transport \in Transports
BY DEF TypeOK, Busy, Idle

\* The entries of the tables name transports and identifiers.
LEMMA TableEntries ==
    ASSUME TypeOK
    PROVE  /\ \A u \in Uids : uid_map[u] # NoPeer => uid_map[u].transport \in Transports
           /\ \A t \in Transports : Uid(t) # NoUid => Uid(t) \in Uids
           /\ \A u \in Uids : uid_map[u] # NoPeer => uid_map[u] \in PeerState
BY DEF TypeOK, PeerState, Uid

\* Replacing the library's record of one transport keeps its type.
LEMMA LibUpdate ==
    ASSUME TypeOK, NEW t \in Transports, NEW r \in LibState,
           lib' = [lib EXCEPT ![t] = r]
    PROVE  lib' \in [Transports -> LibState]
BY DEF TypeOK

\* The tables that the constructor leaves empty satisfy the invariant.
LEMMA InitIInv == Init => IInv
<1> SUFFICES ASSUME Init PROVE IInv
  OBVIOUS
<1>1. /\ tincan_id = NoUid /\ identity = NoUid /\ trim_enabled = FALSE
      /\ uid_map = [u \in Uids |-> NoPeer]
      /\ transport_map = [t \in Transports |-> NoUid]
      /\ short_uid_map = [s \in Shorts |-> NoTransport]
      /\ alive = {} /\ lib = [t \in Transports |-> NewLib]
      /\ pending = [t \in Transports |-> <<>>] /\ l = Idle /\ l.pc = "idle"
      /\ resp = [t \in Transports |-> NoResponse]
      /\ stat = [t \in Transports |-> "none"]
  BY DEF Init, Idle
<1>2. NewLib \in LibState
  BY DEF NewLib, LibState
<1>3. TypeOK
  <2>1. /\ tincan_id \in Uids \cup {NoUid} /\ identity \in {NoUid, tincan_id}
        /\ trim_enabled \in BOOLEAN /\ alive \subseteq Transports
        /\ l \in Busy \cup {Idle}
    BY <1>1
  <2>2. /\ uid_map \in [Uids -> PeerState \cup {NoPeer}]
        /\ transport_map \in [Transports -> Uids \cup {NoUid}]
        /\ short_uid_map \in [Shorts -> Transports \cup {NoTransport}]
    BY <1>1
  <2>3. lib \in [Transports -> LibState]
    BY <1>1, <1>2
  <2>4. pending \in [Transports -> Seq(Signals)]
    BY <1>1
  <2>5. /\ resp \in [Transports -> Responses \cup {NoResponse}]
        /\ stat \in [Transports -> Statuses]
    BY <1>1 DEF Statuses
  <2>6. QED
    BY <2>1, <2>2, <2>3, <2>4, <2>5 DEF TypeOK
<1>4. /\ TablesInverse /\ AliveExact /\ LinkInProgress /\ RoutesSound
      /\ RoutesPresent /\ DeadAreSilent /\ DtlsIdentityAlive
  BY <1>1, ShortAssumption, TransportsAssumption
     DEF TablesInverse, AliveExact, LinkInProgress, RoutesSound, RoutesPresent,
         DeadAreSilent, DtlsIdentityAlive, Uid
<1>5. QED
  BY <1>3, <1>4 DEF IInv

\* No handler, request, Invoke or step of libjingle breaks the invariant: it is
\* inductive, action by action.
THEOREM StepIInv == IInv /\ [Next]_vars => IInv'
<1> SUFFICES ASSUME IInv, [Next]_vars PROVE IInv'
  OBVIOUS
<1> USE UidsAssumption, ShortAssumption, TransportsAssumption, NoPeerAssumption DEF IInv
<1>c. \/ l = Idle /\ l.pc = "idle"
      \/ l \in Busy /\ l.pc # "idle" /\ l.uid \in Uids /\ l.transport \in Transports
  BY OperationCases
<1>e. /\ \A u \in Uids : uid_map[u] # NoPeer => uid_map[u].transport \in Transports
      /\ \A t \in Transports : Uid(t) # NoUid => Uid(t) \in Uids
  BY TableEntries
<1>f. \A t \in Transports : lib[t] \in LibState
  BY DEF TypeOK
<1>1. ASSUME NEW u \in Uids, NEW ok \in BOOLEAN, Setup(u, ok) PROVE IInv'
  <2>1. TypeOK'
    BY <1>1 DEF Setup, TypeOK, tables, sent, NoUid
  <2>2. DtlsIdentityAlive'
    BY <1>1 DEF Setup, TypeOK, tables, NoUid, DtlsIdentityAlive
  <2>3. QED
    BY <1>1, <2>1, <2>2 DEF Setup, tables, TablesInverse, AliveExact, LinkInProgress,
        RoutesSound, RoutesPresent, DeadAreSilent, Uid
<1>2. ASSUME NEW trim \in TrimInputs, SetTrim(trim) PROVE IInv'
  BY <1>2, TrimAssumption DEF SetTrim, tables, sent, TypeOK, TablesInverse, AliveExact, LinkInProgress,
        RoutesSound, RoutesPresent, DeadAreSilent, DtlsIdentityAlive, Uid
<1>3. ASSUME NEW u \in Uids, NEW t \in Transports, NEW overlay \in Overlays,
             NEW sec \in BOOLEAN, NEW cas \in Cas,
             CreateTransport(u, t, overlay, sec, cas)
      PROVE  IInv'
  <2>0. NewPeer(u, t, overlay, sec) \in PeerState
    BY DEF NewPeer, PeerState, Security, Roles, IceRole, TypeOK
  <2>1. TypeOK'
    BY <1>3, <2>0 DEF CreateTransport, TypeOK, node, sent, Busy, Signals
  <2> DEFINE p == NewPeer(u, t, overlay, sec)
  <2>a. /\ p # NoPeer /\ p.transport = t
        /\ p.security = "dtls" => p.identity = identity /\ identity # NoUid
    BY <2>0 DEF NewPeer
  <2> HIDE DEF p
  <2>b. /\ l.pc = "idle" /\ uid_map[u] = NoPeer /\ t \notin alive
        /\ uid_map' = [uid_map EXCEPT ![u] = p]
        /\ transport_map' = [transport_map EXCEPT ![t] = u]
        /\ l'.pc = "inserting" /\ l'.uid = u /\ l'.transport = t
        /\ short_uid_map' = short_uid_map /\ alive' = alive \cup {t}
        /\ pending' = [pending EXCEPT ![t] = <<"signaling">>]
        /\ identity' = identity
    BY <1>3 DEF CreateTransport, Refused, p, node
  <2>c. Uid(t) = NoUid /\ \A s \in Shorts : short_uid_map[s] # t
    BY <2>b DEF AliveExact, RoutesSound, TypeOK
  <2>2. TablesInverse'
    BY <2>a, <2>b, <2>c DEF TablesInverse, TypeOK, Uid, NoUid
  <2>3. AliveExact'
    BY <2>b, <2>c DEF AliveExact, TypeOK, Uid, NoUid
  <2>4. LinkInProgress'
    BY <2>a, <2>b DEF LinkInProgress, TypeOK
  <2>5. RoutesSound'
    BY <2>b, <2>c DEF RoutesSound, TypeOK, Uid
  <2>6. RoutesPresent'
    BY <2>b DEF RoutesPresent, TypeOK
  <2>7. DeadAreSilent'
    BY <2>b DEF DeadAreSilent, TypeOK
  <2>8. DtlsIdentityAlive'
    BY <2>a, <2>b DEF DtlsIdentityAlive, TypeOK
  <2>9. QED
    BY <2>1, <2>2, <2>3, <2>4, <2>5, <2>6, <2>7, <2>8
<1>4. ASSUME NEW u \in Uids, NEW cas, uid_map' = Connected(u, cas),
             UNCHANGED <<node, transport_map, short_uid_map, alive, lib, pending, sent>>,
             l' = l \/ (l.pc = "inserted" /\ l' = Idle)
      PROVE  IInv'
  <2> DEFINE p == [uid_map[u] EXCEPT !.candidates = ParseCandidates(cas)]
  <2>1. CASE uid_map[u] # NoPeer /\ uid_map[u].candidates = {}
    <3>1. uid_map[u] \in PeerState
      BY <2>1 DEF TypeOK
    <3>2. /\ p \in PeerState /\ p # NoPeer /\ p.transport = uid_map[u].transport
          /\ p.security = uid_map[u].security /\ p.identity = uid_map[u].identity
      BY <3>1 DEF PeerState, ParseCandidates
    <3>3. uid_map' = [uid_map EXCEPT ![u] = p]
      BY <1>4, <2>1 DEF Connected
    <3> HIDE DEF p
    <3>4. \A v \in Uids :
             /\ uid_map'[v] = NoPeer <=> uid_map[v] = NoPeer
             /\ uid_map'[v].transport = uid_map[v].transport
             /\ uid_map'[v].security = uid_map[v].security
             /\ uid_map'[v].identity = uid_map[v].identity
      BY <2>1, <3>2, <3>3 DEF TypeOK
    <3>5. TypeOK'
      BY <1>4, <3>2, <3>3 DEF TypeOK, node, sent
    <3>6. (TablesInverse /\ DtlsIdentityAlive)'
      BY <1>4, <1>e, <3>4 DEF TablesInverse, DtlsIdentityAlive, Uid, node
    <3>9. (LinkInProgress /\ RoutesPresent)'
      <4>1. l' = l \/ (l'.pc = "idle" /\ l.pc = "inserted")
        BY <1>4 DEF Idle
      <4>2. short_uid_map' = short_uid_map
        BY <1>4
      <4>3. LinkInProgress'
        BY <1>c, <3>4, <4>1 DEF LinkInProgress
      <4>4. RoutesPresent'
        BY <3>4, <4>1, <4>2 DEF RoutesPresent
      <4>5. QED
        BY <4>3, <4>4
    <3>7. (AliveExact /\ RoutesSound /\ DeadAreSilent)'
      BY <1>4, <1>c DEF AliveExact, RoutesSound, DeadAreSilent, Uid, Idle
    <3>8. QED
      BY <3>5, <3>6, <3>7, <3>9
  <2>2. CASE uid_map' = uid_map
    BY <1>4, <1>c, <2>2 DEF TypeOK, TablesInverse, AliveExact, LinkInProgress,
         RoutesSound, RoutesPresent, DeadAreSilent, DtlsIdentityAlive, Uid, Idle, node, sent
  <2>3. QED
    BY <1>4, <2>1, <2>2 DEF Connected
<1>5. CASE FinishCreate
  BY <1>4, <1>5, <1>c DEF FinishCreate
<1>6. ASSUME NEW u \in Uids, NEW cas \in Cas, RetryLink(u, cas) PROVE IInv'
  BY <1>4, <1>6 DEF RetryLink
<1>7. ASSUME NEW u \in Uids, DestroyTransport(u) PROVE IInv'
  <2>1. /\ l.pc = "idle" /\ uid_map[u] # NoPeer
        /\ l'.pc = "deleting" /\ l'.uid = u /\ l'.transport = uid_map[u].transport
        /\ UNCHANGED <<node, tables, alive, lib, pending, sent>>
    BY <1>7 DEF DestroyTransport
  <2>2. l' \in Busy
    BY <1>7 DEF DestroyTransport, Busy, TypeOK, PeerState
  <2>3. TypeOK'
    BY <2>1, <2>2 DEF TypeOK, node, tables, sent
  <2>4. QED
    BY <2>1, <2>3 DEF TablesInverse, AliveExact, LinkInProgress, RoutesSound,
         RoutesPresent, DeadAreSilent, DtlsIdentityAlive, Uid, node, tables
<1>8. CASE EraseLink
  <2>1. /\ l.pc = "deleted" /\ l.uid \in Uids /\ l.transport \in Transports
        /\ l'.pc = "destroying" /\ l'.uid = l.uid /\ l'.transport = l.transport
        /\ l' \in Busy
        /\ transport_map' = [transport_map EXCEPT ![l.transport] = NoUid]
        /\ uid_map' = [uid_map EXCEPT ![l.uid] = NoPeer]
        /\ UNCHANGED <<node, short_uid_map, alive, lib, pending, sent>>
    BY <1>8, <1>c DEF EraseLink, Busy
  <2>2. TypeOK'
    BY <2>1 DEF TypeOK, node, sent
  <2>3. uid_map[l.uid] # NoPeer /\ uid_map[l.uid].transport = l.transport
    BY <2>1 DEF LinkInProgress
  <2>4. TablesInverse'
    <3>1. Uid(l.transport) = l.uid
      BY <2>1, <2>3 DEF TablesInverse
    <3>2. ASSUME NEW u \in Uids, uid_map'[u] # NoPeer
          PROVE  transport_map'[uid_map'[u].transport] = u
      <4>1. u # l.uid /\ uid_map'[u] = uid_map[u]
        BY <2>1, <3>2 DEF TypeOK
      <4>2. Uid(uid_map[u].transport) = u /\ uid_map[u].transport \in Transports
        BY <1>e, <3>2, <4>1 DEF TablesInverse
      <4>3. QED
        BY <2>1, <3>1, <4>1, <4>2 DEF Uid, TypeOK
    <3>3. ASSUME NEW t \in Transports, transport_map'[t] # NoUid
          PROVE  /\ uid_map'[transport_map'[t]] # NoPeer
                 /\ uid_map'[transport_map'[t]].transport = t
      <4>1. t # l.transport /\ transport_map'[t] = Uid(t)
        BY <2>1, <3>3 DEF TypeOK, Uid
      <4>2. Uid(t) \in Uids /\ uid_map[Uid(t)] # NoPeer /\ uid_map[Uid(t)].transport = t
        BY <1>e, <3>3, <4>1 DEF TablesInverse
      <4>3. QED
        BY <2>1, <2>3, <4>1, <4>2 DEF TypeOK
    <3>4. QED
      BY <3>2, <3>3 DEF TablesInverse, Uid
  <2>a. /\ \A t \in Transports : Uid(t)' = IF t = l.transport THEN NoUid ELSE Uid(t)
        /\ \A u \in Uids : uid_map'[u] = IF u = l.uid THEN NoPeer ELSE uid_map[u]
    BY <2>1 DEF TypeOK, Uid
  <2>5. /\ (AliveExact /\ LinkInProgress /\ DeadAreSilent)'
        /\ DtlsIdentityAlive'
    <3>1. l.transport \in alive
      BY <2>1, <2>3, UidsAssumption DEF AliveExact, TablesInverse, NoUid
    <3>2. AliveExact'
      BY <2>1, <2>a, <3>1 DEF AliveExact
    <3>3. (LinkInProgress /\ DeadAreSilent)'
      BY <2>1 DEF LinkInProgress, DeadAreSilent
    <3>4. DtlsIdentityAlive'
      BY <2>1, <2>a DEF DtlsIdentityAlive, node
    <3>5. QED
      BY <3>2, <3>3, <3>4
  <2>6. RoutesSound'
    <3>1. l'.pc \notin {"inserting", "deleted"}
      BY <2>1
    <3>2. ASSUME NEW s \in Shorts, short_uid_map'[s] # NoTransport
          PROVE  /\ transport_map'[short_uid_map'[s]] # NoUid
                 /\ Short[transport_map'[short_uid_map'[s]]] = s
      <4>1. short_uid_map'[s] = short_uid_map[s]
        BY <2>1
      <4>2. short_uid_map[s] \in Transports /\ short_uid_map[s] # l.transport
        BY <2>1, <3>2, <4>1 DEF TypeOK, RoutesSound
      <4>3. transport_map'[short_uid_map[s]] = Uid(short_uid_map[s])
        BY <2>1, <4>2 DEF TypeOK, Uid
      <4>4. Uid(short_uid_map[s]) # NoUid /\ Short[Uid(short_uid_map[s])] = s
        BY <3>2, <4>1 DEF RoutesSound
      <4>5. QED
        BY <4>1, <4>3, <4>4
    <3>3. QED
      BY <3>1, <3>2 DEF RoutesSound, Uid
  <2>7. RoutesPresent'
    <3>1. ASSUME Injective, NEW u \in Uids, uid_map'[u] # NoPeer
          PROVE  short_uid_map'[Short[u]] = uid_map'[u].transport
      <4>1. u # l.uid /\ uid_map'[u] = uid_map[u]
        BY <2>1, <3>1 DEF TypeOK
      <4>2. short_uid_map[Short[u]] = uid_map[u].transport
        BY <3>1, <4>1 DEF RoutesPresent
      <4>3. QED
        BY <2>1, <4>1, <4>2
    <3>2. QED
      BY <3>1 DEF RoutesPresent, Injective
  <2>8. QED
    BY <2>2, <2>4, <2>5, <2>6, <2>7
<1>9. CASE DestroyPeerState
  <2>1. /\ l.pc = "destroying" /\ l.uid \in Uids /\ l.transport \in Transports
        /\ l' = Idle /\ l'.pc = "idle"
        /\ alive' = alive \ {l.transport}
        /\ pending' = [pending EXCEPT ![l.transport] = <<>>]
        /\ UNCHANGED <<node, tables>>
    BY <1>9, <1>c DEF DestroyPeerState, Idle
  <2>2. NewLib \in LibState
    BY DEF NewLib, LibState
  <2>3. TypeOK'
    BY <1>9, <2>1, <2>2 DEF DestroyPeerState, TypeOK, node, tables, Statuses
  <2>4. QED
    BY <2>1, <2>3 DEF TablesInverse, AliveExact, LinkInProgress, RoutesSound,
         RoutesPresent, DeadAreSilent, DtlsIdentityAlive, Uid, node, tables, TypeOK
<1>10. CASE InsertTransportMap_w
  <2>1. /\ l.pc = "inserting" /\ l.uid \in Uids /\ l.transport \in Transports
        /\ l'.pc = "inserted" /\ l'.uid = l.uid /\ l'.transport = l.transport
        /\ l' \in Busy
        /\ short_uid_map' = [short_uid_map EXCEPT ![Short[l.uid]] = l.transport]
        /\ UNCHANGED <<node, uid_map, transport_map, alive, lib, pending, sent>>
    BY <1>10, <1>c DEF InsertTransportMap_w, Busy
  <2>2. TypeOK'
    BY <2>1 DEF TypeOK, node, sent
  <2>3. (TablesInverse /\ AliveExact /\ LinkInProgress /\ DeadAreSilent /\ DtlsIdentityAlive)'
    BY <2>1 DEF TablesInverse, AliveExact, LinkInProgress, DeadAreSilent,
         DtlsIdentityAlive, Uid, node
  <2>a. /\ uid_map[l.uid] # NoPeer /\ uid_map[l.uid].transport = l.transport
        /\ Uid(l.transport) = l.uid /\ l.uid # NoUid
        /\ Short[l.uid] \in Shorts
    BY <2>1 DEF LinkInProgress, TablesInverse, NoUid
  <2>b. \A s \in Shorts :
           short_uid_map'[s] = IF s = Short[l.uid] THEN l.transport ELSE short_uid_map[s]
    BY <2>1 DEF TypeOK
  <2>4. RoutesSound'
    <3>1. l'.pc \notin {"inserting", "deleted"}
      BY <2>1
    <3>2. ASSUME NEW s \in Shorts, short_uid_map'[s] # NoTransport
          PROVE  /\ transport_map'[short_uid_map'[s]] # NoUid
                 /\ Short[transport_map'[short_uid_map'[s]]] = s
      <4>1. CASE s = Short[l.uid]
        BY <2>1, <2>a, <2>b, <4>1 DEF Uid
      <4>2. CASE s # Short[l.uid]
        <5>1. short_uid_map'[s] = short_uid_map[s]
          BY <2>b, <4>2
        <5>2. Uid(short_uid_map[s]) # NoUid /\ Short[Uid(short_uid_map[s])] = s
          BY <3>2, <5>1 DEF RoutesSound
        <5>3. QED
          BY <2>1, <5>1, <5>2 DEF Uid
      <4>3. QED
        BY <4>1, <4>2
    <3>3. QED
      BY <3>1, <3>2 DEF RoutesSound, Uid
  <2>5. RoutesPresent'
    <3>1. ASSUME Injective, NEW u \in Uids, uid_map[u] # NoPeer
          PROVE  short_uid_map'[Short[u]] = uid_map[u].transport
      <4>1. CASE u = l.uid
        BY <2>a, <2>b, <4>1
      <4>2. CASE u # l.uid
        <5>1. Short[u] # Short[l.uid] /\ Short[u] \in Shorts
          BY <2>1, <3>1, <4>2 DEF Injective
        <5>2. short_uid_map[Short[u]] = uid_map[u].transport
          BY <3>1, <4>2 DEF RoutesPresent
        <5>3. QED
          BY <2>b, <5>1, <5>2
      <4>3. QED
        BY <4>1, <4>2
    <3>2. QED
      BY <2>1, <3>1 DEF RoutesPresent, Injective
  <2>6. QED
    BY <2>2, <2>3, <2>4, <2>5
<1>11. CASE DeleteTransportMap_w
  <2>1. /\ l.pc = "deleting" /\ l.uid \in Uids /\ l.transport \in Transports
        /\ l'.pc = "deleted" /\ l'.uid = l.uid /\ l'.transport = l.transport
        /\ l' \in Busy
        /\ short_uid_map' = [short_uid_map EXCEPT ![Short[l.uid]] = NoTransport]
        /\ UNCHANGED <<node, uid_map, transport_map, alive, lib, pending, sent>>
    BY <1>11, <1>c DEF DeleteTransportMap_w, Busy
  <2>2. TypeOK'
    BY <2>1 DEF TypeOK, node, sent
  <2>3. (TablesInverse /\ AliveExact /\ LinkInProgress /\ DeadAreSilent /\ DtlsIdentityAlive)'
    BY <2>1 DEF TablesInverse, AliveExact, LinkInProgress, DeadAreSilent,
         DtlsIdentityAlive, Uid, node
  <2>4. RoutesSound'
    <3>1. \A s \in Shorts : short_uid_map'[s] # NoTransport =>
             s # Short[l.uid] /\ short_uid_map'[s] = short_uid_map[s]
      BY <2>1 DEF TypeOK
    <3>2. Uid(l.transport) = l.uid
      BY <2>1 DEF LinkInProgress, TablesInverse
    <3>3. \A s \in Shorts : short_uid_map'[s] # l.transport
      BY <2>1, <3>1, <3>2 DEF RoutesSound
    <3>4. QED
      BY <2>1, <3>1, <3>3 DEF RoutesSound, Uid
  <2>5. RoutesPresent'
    BY <2>1 DEF RoutesPresent, TypeOK, Injective
  <2>6. QED
    BY <2>2, <2>3, <2>4, <2>5
\* The signals and the library touch no table but for candidate_list, and post
\* only for a transport that lives.
<1>12. ASSUME UNCHANGED <<node, tables, alive, l>>,
              TypeOK',
              \A t \in Transports : pending[t] = <<>> /\ t \notin alive => pending'[t] = <<>>
       PROVE  IInv'
  BY <1>12 DEF TablesInverse, AliveExact, LinkInProgress, RoutesSound,
       RoutesPresent, DeadAreSilent, DtlsIdentityAlive, Uid, node, tables
<1>13. ASSUME NEW t \in Transports, NEW signal \in Signals, Handles(t, signal)
       PROVE  /\ pending' \in [Transports -> Seq(Signals)]
              /\ \A x \in Transports : pending[x] = <<>> => pending'[x] = <<>>
              /\ Uid(t) \in Uids /\ uid_map[Uid(t)] # NoPeer
              /\ uid_map[Uid(t)].transport = t
  <2>1. /\ l.pc = "idle" /\ pending[t] # <<>>
        /\ pending' = [pending EXCEPT ![t] = Tail(pending[t])]
    BY <1>13 DEF Handles
  <2>2. Tail(pending[t]) \in Seq(Signals)
    BY <2>1 DEF TypeOK
  <2>3. /\ pending' \in [Transports -> Seq(Signals)]
        /\ \A x \in Transports : pending[x] = <<>> => pending'[x] = <<>>
    BY <2>1, <2>2 DEF TypeOK
  <2>4. t \in alive
    BY <2>1 DEF DeadAreSilent
  <2>5. Uid(t) # NoUid
    BY <2>1, <2>4 DEF AliveExact
  <2>6. QED
    BY <2>3, <2>5, <1>e DEF TablesInverse
<1>14. ASSUME NEW t \in Transports, OnRequestSignaling(t) PROVE IInv'
  <2>1. Handles(t, "signaling") /\ "signaling" \in Signals
    BY <1>14 DEF OnRequestSignaling, Signals
  <2>2. lib' \in [Transports -> LibState]
    <3> DEFINE r == [lib[t] EXCEPT !.signaled = TRUE]
    <3>1. r \in LibState
      BY <1>f DEF LibState
    <3>2. lib' = [lib EXCEPT ![t] = r]
      BY <1>14 DEF OnRequestSignaling
    <3>3. QED
      BY <3>1, <3>2, LibUpdate
  <2>3. TypeOK'
    BY <1>13, <1>14, <2>1, <2>2 DEF OnRequestSignaling, TypeOK, node, tables, sent
  <2>4. QED
    BY <1>12, <1>13, <1>14, <2>1, <2>3 DEF OnRequestSignaling
<1>15. ASSUME NEW t \in Transports, OnCandidatesReady(t) PROVE IInv'
  <2>1. Handles(t, "ready") /\ "ready" \in Signals
    BY <1>15 DEF OnCandidatesReady, Signals
  <2>2. lib' \in [Transports -> LibState]
    <3> DEFINE r == [lib[t] EXCEPT !.ready = {}]
    <3>1. r \in LibState
      BY <1>f DEF LibState
    <3>2. lib' = [lib EXCEPT ![t] = r]
      BY <1>15 DEF OnCandidatesReady
    <3>3. QED
      BY <3>1, <3>2, LibUpdate
  <2>3. uid_map[Uid(t)] \in PeerState /\ Uid(t) \in Uids
    BY <1>13, <2>1 DEF TypeOK
  <2> DEFINE more == lib[t].ready \ TapCandidates
             p == [uid_map[Uid(t)] EXCEPT !.candidate_list = @ \cup more]
  <2>4. more \subseteq Candidates
    BY DEF TypeOK, LibState
  <2>5. /\ p \in PeerState /\ p # NoPeer
        /\ p.transport = uid_map[Uid(t)].transport
        /\ p.security = uid_map[Uid(t)].security
        /\ p.identity = uid_map[Uid(t)].identity
    BY <2>3, <2>4 DEF PeerState
  <2>6. uid_map' = [uid_map EXCEPT ![Uid(t)] = p]
    BY <1>15 DEF OnCandidatesReady, Uid
  <2> HIDE DEF more, p
  <2>7. \A v \in Uids :
           /\ uid_map'[v] = NoPeer <=> uid_map[v] = NoPeer
           /\ uid_map'[v].transport = uid_map[v].transport
           /\ uid_map'[v].security = uid_map[v].security
           /\ uid_map'[v].identity = uid_map[v].identity
    BY <1>13, <2>1, <2>5, <2>6 DEF TypeOK
  <2>8. TypeOK'
    <3>1. uid_map' \in [Uids -> PeerState \cup {NoPeer}]
      BY <2>3, <2>5, <2>6 DEF TypeOK
    <3>2. QED
      BY <1>13, <1>15, <2>1, <2>2, <3>1 DEF OnCandidatesReady, TypeOK, node, sent
  <2>9. (TablesInverse /\ DtlsIdentityAlive)'
    BY <1>15, <1>e, <2>7 DEF OnCandidatesReady, TablesInverse, DtlsIdentityAlive, Uid, node
  <2>10. (LinkInProgress /\ RoutesPresent)'
    BY <1>15, <1>c, <2>7 DEF OnCandidatesReady, LinkInProgress, RoutesPresent
  <2>11. (AliveExact /\ RoutesSound)'
    BY <1>15 DEF OnCandidatesReady, AliveExact, RoutesSound, Uid
  <2>12. DeadAreSilent'
    BY <1>13, <1>15, <2>1 DEF OnCandidatesReady, DeadAreSilent
  <2>13. QED
    BY <2>8, <2>9, <2>10, <2>11, <2>12
<1>16. ASSUME NEW t \in Transports, OnCandidatesAllocationDone(t) PROVE IInv'
  <2>1. Handles(t, "done") /\ "done" \in Signals
    BY <1>16 DEF OnCandidatesAllocationDone, Signals
  <2> DEFINE peer == uid_map[Uid(t)]
             r == [to |-> Uid(t), overlay |-> peer.overlay, fpr |-> identity,
                   cands |-> peer.candidate_list]
  <2>2. peer \in PeerState /\ Uid(t) \in Uids
    BY <1>13, <2>1 DEF TypeOK
  <2>3. r \in Responses
    BY <2>2 DEF Responses, PeerState, TypeOK
  <2>4. resp' = [resp EXCEPT ![t] = r]
    BY <1>16 DEF OnCandidatesAllocationDone, Uid
  <2> HIDE DEF peer, r
  <2>5. TypeOK'
    BY <1>13, <1>16, <2>1, <2>3, <2>4
       DEF OnCandidatesAllocationDone, TypeOK, node, tables
  <2>6. QED
    BY <1>12, <1>13, <1>16, <2>1, <2>5 DEF OnCandidatesAllocationDone
<1>17. ASSUME NEW t \in Transports, NEW was \in BOOLEAN, OnRWChangeState(t, was)
       PROVE  IInv'
  <2>1. PICK signal \in {"read", "write"} :
           /\ Handles(t, signal)
           /\ LET r == IF signal = "read" THEN lib[t].chan_r ELSE lib[t].readable
                  w == IF signal = "write" THEN lib[t].chan_w ELSE lib[t].writable
                  changed == r # lib[t].readable \/ w # lib[t].writable
              IN  /\ lib' = [lib EXCEPT
                         ![t].readable = r, ![t].writable = w,
                         ![t].bound = @ \/ (changed /\ r /\ w)]
                  /\ stat' = IF changed
                             THEN [stat EXCEPT ![t] = ConStatus(r, w, was)]
                             ELSE stat
           /\ UNCHANGED <<node, tables, alive, l, resp>>
    BY <1>17 DEF OnRWChangeState
  <2>2. signal \in Signals
    BY DEF Signals
  <2>3. lib' \in [Transports -> LibState]
    <3> DEFINE r == IF signal = "read" THEN lib[t].chan_r ELSE lib[t].readable
               w == IF signal = "write" THEN lib[t].chan_w ELSE lib[t].writable
               b == lib[t].bound \/ ((r # lib[t].readable \/ w # lib[t].writable) /\ r /\ w)
    <3>1. r \in BOOLEAN /\ w \in BOOLEAN /\ b \in BOOLEAN
      BY <1>f DEF LibState
    <3>2. lib' = [lib EXCEPT ![t] = [lib[t] EXCEPT !.readable = r, !.writable = w, !.bound = b]]
      BY <2>1
    <3> HIDE DEF r, w, b
    <3>3. [lib[t] EXCEPT !.readable = r, !.writable = w, !.bound = b] \in LibState
      BY <1>f, <3>1 DEF LibState
    <3>4. QED
      BY <3>2, <3>3, LibUpdate
  <2>4. stat' \in [Transports -> Statuses]
    BY <2>1 DEF TypeOK, Statuses, ConStatus
  <2>5. TypeOK'
    BY <1>13, <2>1, <2>2, <2>3, <2>4 DEF TypeOK, node, tables
  <2>6. QED
    BY <1>12, <1>13, <2>1, <2>2, <2>5
<1>18. ASSUME NEW t \in Transports, t \in alive, NEW signal \in Signals,
              lib' \in [Transports -> LibState],
              pending' = pending \/ pending' = Post(t, signal),
              UNCHANGED <<node, tables, alive, l, sent>>
       PROVE  IInv'
  <2>1. /\ pending' \in [Transports -> Seq(Signals)]
        /\ \A x \in Transports : x # t => pending'[x] = pending[x]
    <3>1. Append(pending[t], signal) \in Seq(Signals)
      BY DEF TypeOK
    <3>2. CASE pending' = pending
      BY <3>2 DEF TypeOK
    <3>3. CASE pending' = Post(t, signal)
      <4>1. pending' = [pending EXCEPT ![t] = Append(pending[t], signal)]
        BY <3>3 DEF Post
      <4>2. QED
        BY <3>1, <4>1 DEF TypeOK
    <3>4. QED
      BY <1>18, <3>2, <3>3
  <2>2. TypeOK'
    BY <1>18, <2>1 DEF TypeOK, node, tables, sent
  <2>3. QED
    BY <1>12, <1>18, <2>1, <2>2
<1>19. ASSUME NEW t \in Transports, NEW c \in Candidates, GatherCandidate(t, c) PROVE IInv'
  <2>1. lib' \in [Transports -> LibState]
    <3> DEFINE r == [lib[t] EXCEPT !.gathered = @ \cup {c}, !.ready = @ \cup {c},
                                  !.done = FALSE]
    <3>1. r \in LibState
      BY <1>f DEF LibState
    <3>2. lib' = [lib EXCEPT ![t] = r]
      BY <1>19 DEF GatherCandidate
    <3>3. QED
      BY <3>1, <3>2, LibUpdate
  <2>2. QED
    BY <1>18, <1>19, <2>1 DEF GatherCandidate, Signals
<1>20. ASSUME NEW t \in Transports, AllocationDone(t) PROVE IInv'
  <2>1. lib' \in [Transports -> LibState]
    <3> DEFINE r == [lib[t] EXCEPT !.done = TRUE]
    <3>1. r \in LibState
      BY <1>f DEF LibState
    <3>2. lib' = [lib EXCEPT ![t] = r]
      BY <1>20 DEF AllocationDone
    <3>3. QED
      BY <3>1, <3>2, LibUpdate
  <2>2. QED
    BY <1>18, <1>20, <2>1 DEF AllocationDone, Signals
<1>21. ASSUME NEW t \in Transports, NEW signal \in {"read", "write"}, ChannelState(t, signal)
       PROVE  IInv'
  <2>1. lib' \in [Transports -> LibState]
    <3>1. CASE signal = "read"
      <4> DEFINE b == ~lib[t].chan_r
                 r == [lib[t] EXCEPT !.chan_r = b]
      <4>1. lib' = [lib EXCEPT ![t] = r]
        BY <1>21, <3>1 DEF ChannelState
      <4>2. b \in BOOLEAN
        OBVIOUS
      <4> HIDE DEF b
      <4>3. r \in LibState
        BY <1>f, <4>2 DEF LibState
      <4> HIDE DEF r
      <4>4. QED
        BY <4>1, <4>3, LibUpdate
    <3>2. CASE signal = "write"
      <4> DEFINE b == ~lib[t].chan_w
                 r == [lib[t] EXCEPT !.chan_w = b]
      <4>1. lib' = [lib EXCEPT ![t] = r]
        BY <1>21, <3>2 DEF ChannelState
      <4>2. b \in BOOLEAN
        OBVIOUS
      <4> HIDE DEF b
      <4>3. r \in LibState
        BY <1>f, <4>2 DEF LibState
      <4> HIDE DEF r
      <4>4. QED
        BY <4>1, <4>3, LibUpdate
    <3>3. QED
      BY <3>1, <3>2
  <2>2. signal \in Signals
    BY DEF Signals
  <2>3. QED
    BY <1>18, <1>21, <2>1, <2>2 DEF ChannelState
<1>22. ASSUME NEW t \in Transports, HandleConnectionSignal(t) PROVE IInv'
  <2>1. lib' \in [Transports -> LibState]
    <3> DEFINE r == [lib[t] EXCEPT !.relay = IF trim_enabled THEN "pruned" ELSE "live"]
    <3>1. r \in LibState
      BY <1>f DEF LibState
    <3>2. lib' = [lib EXCEPT ![t] = r]
      BY <1>22 DEF HandleConnectionSignal
    <3>3. QED
      BY <3>1, <3>2, LibUpdate
  <2>2. QED
    BY <1>18, <1>22, <2>1 DEF HandleConnectionSignal, Signals
<1>23. CASE UNCHANGED vars
  <2>1. TypeOK'
    BY <1>23 DEF vars, node, tables, sent, TypeOK
  <2>2. QED
    BY <1>12, <1>23, <2>1 DEF vars
<1>24. ASSUME NEW u \in Uids, GetState(u) PROVE IInv'
  <2>1. /\ l.pc = "idle" /\ uid_map[u] # NoPeer
        /\ l'.pc = "stats" /\ l'.uid = u /\ l'.transport = uid_map[u].transport
        /\ UNCHANGED <<node, tables, alive, lib, pending, sent>>
    BY <1>24 DEF GetState, StateToJson
  <2>2. l' \in Busy
    BY <1>e, <1>24, <2>1 DEF GetState, Busy
  <2>3. TypeOK'
    BY <2>1, <2>2 DEF TypeOK, node, tables, sent
  <2>4. QED
    BY <2>1, <2>3 DEF TablesInverse, AliveExact, LinkInProgress, RoutesSound,
         RoutesPresent, DeadAreSilent, DtlsIdentityAlive, Uid, node, tables
<1>25. CASE GetChannelStats_w
  <2>1. /\ l.pc = "stats" /\ l' = Idle /\ l'.pc = "idle"
        /\ UNCHANGED <<node, tables, alive, lib, pending, sent>>
    BY <1>25 DEF GetChannelStats_w, Idle
  <2>2. TypeOK'
    BY <2>1 DEF TypeOK, node, tables, sent
  <2>3. QED
    BY <2>1, <2>2 DEF TablesInverse, AliveExact, LinkInProgress, RoutesSound,
         RoutesPresent, DeadAreSilent, DtlsIdentityAlive, Uid, node, tables
<1>26. QED
  BY <1>1, <1>2, <1>3, <1>5, <1>6, <1>7, <1>8, <1>9, <1>10, <1>11, <1>14, <1>15, <1>16,
     <1>17, <1>19, <1>20, <1>21, <1>22, <1>23, <1>24, <1>25
     DEF Next, Request, Continue, Invoked_w, HandleSignal, Library

-----------------------------------------------------------------------------
(* The theorems.                                                           *)

\* The inductive invariant holds throughout, for every instance.
THEOREM InductiveInvariant == Spec => []IInv
BY InitIInv, StepIInv, PTL DEF Spec

\* Every variable keeps its type: no handler leaves an entry with an empty uid,
\* a freed transport or a partial PeerState behind.
THEOREM TypeCorrect == Spec => []TypeOK
BY InductiveInvariant, PTL DEF IInv

\* Whatever the prefixes, W never finds a destroyed transport, nor another life
\* of its address, behind a short uid: DestroyTransport removes the route of
\* the link before ~PeerState runs, and a route that another link took over is
\* removed by either of them.
THEOREM RoutesNeverDangle == Spec => []NoDanglingShortUid
<1>1. IInv => NoDanglingShortUid
  BY DEF IInv, TypeOK, AliveExact, RoutesSound, NoDanglingShortUid
<1>2. QED
  BY <1>1, InductiveInvariant, PTL

\* uid_map_ and transport_map_ are inverse to each other, and between two
\* operations they name exactly the transports that exist.
THEOREM TablesAgree == Spec => []MapsAgree
<1>1. IInv => MapsAgree
  BY DEF IInv, TypeOK, TablesInverse, AliveExact, MapsAgree, Quiet
<1>2. QED
  BY <1>1, InductiveInvariant, PTL

\* With distinct prefixes no link loses its route to another one.
THEOREM RoutesAreComplete == Spec => []RoutesComplete
<1>1. IInv => RoutesComplete
  <2>1. SUFFICES ASSUME IInv, Injective, NEW u \in Uids, uid_map[u] # NoPeer,
                        Quiet \/ l.uid # u
                 PROVE  short_uid_map[Short[u]] = uid_map[u].transport
    BY DEF RoutesComplete
  <2>2. ~(l.pc \in {"inserting", "deleted"} /\ l.uid = u)
    BY <2>1 DEF Quiet
  <2>3. QED
    BY <2>1, <2>2 DEF IInv, RoutesPresent
<1>2. QED
  BY <1>1, InductiveInvariant, PTL

\* With distinct prefixes DeleteTransportMap_w finds the route of the link it
\* was called for: its "There is some bug here" branch is dead.
THEOREM DeletedRouteIsThere == Spec => []DeleteFindsRoute
<1>1. IInv => DeleteFindsRoute
  <2>1. SUFFICES ASSUME IInv, Injective, l.pc = "deleting"
                 PROVE  short_uid_map[Short[l.uid]] = l.transport
    BY DEF DeleteFindsRoute
  <2>2. l.uid \in Uids
    BY <2>1, OperationCases DEF IInv
  <2>3. uid_map[l.uid] # NoPeer /\ uid_map[l.uid].transport = l.transport
    BY <2>1 DEF IInv, LinkInProgress
  <2>4. QED
    BY <2>1, <2>2, <2>3 DEF IInv, RoutesPresent
<1>2. QED
  BY <1>1, InductiveInvariant, PTL

\* No signal is ever handled for a transport that has left the tables: the
\* operator[] of the handlers always finds an entry.
THEOREM SignalsAlwaysResolve == Spec => []SignalsResolve
<1>1. IInv => SignalsResolve
  <2>1. SUFFICES ASSUME IInv, NEW t \in Transports, Quiet, pending[t] # <<>>
                 PROVE  Uid(t) # NoUid /\ uid_map[Uid(t)] # NoPeer /\ Peer(t).transport = t
    BY DEF SignalsResolve
  <2>2. t \in alive
    BY <2>1 DEF IInv, DeadAreSilent
  <2>3. Uid(t) # NoUid
    BY <2>1, <2>2 DEF IInv, AliveExact, Quiet
  <2>4. QED
    BY <2>1, <2>3 DEF IInv, TablesInverse, Peer, Uid
<1>2. QED
  BY <1>1, InductiveInvariant, PTL

\* The certificate behind every DTLS transport is never replaced or freed.
THEOREM CertificateOutlivesLinks == Spec => []DtlsIdentityAlive
BY InductiveInvariant, PTL DEF IInv

-----------------------------------------------------------------------------
(* The controller is told the truth about the channel.                     *)

\* L's copy of a flag differs from the channel's only while a message about it
\* waits, and the last con_stat is that of L's copy.
StatusOf(t) ==
    /\ lib[t].chan_r # lib[t].readable => Waiting(t, "read")
    /\ lib[t].chan_w # lib[t].writable => Waiting(t, "write")
    /\ stat[t] = "online" <=> lib[t].readable /\ lib[t].writable

StatusInv == \A t \in Transports : StatusOf(t)

\* Handling the first message leaves the others waiting.
LEMMA TailKeeps ==
    ASSUME NEW S, NEW q \in Seq(S), NEW x, q # <<>>, Head(q) # x,
           \E i \in 1..Len(q) : q[i] = x
    PROVE  \E i \in 1..Len(Tail(q)) : Tail(q)[i] = x
<1>1. PICK i \in 1..Len(q) : q[i] = x
  OBVIOUS
<1>2. i # 1
  BY <1>1
<1>3. i - 1 \in 1..Len(Tail(q)) /\ Tail(q)[i - 1] = q[i]
  BY <1>1, <1>2
<1>4. QED
  BY <1>1, <1>3

\* A posted message waits, and so do those before it.
LEMMA AppendKeeps ==
    ASSUME NEW S, NEW q \in Seq(S), NEW y \in S, NEW x,
           x = y \/ \E i \in 1..Len(q) : q[i] = x
    PROVE  \E i \in 1..Len(Append(q, y)) : Append(q, y)[i] = x
<1>1. CASE x = y
  <2>1. Len(q) + 1 \in 1..Len(Append(q, y)) /\ Append(q, y)[Len(q) + 1] = y
    OBVIOUS
  <2>2. QED
    BY <1>1, <2>1
<1>2. CASE \E i \in 1..Len(q) : q[i] = x
  <2>1. PICK i \in 1..Len(q) : q[i] = x
    BY <1>2
  <2>2. i \in 1..Len(Append(q, y)) /\ Append(q, y)[i] = x
    BY <2>1
  <2>3. QED
    BY <2>2
<1>3. QED
  BY <1>1, <1>2

\* No state message waits before the first link exists.
LEMMA InitStatus == Init => StatusInv
<1> SUFFICES ASSUME Init, NEW t \in Transports PROVE StatusOf(t)
  BY DEF StatusInv
<1>1. lib[t] = NewLib /\ stat[t] = "none"
  BY DEF Init
<1>2. QED
  BY <1>1 DEF StatusOf, NewLib

\* Every change of a channel leaves a message that will report it, and every
\* message that is handled reports the channel as it is by then.
LEMMA StepStatus == IInv /\ StatusInv /\ [Next]_vars => StatusInv'
<1> SUFFICES ASSUME IInv, StatusInv, [Next]_vars, NEW x \in Transports
             PROVE  StatusOf(x)'
  BY DEF StatusInv
<1>a. /\ lib[x] \in LibState /\ pending[x] \in Seq(Signals)
      /\ lib \in [Transports -> LibState] /\ stat \in [Transports -> Statuses]
      /\ pending \in [Transports -> Seq(Signals)]
  BY DEF IInv, TypeOK
<1>b. StatusOf(x)
  BY DEF StatusInv
\* Nothing about x changes, or only the library's bookkeeping.
<1>1. ASSUME /\ lib'[x].chan_r = lib[x].chan_r /\ lib'[x].readable = lib[x].readable
             /\ lib'[x].chan_w = lib[x].chan_w /\ lib'[x].writable = lib[x].writable
             /\ stat'[x] = stat[x],
             \A signal \in {"read", "write"} : Waiting(x, signal) => Waiting(x, signal)'
      PROVE  StatusOf(x)'
  BY <1>b, <1>1 DEF StatusOf
<1>2. ASSUME lib'[x] = lib[x], stat'[x] = stat[x], pending'[x] = pending[x]
      PROVE  StatusOf(x)'
  BY <1>1, <1>2 DEF Waiting
\* A new message about x.
<1>3. ASSUME NEW signal \in Signals, pending' = Post(x, signal)
      PROVE  /\ Waiting(x, signal)'
             /\ \A other \in Signals : Waiting(x, other) => Waiting(x, other)'
  <2>1. pending'[x] = Append(pending[x], signal)
    BY <1>a, <1>3 DEF Post
  <2>2. QED
    BY <1>a, <2>1, AppendKeeps DEF Waiting
\* The first message about x is taken.
<1>4. ASSUME NEW signal \in Signals, Handles(x, signal)
      PROVE  \A other \in Signals \ {signal} : Waiting(x, other) => Waiting(x, other)'
  <2>1. pending[x] # <<>> /\ Head(pending[x]) = signal /\ pending'[x] = Tail(pending[x])
    BY <1>a, <1>4 DEF Handles
  <2>2. ASSUME NEW other \in Signals \ {signal}, Waiting(x, other)
        PROVE  Waiting(x, other)'
    <3>1. /\ pending[x] # <<>> /\ Head(pending[x]) # other
          /\ \E i \in 1..Len(pending[x]) : pending[x][i] = other
      BY <2>1, <2>2 DEF Waiting
    <3>2. \E i \in 1..Len(Tail(pending[x])) : Tail(pending[x])[i] = other
      BY <1>a, <3>1, TailKeeps
    <3>3. QED
      BY <2>1, <3>2 DEF Waiting
  <2>3. QED
    BY <2>2
<1>5. ASSUME NEW t \in Transports, NEW signal, t # x, Handles(t, signal)
      PROVE  pending'[x] = pending[x]
  BY <1>a, <1>5 DEF Handles
<1>6. ASSUME NEW t \in Transports, NEW signal, t # x, pending' = Post(t, signal)
      PROVE  pending'[x] = pending[x]
  BY <1>a, <1>6 DEF Post
<1>7. CASE Request
  <2>1. ASSUME NEW u \in Uids, NEW t \in Transports, NEW overlay \in Overlays,
               NEW sec \in BOOLEAN, NEW cas \in Cas, CreateTransport(u, t, overlay, sec, cas)
        PROVE  StatusOf(x)'
    <3>1. lib' = lib /\ stat' = stat /\ pending' = [pending EXCEPT ![t] = <<"signaling">>]
      BY <2>1 DEF CreateTransport, sent
    <3>2. CASE t = x
      <4>1. pending[x] = <<>>
        BY <2>1, <3>2 DEF CreateTransport, IInv, DeadAreSilent
      <4>2. \A signal \in {"read", "write"} : ~Waiting(x, signal)
        BY <4>1 DEF Waiting
      <4>3. QED
        BY <1>1, <3>1, <4>2
    <3>3. CASE t # x
      BY <1>2, <1>a, <3>1, <3>3
    <3>4. QED
      BY <3>2, <3>3
  <2>2. CASE UNCHANGED <<lib, stat, pending>>
    BY <1>2, <2>2
  <2>3. QED
    BY <1>7, <2>1, <2>2 DEF Request, Setup, SetTrim, RetryLink, DestroyTransport, GetState, sent
<1>8. CASE DestroyPeerState
  <2>1. l.transport \in Transports
    BY <1>8, OperationCases DEF IInv, DestroyPeerState
  <2>2. CASE l.transport = x
    <3>1. lib'[x] = NewLib /\ stat'[x] = "none"
      BY <1>8, <1>a, <2>2 DEF DestroyPeerState
    <3>2. QED
      BY <3>1 DEF StatusOf, NewLib
  <2>3. CASE l.transport # x
    BY <1>2, <1>8, <1>a, <2>1, <2>3 DEF DestroyPeerState
  <2>4. QED
    BY <2>2, <2>3
<1>9. CASE FinishCreate \/ EraseLink \/ Invoked_w \/ UNCHANGED vars
  BY <1>2, <1>9 DEF FinishCreate, EraseLink, Invoked_w, InsertTransportMap_w,
     DeleteTransportMap_w, GetChannelStats_w, sent, vars
<1>10. ASSUME NEW t \in Transports, OnRequestSignaling(t) PROVE StatusOf(x)'
  <2>1. Handles(t, "signaling") /\ stat' = stat
        /\ lib' = [lib EXCEPT ![t] = [lib[t] EXCEPT !.signaled = TRUE]]
    BY <1>10 DEF OnRequestSignaling, sent
  <2>2. CASE t = x
    BY <1>1, <1>4, <1>a, <2>1, <2>2 DEF Signals, LibState
  <2>3. CASE t # x
    BY <1>2, <1>5, <1>a, <2>1, <2>3
  <2>4. QED
    BY <2>2, <2>3
<1>11. ASSUME NEW t \in Transports, OnCandidatesReady(t) PROVE StatusOf(x)'
  <2>1. Handles(t, "ready") /\ stat' = stat
        /\ lib' = [lib EXCEPT ![t] = [lib[t] EXCEPT !.ready = {}]]
    BY <1>11 DEF OnCandidatesReady, sent
  <2>2. CASE t = x
    BY <1>1, <1>4, <1>a, <2>1, <2>2 DEF Signals, LibState
  <2>3. CASE t # x
    BY <1>2, <1>5, <1>a, <2>1, <2>3
  <2>4. QED
    BY <2>2, <2>3
<1>12. ASSUME NEW t \in Transports, OnCandidatesAllocationDone(t) PROVE StatusOf(x)'
  <2>1. Handles(t, "done") /\ stat' = stat /\ lib' = lib
    BY <1>12 DEF OnCandidatesAllocationDone
  <2>2. CASE t = x
    BY <1>1, <1>4, <2>1, <2>2 DEF Signals
  <2>3. CASE t # x
    BY <1>2, <1>5, <2>1, <2>3
  <2>4. QED
    BY <2>2, <2>3
<1>13. ASSUME NEW t \in Transports, NEW was \in BOOLEAN, OnRWChangeState(t, was)
       PROVE  StatusOf(x)'
  <2> DEFINE R(signal) == IF signal = "read" THEN lib[t].chan_r ELSE lib[t].readable
             W(signal) == IF signal = "write" THEN lib[t].chan_w ELSE lib[t].writable
             Changed(signal) == R(signal) # lib[t].readable \/ W(signal) # lib[t].writable
  <2>1. PICK signal \in {"read", "write"} :
           /\ Handles(t, signal)
           /\ lib' = [lib EXCEPT ![t].readable = R(signal), ![t].writable = W(signal),
                  ![t].bound = @ \/ (Changed(signal) /\ R(signal) /\ W(signal))]
           /\ stat' = IF Changed(signal)
                      THEN [stat EXCEPT ![t] = ConStatus(R(signal), W(signal), was)]
                      ELSE stat
    BY <1>13 DEF OnRWChangeState
  <2>2. CASE t = x
    <3>1. /\ lib'[x].readable = R(signal) /\ lib'[x].writable = W(signal)
          /\ lib'[x].chan_r = lib[x].chan_r /\ lib'[x].chan_w = lib[x].chan_w
      BY <1>a, <2>1, <2>2 DEF LibState
    <3>2. stat'[x] = IF Changed(signal) THEN ConStatus(R(signal), W(signal), was) ELSE stat[x]
      BY <1>a, <2>1, <2>2
    <3>3. \A other \in {"read", "write"} \ {signal} : Waiting(x, other) => Waiting(x, other)'
      BY <1>4, <2>1, <2>2 DEF Signals
    <3>4. R(signal) \in BOOLEAN /\ W(signal) \in BOOLEAN
      BY <1>a, <2>2 DEF LibState
    <3>5. stat'[x] = "online" <=> lib'[x].readable /\ lib'[x].writable
      BY <1>b, <2>2, <3>1, <3>2, <3>4 DEF StatusOf, ConStatus
    <3>6. /\ lib'[x].chan_r # lib'[x].readable => Waiting(x, "read")'
          /\ lib'[x].chan_w # lib'[x].writable => Waiting(x, "write")'
      BY <1>b, <2>1, <2>2, <3>1, <3>3 DEF StatusOf
    <3>7. QED
      BY <3>5, <3>6 DEF StatusOf
  <2>3. CASE t # x
    BY <1>2, <1>5, <1>a, <2>1, <2>3
  <2>4. QED
    BY <2>2, <2>3
<1>14. ASSUME NEW t \in Transports, NEW c \in Candidates, GatherCandidate(t, c)
       PROVE  StatusOf(x)'
  <2>1. /\ pending' = pending \/ pending' = Post(t, "ready")
        /\ stat' = stat
        /\ lib' = [lib EXCEPT ![t] = [lib[t] EXCEPT !.gathered = @ \cup {c},
                                          !.ready = @ \cup {c}, !.done = FALSE]]
    BY <1>14 DEF GatherCandidate, sent
  <2>2. CASE t = x
    <3>1. \A signal \in {"read", "write"} : Waiting(x, signal) => Waiting(x, signal)'
      BY <1>3, <2>1, <2>2 DEF Signals, Waiting
    <3>2. QED
      BY <1>1, <1>a, <2>1, <2>2, <3>1 DEF LibState
  <2>3. CASE t # x
    BY <1>2, <1>6, <1>a, <2>1, <2>3
  <2>4. QED
    BY <2>2, <2>3
<1>15. ASSUME NEW t \in Transports, AllocationDone(t) PROVE StatusOf(x)'
  <2>1. /\ pending' = Post(t, "done") /\ stat' = stat
        /\ lib' = [lib EXCEPT ![t] = [lib[t] EXCEPT !.done = TRUE]]
    BY <1>15 DEF AllocationDone, sent
  <2>2. CASE t = x
    BY <1>1, <1>3, <1>a, <2>1, <2>2 DEF Signals, LibState
  <2>3. CASE t # x
    BY <1>2, <1>6, <1>a, <2>1, <2>3
  <2>4. QED
    BY <2>2, <2>3
<1>16. ASSUME NEW t \in Transports, NEW signal \in {"read", "write"}, ChannelState(t, signal)
       PROVE  StatusOf(x)'
  <2>1. /\ stat' = stat
        /\ lib' = [lib EXCEPT ![t] = IF signal = "read" THEN [lib[t] EXCEPT !.chan_r = ~@]
                                                        ELSE [lib[t] EXCEPT !.chan_w = ~@]]
        /\ pending' = IF Waiting(t, signal) THEN pending ELSE Post(t, signal)
    BY <1>16 DEF ChannelState, sent
  <2>2. CASE t = x
    <3>1. /\ Waiting(x, signal)'
          /\ \A other \in {"read", "write"} : Waiting(x, other) => Waiting(x, other)'
      BY <1>3, <2>1, <2>2 DEF Signals, Waiting
    <3>2. /\ lib'[x].readable = lib[x].readable /\ lib'[x].writable = lib[x].writable
          /\ signal = "read" => lib'[x].chan_w = lib[x].chan_w
          /\ signal = "write" => lib'[x].chan_r = lib[x].chan_r
      BY <1>a, <2>1, <2>2 DEF LibState
    <3>3. QED
      BY <1>b, <2>1, <3>1, <3>2 DEF StatusOf
  <2>3. CASE t # x
    BY <1>2, <1>6, <1>a, <2>1, <2>3
  <2>4. QED
    BY <2>2, <2>3
<1>17. ASSUME NEW t \in Transports, HandleConnectionSignal(t) PROVE StatusOf(x)'
  <2>1. /\ pending' = pending /\ stat' = stat
        /\ lib' = [lib EXCEPT ![t] = [lib[t] EXCEPT
                      !.relay = IF trim_enabled THEN "pruned" ELSE "live"]]
    BY <1>17 DEF HandleConnectionSignal, sent
  <2>2. QED
    BY <1>1, <1>a, <2>1 DEF LibState, Waiting
<1>18. QED
  BY <1>7, <1>8, <1>9, <1>10, <1>11, <1>12, <1>13, <1>14, <1>15, <1>16, <1>17
     DEF Next, Continue, HandleSignal, Library

\* However the flags of a channel flicker while L is busy, once L has taken the
\* messages about them the controller knows whether the link is online.
THEOREM StatusIsTruthful == Spec => []StatusTruthful
<1>1. IInv /\ StatusInv => StatusTruthful
  BY DEF IInv, TypeOK, StatusInv, StatusOf, StatusTruthful, LibState
<1>2. Spec => []StatusInv
  BY InitStatus, StepStatus, InductiveInvariant, PTL DEF Spec
<1>3. QED
  BY <1>1, <1>2, InductiveInvariant, PTL

\* A state report (StateToJson) and the con_stat callbacks never contradict each
\* other, at any moment between two steps of L.
THEOREM ReportsAreConsistent == Spec => []ReportsAgree
<1>1. IInv /\ StatusInv => ReportsAgree
  <2>1. SUFFICES ASSUME IInv, StatusInv, NEW u \in Uids, uid_map[u] # NoPeer
                 PROVE  StateToJson(u) = "online" <=> stat[uid_map[u].transport] = "online"
    BY DEF ReportsAgree
  <2>2. uid_map[u].transport \in Transports
    BY <2>1, TableEntries DEF IInv
  <2>3. StatusOf(uid_map[u].transport)
    BY <2>1, <2>2 DEF StatusInv
  <2>4. QED
    BY <2>1, <2>3 DEF StatusOf, StateToJson
<1>2. Spec => []StatusInv
  BY InitStatus, StepStatus, InductiveInvariant, PTL DEF Spec
<1>3. QED
  BY <1>1, <1>2, InductiveInvariant, PTL

-----------------------------------------------------------------------------
(* The tables implement the life cycle of an address.                      *)

Stage(t) ==
    IF t \notin alive THEN "free"
    ELSE IF l.pc = "inserting" /\ l.transport = t THEN "built"
    ELSE IF l.pc \in {"deleted", "destroying"} /\ l.transport = t THEN "retired"
    ELSE "routed"

\* With distinct prefixes the stage of an address follows from what L is doing.
LEMMA LifeIsStage ==
    IInv /\ Injective => Life = [t \in Transports |-> Stage(t)]
<1> SUFFICES ASSUME IInv, Injective, NEW t \in Transports, t \in alive
             PROVE  /\ Routed(t) <=> ~(/\ l.pc \in {"inserting", "deleted", "destroying"}
                                       /\ l.transport = t)
                    /\ Life[t] = Stage(t)
  BY DEF Life, Stage
<1>1. l.pc = "destroying" /\ l.transport = t => ~Routed(t)
  BY TransportsAssumption DEF IInv, AliveExact, RoutesSound, Routed
<1>2. l.pc \in {"inserting", "deleted"} /\ l.transport = t => ~Routed(t)
  BY DEF IInv, RoutesSound, Routed
<1>3. ASSUME ~(l.pc \in {"inserting", "deleted", "destroying"} /\ l.transport = t)
      PROVE  Routed(t)
  <2>1. Uid(t) \in Uids /\ uid_map[Uid(t)] # NoPeer /\ uid_map[Uid(t)].transport = t
    BY <1>3, TableEntries DEF IInv, AliveExact, TablesInverse
  <2>2. ~(l.pc \in {"inserting", "deleted"} /\ l.uid = Uid(t))
    BY <1>3, <2>1 DEF IInv, LinkInProgress
  <2>3. short_uid_map[Short[Uid(t)]] = t
    BY <2>1, <2>2 DEF IInv, RoutesPresent
  <2>4. Short[Uid(t)] \in Shorts
    BY <2>1, ShortAssumption
  <2>5. QED
    BY <2>3, <2>4 DEF Routed
<1>4. QED
  BY <1>1, <1>2, <1>3 DEF Life, Stage

\* With distinct prefixes a step of the tables is a step of the life cycle of one
\* address, or leaves every life as it is.
LEMMA StepLifecycle ==
    ASSUME Injective, IInv, [Next]_vars
    PROVE  [Lifecycle!Next]_Life
<1>1. IInv'
  BY StepIInv
<1>2. Life = [t \in Transports |-> Stage(t)]
  BY LifeIsStage
<1>3. Life' = [t \in Transports |-> Stage(t)']
  <2>1. (IInv /\ Injective => Life = [t \in Transports |-> Stage(t)])'
    BY LifeIsStage, PTL
  <2>2. QED
    BY <1>1, <2>1 DEF Injective
<1>a. /\ alive \subseteq Transports
      /\ \/ l = Idle /\ l.pc = "idle"
         \/ l \in Busy /\ l.pc # "idle" /\ l.transport \in Transports
  BY OperationCases DEF IInv, TypeOK
<1>4. ASSUME NEW u \in Uids, NEW t \in Transports, NEW overlay \in Overlays,
             NEW sec \in BOOLEAN, NEW cas \in Cas, CreateTransport(u, t, overlay, sec, cas)
      PROVE  Lifecycle!Build(t)
  <2>1. /\ l.pc = "idle" /\ t \notin alive /\ alive' = alive \cup {t}
        /\ l'.pc = "inserting" /\ l'.transport = t
    BY <1>4 DEF CreateTransport
  <2>2. QED
    BY <1>2, <1>3, <2>1 DEF Lifecycle!Build, Lifecycle!Advance, Stage
<1>5. CASE InsertTransportMap_w
  <2>1. /\ l.pc = "inserting" /\ l.transport \in alive /\ alive' = alive
        /\ l'.pc = "inserted" /\ l'.transport = l.transport
    <3>1. l.pc = "inserting" /\ l.transport \in Transports
      BY <1>5, <1>a DEF InsertTransportMap_w
    <3>2. l.transport \in alive
      BY <3>1, OperationCases, UidsAssumption
         DEF IInv, LinkInProgress, TablesInverse, AliveExact, NoUid
    <3>3. QED
      BY <1>5, <1>a, <3>1, <3>2 DEF InsertTransportMap_w, Busy
  <2>2. Lifecycle!Publish(l.transport)
    BY <1>a, <1>2, <1>3, <2>1 DEF Lifecycle!Publish, Lifecycle!Advance, Stage
  <2>3. QED
    BY <1>a, <2>1, <2>2 DEF Lifecycle!Next
<1>6. CASE DeleteTransportMap_w
  <2>1. /\ l.pc = "deleting" /\ l.transport \in alive /\ alive' = alive
        /\ l'.pc = "deleted" /\ l'.transport = l.transport
    <3>1. l.pc = "deleting" /\ l.transport \in Transports
      BY <1>6, <1>a DEF DeleteTransportMap_w
    <3>2. l.transport \in alive
      BY <3>1, OperationCases, UidsAssumption
         DEF IInv, LinkInProgress, TablesInverse, AliveExact, NoUid
    <3>3. QED
      BY <1>6, <1>a, <3>1, <3>2 DEF DeleteTransportMap_w, Busy
  <2>2. Lifecycle!Withdraw(l.transport)
    BY <1>a, <1>2, <1>3, <2>1 DEF Lifecycle!Withdraw, Lifecycle!Advance, Stage
  <2>3. QED
    BY <1>a, <2>1, <2>2 DEF Lifecycle!Next
<1>7. CASE DestroyPeerState
  <2>1. /\ l.pc = "destroying" /\ l.transport \in alive /\ l'.pc = "idle"
        /\ alive' = alive \ {l.transport}
    BY <1>7, <1>a DEF DestroyPeerState, IInv, AliveExact, Idle
  <2>2. Lifecycle!Destroy(l.transport)
    BY <1>a, <1>2, <1>3, <2>1 DEF Lifecycle!Destroy, Lifecycle!Advance, Stage
  <2>3. QED
    BY <1>a, <2>1, <2>2 DEF Lifecycle!Next
\* Every other step leaves the stages alone.
<1>8. ASSUME alive' = alive,
             \/ l' = l
             \/ {l.pc, l'.pc} \cap {"inserting", "deleted", "destroying"} = {}
             \/ /\ l.pc = "deleted" /\ l'.pc = "destroying"
                /\ l'.transport = l.transport
      PROVE  Life' = Life
  <2>1. ASSUME NEW t \in Transports PROVE Stage(t)' = Stage(t)
    BY <1>8 DEF Stage
  <2>2. QED
    BY <1>2, <1>3, <2>1
<1>9. CASE EraseLink
  <2>1. l.pc = "deleted" /\ l'.pc = "destroying" /\ l'.transport = l.transport
    BY <1>9, <1>a DEF EraseLink, Busy
  <2>2. QED
    BY <1>8, <1>9, <2>1 DEF EraseLink
<1>10. CASE FinishCreate \/ GetChannelStats_w \/ \E u \in Uids : DestroyTransport(u) \/ GetState(u)
  <2>1. {l.pc, l'.pc} \cap {"inserting", "deleted", "destroying"} = {}
    BY <1>10 DEF FinishCreate, DestroyTransport, GetState, GetChannelStats_w, Idle
  <2>2. QED
    BY <1>8, <1>10, <2>1 DEF FinishCreate, DestroyTransport, GetState, GetChannelStats_w
<1>11. ASSUME alive' = alive, l' = l PROVE UNCHANGED Life
  BY <1>8, <1>11
<1>12. CASE \/ \E u \in Uids, ok \in BOOLEAN : Setup(u, ok)
            \/ \E trim \in TrimInputs : SetTrim(trim)
            \/ \E u \in Uids, cas \in Cas : RetryLink(u, cas)
            \/ UNCHANGED vars
  BY <1>11, <1>12 DEF Setup, SetTrim, RetryLink, vars
<1>14. ASSUME NEW t \in Transports, HandleSignal(t) PROVE UNCHANGED Life
  BY <1>11, <1>14 DEF HandleSignal, OnRequestSignaling, OnCandidatesReady,
     OnCandidatesAllocationDone, OnRWChangeState
<1>15. ASSUME NEW t \in Transports, Library(t) PROVE UNCHANGED Life
  BY <1>11, <1>15 DEF Library, GatherCandidate, AllocationDone, ChannelState,
     HandleConnectionSignal
<1>13. QED
  BY <1>4, <1>5, <1>6, <1>7, <1>9, <1>10, <1>12, <1>14, <1>15
     DEF Next, Request, Continue, Invoked_w, Lifecycle!Next

\* Before the first link every address is free.
LEMMA InitLifecycle == Init => Lifecycle!Init
BY DEF Init, Lifecycle!Init, Life

\* With distinct prefixes the tables, the two Invokes and the order of
\* DestroyTransport implement the life cycle promised to W: an address is
\* published after it is built, withdrawn before it is destroyed, and reused
\* only then.  (That every operation is completed is left to TLC.)
THEOREM LifecycleImplemented ==
    ASSUME Injective
    PROVE  Spec => Lifecycle!Spec
<1>1. Init => Lifecycle!Init
  BY InitLifecycle
<1>2. IInv /\ [Next]_vars => [Lifecycle!Next]_Life
  <2>1. SUFFICES ASSUME IInv, [Next]_vars PROVE [Lifecycle!Next]_Life
    OBVIOUS
  <2>2. QED
    BY <2>1, StepLifecycle
<1>3. QED
  BY <1>1, <1>2, InductiveInvariant, PTL DEF Spec, Lifecycle!Spec
=============================================================================
