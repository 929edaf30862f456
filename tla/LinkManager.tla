----------------------------- MODULE LinkManager -----------------------------
(***************************************************************************)
(* The tables of TinCanConnectionManager and the two threads that share    *)
(* them.  The link set-up thread L creates and destroys links on behalf of *)
(* the controller and handles the signals the transports post to its       *)
(* queue; the packet handling thread W owns short_uid_map_, the channels   *)
(* and the ICE machinery.  L reaches W by a synchronous Invoke, so every   *)
(* operation of L that touches short_uid_map_ is split at the Invoke and W *)
(* may run in between.                                                     *)
(*                                                                         *)
(* A transport stands for its address: once destroyed it may be allocated  *)
(* again, which is what makes a route left behind in short_uid_map_        *)
(* harmful.                                                                *)
(*                                                                         *)
(* A definition Name_Fault, with an underscore and a capital, is Name with *)
(* a bug the code could have; it serves only to see a property fail.       *)
(***************************************************************************)
EXTENDS Integers, Sequences, FiniteSets

CONSTANTS
    Uids,           \* peer identifiers: numbers, ordered as the strings are
    FullIds,        \* the identifiers of kIdSize characters
    Shorts,         \* the prefixes that key short_uid_map_
    Short,          \* uid.substr(0, kShortLen * 2)
    Transports,     \* addresses at which a transport can be allocated
    Overlays,       \* values of overlay_id
    Entries,        \* the candidates a controller can write in "cas"
    WellFormed,     \* those that have the twelve fields
    Cas,            \* the candidate lists a controller can send
    Candidates,     \* local candidates that gathering can produce
    TapCandidates,  \* those found on the IPOP tap device
    Flapping,       \* <<t, flag>>: the channels' flags that ever change
    Relayed,        \* the transports whose ports create relay connections
    TrimInputs,     \* values of "trim_enabled" the controller sends
    NoPeer,         \* no entry in uid_map_
    NoTransport     \* no entry in short_uid_map_

NoUid == 0              \* the empty string

ASSUME UidsAssumption == Uids \subseteq Nat \ {NoUid} /\ FullIds \subseteq Uids
ASSUME ShortAssumption == Short \in [Uids -> Shorts]
ASSUME CasAssumption == Cas \subseteq SUBSET Entries
ASSUME CandidatesAssumption == TapCandidates \subseteq Candidates
ASSUME TrimAssumption == TrimInputs \subseteq BOOLEAN
ASSUME TransportsAssumption ==
    /\ Flapping \subseteq Transports \X {"read", "write"}
    /\ Relayed \subseteq Transports
    /\ NoTransport \notin Transports

Security == {"dtls", "none"}
Roles == {"controlling", "controlled"}

\* One link: the PeerState that uid_map_ owns.  identity is the certificate
\* that a DTLS transport points to (NoUid for a plain transport).
PeerState ==
    [transport: Transports, overlay: Overlays, security: Security,
     identity: Uids \cup {NoUid}, role: Roles,
     candidates: SUBSET WellFormed, candidate_list: SUBSET Candidates]

ASSUME NoPeerAssumption == NoPeer \notin PeerState

\* What libjingle keeps for a transport: the candidates ready for L, all those
\* gathered so far, whether the allocation reported its end, the state of the
\* channel on W (chan_r, chan_w) and the copy of it that L last took over
\* (readable, writable), whether the ports signal new connections to the
\* manager, and what became of the last relay connection.
LibState ==
    [ready: SUBSET Candidates, gathered: SUBSET Candidates, done: BOOLEAN,
     signaled: BOOLEAN, chan_r: BOOLEAN, chan_w: BOOLEAN,
     readable: BOOLEAN, writable: BOOLEAN, bound: BOOLEAN,
     relay: {"none", "live", "pruned"}]

NewLib ==
    [ready |-> {}, gathered |-> {}, done |-> FALSE, signaled |-> FALSE,
     chan_r |-> FALSE, chan_w |-> FALSE, readable |-> FALSE,
     writable |-> FALSE, bound |-> FALSE, relay |-> "none"]

\* Messages a transport posts to the queue of L.
Signals == {"signaling", "ready", "done", "read", "write"}

\* The last con_resp sent for a transport, and the last con_stat.
Responses ==
    [to: Uids, overlay: Overlays, fpr: Uids \cup {NoUid},
     cands: SUBSET Candidates]
NoResponse == [to |-> NoUid]
Statuses == {"none", "online", "offline", "unknown"}

VARIABLES
    tincan_id,      \* own identifier, NoUid until Setup
    identity,       \* owner of the certificate, NoUid if there is none
    trim_enabled,   \* set_trim_connection
    uid_map,        \* uid -> PeerState
    transport_map,  \* transport -> uid
    short_uid_map,  \* short uid -> transport; written on W only
    alive,          \* transports that exist
    lib,            \* transport -> LibState
    pending,        \* transport -> messages posted to L, oldest first
    l,              \* where L is in an operation that invokes W
    resp,           \* transport -> last con_resp sent for it
    stat            \* transport -> last con_stat sent for it

tables == <<uid_map, transport_map, short_uid_map>>
node == <<tincan_id, identity, trim_enabled>>
sent == <<resp, stat>>
vars == <<node, tables, alive, lib, pending, l, sent>>

Idle == [pc |-> "idle"]
Busy ==
    [pc: {"inserting", "inserted", "deleting", "deleted", "destroying", "stats"},
     uid: Uids, transport: Transports, cas: Cas \cup {{}}]

TypeOK ==
    /\ tincan_id \in Uids \cup {NoUid}
    /\ identity \in {NoUid, tincan_id}
    /\ trim_enabled \in BOOLEAN
    /\ uid_map \in [Uids -> PeerState \cup {NoPeer}]
    /\ transport_map \in [Transports -> Uids \cup {NoUid}]
    /\ short_uid_map \in [Shorts -> Transports \cup {NoTransport}]
    /\ alive \subseteq Transports
    /\ lib \in [Transports -> LibState]
    /\ pending \in [Transports -> Seq(Signals)]
    /\ l \in Busy \cup {Idle}
    /\ resp \in [Transports -> Responses \cup {NoResponse}]
    /\ stat \in [Transports -> Statuses]

Init ==
    /\ tincan_id = NoUid
    /\ identity = NoUid
    /\ trim_enabled = FALSE
    /\ uid_map = [u \in Uids |-> NoPeer]
    /\ transport_map = [t \in Transports |-> NoUid]
    /\ short_uid_map = [s \in Shorts |-> NoTransport]
    /\ alive = {}
    /\ lib = [t \in Transports |-> NewLib]
    /\ pending = [t \in Transports |-> <<>>]
    /\ l = Idle
    /\ resp = [t \in Transports |-> NoResponse]
    /\ stat = [t \in Transports |-> "none"]

-----------------------------------------------------------------------------
(* The controller's requests, on L.                                        *)

Setup_Forgets(u, ok) ==
    /\ l.pc = "idle"
    /\ tincan_id = NoUid
    /\ u \in FullIds
    /\ identity' = IF ok THEN u ELSE NoUid
    /\ UNCHANGED <<tincan_id, trim_enabled, tables, alive, lib, pending, l, sent>>

Setup_Again(u, ok) ==
    /\ l.pc = "idle"
    /\ u \in FullIds
    /\ tincan_id' = u
    /\ identity' = IF ok THEN u ELSE NoUid
    /\ UNCHANGED <<trim_enabled, tables, alive, lib, pending, l, sent>>

\* SET_LOCAL_IP: accepted once, and only for an identifier of full length.
\* ok is false when the certificate could not be generated.
Setup(u, ok) ==
    /\ l.pc = "idle"
    /\ tincan_id = NoUid
    /\ u \in FullIds
    /\ tincan_id' = u
    /\ identity' = IF ok THEN u ELSE NoUid
    /\ UNCHANGED <<trim_enabled, tables, alive, lib, pending, l, sent>>

SetTrim(trim) ==
    /\ l.pc = "idle"
    /\ trim_enabled' = trim
    /\ UNCHANGED <<tincan_id, identity, tables, alive, lib, pending, l, sent>>

\* SetupTransport: the peer with the larger identifier controls.
IceRole(u) == IF u < tincan_id THEN "controlling" ELSE "controlled"

\* sec: the request asks for DTLS and carries a fingerprint that is not null.
NewPeer(u, t, overlay, sec) ==
    LET dtls == sec /\ identity # NoUid
    IN  [transport |-> t, overlay |-> overlay,
         security |-> IF dtls THEN "dtls" ELSE "none",
         identity |-> IF dtls THEN identity ELSE NoUid,
         role |-> IceRole(u), candidates |-> {}, candidate_list |-> {}]

Refused_SelfOnly(u) == tincan_id = u
Refused(u) == uid_map[u] # NoPeer \/ tincan_id = u

\* CREATE_LINK up to the Invoke of InsertTransportMap_w: the transport exists,
\* has asked L for signaling, and is in the tables that only L uses.
CreateTransport(u, t, overlay, sec, cas) ==
    /\ l.pc = "idle"
    /\ ~Refused(u)
    /\ t \notin alive
    /\ alive' = alive \cup {t}
    /\ pending' = [pending EXCEPT ![t] = <<"signaling">>]
    /\ uid_map' = [uid_map EXCEPT ![u] = NewPeer(u, t, overlay, sec)]
    /\ transport_map' = [transport_map EXCEPT ![t] = u]
    /\ l' = [pc |-> "inserting", uid |-> u, transport |-> t, cas |-> cas]
    /\ UNCHANGED <<node, short_uid_map, lib, sent>>

ParseCandidates(cas) == cas \cap WellFormed

\* CreateConnections: nothing for an unknown peer or one that has candidates.
\* An empty "cas" parses to nothing, as when the call is left out.
Connected(u, cas) ==
    IF uid_map[u] # NoPeer /\ uid_map[u].candidates = {}
    THEN [uid_map EXCEPT ![u].candidates = ParseCandidates(cas)]
    ELSE uid_map

\* The rest of CREATE_LINK, once the Invoke has returned.
FinishCreate ==
    /\ l.pc = "inserted"
    /\ uid_map' = Connected(l.uid, l.cas)
    /\ l' = Idle
    /\ UNCHANGED <<node, transport_map, short_uid_map, alive, lib, pending,
                   sent>>

\* CREATE_LINK for a link that exists: CreateTransport returns false and the
\* candidates are still handed to CreateConnections.
RetryLink(u, cas) ==
    /\ l.pc = "idle"
    /\ Refused(u)
    /\ uid_map' = Connected(u, cas)
    /\ UNCHANGED <<node, transport_map, short_uid_map, alive, lib, pending,
                   l, sent>>

DestroyTransport_Posts(u) ==
    /\ l.pc = "idle"
    /\ uid_map[u] # NoPeer
    /\ l' = [pc |-> "deleted", uid |-> u,
             transport |-> uid_map[u].transport, cas |-> {}]
    /\ UNCHANGED <<node, tables, alive, lib, pending, sent>>

\* TRIM_LINK up to the Invoke of DeleteTransportMap_w.
DestroyTransport(u) ==
    /\ l.pc = "idle"
    /\ uid_map[u] # NoPeer
    /\ l' = [pc |-> "deleting", uid |-> u,
             transport |-> uid_map[u].transport, cas |-> {}]
    /\ UNCHANGED <<node, tables, alive, lib, pending, sent>>

\* Back on L: the link leaves both tables; the local PeerStatePtr keeps the
\* transport until the function returns.
EraseLink ==
    /\ l.pc = "deleted"
    /\ transport_map' = [transport_map EXCEPT ![l.transport] = NoUid]
    /\ uid_map' = [uid_map EXCEPT ![l.uid] = NoPeer]
    /\ l' = [l EXCEPT !.pc = "destroying"]
    /\ UNCHANGED <<node, short_uid_map, alive, lib, pending, sent>>

DestroyPeerState_Leaks ==
    /\ l.pc = "destroying"
    /\ l' = Idle
    /\ UNCHANGED <<node, tables, alive, lib, pending, sent>>

\* ~PeerState: the destructor of the transport invokes W to destroy the
\* channels and clears what the transport had posted to L.
DestroyPeerState ==
    /\ l.pc = "destroying"
    /\ alive' = alive \ {l.transport}
    /\ pending' = [pending EXCEPT ![l.transport] = <<>>]
    /\ lib' = [lib EXCEPT ![l.transport] = NewLib]
    /\ resp' = [resp EXCEPT ![l.transport] = NoResponse]
    /\ stat' = [stat EXCEPT ![l.transport] = "none"]
    /\ l' = Idle
    /\ UNCHANGED <<node, tables>>

\* What a state report says of a peer: by L's copy of the channel's state.
StateToJson(u) ==
    IF uid_map[u] # NoPeer
       /\ lib[uid_map[u].transport].readable /\ lib[uid_map[u].transport].writable
    THEN "online" ELSE "offline"

\* GET_STATE with "stats", for one peer: an online link's statistics are W's.
GetState(u) ==
    /\ l.pc = "idle"
    /\ StateToJson(u) = "online"
    /\ l' = [pc |-> "stats", uid |-> u,
             transport |-> uid_map[u].transport, cas |-> {}]
    /\ UNCHANGED <<node, tables, alive, lib, pending, sent>>

-----------------------------------------------------------------------------
(* The functions L invokes on W.                                           *)

InsertTransportMap_w_Skips ==
    /\ l.pc = "inserting"
    /\ l' = [l EXCEPT !.pc = "inserted"]
    /\ UNCHANGED <<node, tables, alive, lib, pending, sent>>

InsertTransportMap_w ==
    /\ l.pc = "inserting"
    /\ short_uid_map' = [short_uid_map EXCEPT ![Short[l.uid]] = l.transport]
    /\ l' = [l EXCEPT !.pc = "inserted"]
    /\ UNCHANGED <<node, uid_map, transport_map, alive, lib, pending, sent>>

DeleteTransportMap_w_WrongKey ==
    /\ l.pc = "deleting"
    /\ l' = [l EXCEPT !.pc = "deleted"]
    /\ UNCHANGED <<node, tables, alive, lib, pending, sent>>

DeleteTransportMap_w_Clears ==
    /\ l.pc = "deleting"
    /\ short_uid_map' = [s \in Shorts |-> NoTransport]
    /\ l' = [l EXCEPT !.pc = "deleted"]
    /\ UNCHANGED <<node, uid_map, transport_map, alive, lib, pending, sent>>

DeleteTransportMap_w ==
    /\ l.pc = "deleting"
    /\ short_uid_map' = [short_uid_map EXCEPT ![Short[l.uid]] = NoTransport]
    /\ l' = [l EXCEPT !.pc = "deleted"]
    /\ UNCHANGED <<node, uid_map, transport_map, alive, lib, pending, sent>>

GetChannelStats_w ==
    /\ l.pc = "stats"
    /\ l' = Idle
    /\ UNCHANGED <<node, tables, alive, lib, pending, sent>>

-----------------------------------------------------------------------------
(* The signals of the transports, handled on L between two requests.       *)

Handles(t, signal) ==
    /\ l.pc = "idle"
    /\ pending[t] # <<>>
    /\ Head(pending[t]) = signal
    /\ pending' = [pending EXCEPT ![t] = Tail(@)]

\* Gathering starts only now.
OnRequestSignaling(t) ==
    /\ Handles(t, "signaling")
    /\ lib' = [lib EXCEPT ![t].signaled = TRUE]
    /\ UNCHANGED <<node, tables, alive, l, sent>>

OnCandidatesReady_Replaces(t) ==
    /\ Handles(t, "ready")
    /\ lib' = [lib EXCEPT ![t].ready = {}]
    /\ uid_map' = [uid_map EXCEPT ![transport_map[t]].candidate_list =
                       lib[t].ready \ TapCandidates]
    /\ UNCHANGED <<node, transport_map, short_uid_map, alive, l, sent>>

\* All ready candidates are taken at once; those of the tap are dropped.
OnCandidatesReady(t) ==
    /\ Handles(t, "ready")
    /\ lib' = [lib EXCEPT ![t].ready = {}]
    /\ uid_map' = [uid_map EXCEPT ![transport_map[t]].candidate_list =
                       @ \cup (lib[t].ready \ TapCandidates)]
    /\ UNCHANGED <<node, transport_map, short_uid_map, alive, l, sent>>

OnCandidatesAllocationDone_NotEmpty(t) ==
    /\ Handles(t, "done")
    /\ LET peer == uid_map[transport_map[t]]
       IN  resp' = IF peer.candidate_list = {} THEN resp
                   ELSE [resp EXCEPT ![t] =
                        [to |-> transport_map[t], overlay |-> peer.overlay,
                         fpr |-> identity, cands |-> peer.candidate_list]]
    /\ UNCHANGED <<node, tables, alive, lib, l, stat>>

\* The con_resp: own fingerprint and every candidate, to the peer of the link
\* over the overlay of the link.
OnCandidatesAllocationDone(t) ==
    /\ Handles(t, "done")
    /\ LET peer == uid_map[transport_map[t]]
       IN  resp' = [resp EXCEPT ![t] =
                        [to |-> transport_map[t], overlay |-> peer.overlay,
                         fpr |-> identity, cands |-> peer.candidate_list]]
    /\ UNCHANGED <<node, tables, alive, lib, l, stat>>

ConStatus_WritableOnly(r, w, was) ==
    IF w THEN "online" ELSE IF was THEN "offline" ELSE "unknown"

ConStatus_WasFirst(r, w, was) ==
    IF was THEN "offline" ELSE IF r /\ w THEN "online" ELSE "unknown"

ConStatus(r, w, was) ==
    IF r /\ w THEN "online" ELSE IF was THEN "offline" ELSE "unknown"

\* L takes over the state of the channel; OnRWChangeState runs if it changed.
\* was is libjingle's was_writable(): either value.
OnRWChangeState(t, was) ==
    \E signal \in {"read", "write"} :
        /\ Handles(t, signal)
        /\ LET r == IF signal = "read" THEN lib[t].chan_r ELSE lib[t].readable
               w == IF signal = "write" THEN lib[t].chan_w ELSE lib[t].writable
               changed == r # lib[t].readable \/ w # lib[t].writable
           IN  /\ lib' = [lib EXCEPT
                      ![t].readable = r, ![t].writable = w,
                      ![t].bound = @ \/ (changed /\ r /\ w)]
               /\ stat' = IF changed
                          THEN [stat EXCEPT ![t] = ConStatus(r, w, was)]
                          ELSE stat
        /\ UNCHANGED <<node, tables, alive, l, resp>>

-----------------------------------------------------------------------------
(* libjingle on W: gathering, the channel's state, connections.            *)

Post(t, signal) == [pending EXCEPT ![t] = Append(@, signal)]
Waiting(t, signal) == \E i \in 1..Len(pending[t]) : pending[t][i] = signal

\* A message is posted when the list of ready candidates was empty: the
\* messages behind it would find the list empty again.
GatherCandidate(t, c) ==
    /\ t \in alive
    /\ lib[t].signaled
    /\ c \notin lib[t].gathered
    /\ lib' = [lib EXCEPT ![t].gathered = @ \cup {c}, ![t].ready = @ \cup {c},
                          ![t].done = FALSE]
    /\ pending' = IF lib[t].ready = {} THEN Post(t, "ready") ELSE pending
    /\ UNCHANGED <<node, tables, alive, l, sent>>

AllocationDone(t) ==
    /\ t \in alive
    /\ lib[t].signaled
    /\ ~lib[t].done
    /\ lib' = [lib EXCEPT ![t].done = TRUE]
    /\ pending' = Post(t, "done")
    /\ UNCHANGED <<node, tables, alive, l, sent>>

\* The channel becomes, or stops being, readable or writable.  One message of
\* a kind is enough: a second one would find nothing new to report.
ChannelState(t, signal) ==
    /\ t \in alive
    /\ <<t, signal>> \in Flapping
    /\ lib[t].signaled
    /\ lib' = IF signal = "read" THEN [lib EXCEPT ![t].chan_r = ~@]
                                 ELSE [lib EXCEPT ![t].chan_w = ~@]
    /\ pending' = IF Waiting(t, signal)
                  THEN pending ELSE Post(t, signal)
    /\ UNCHANGED <<node, tables, alive, l, sent>>

\* A port creates a relay connection, which HandleConnectionSignal may prune.
HandleConnectionSignal(t) ==
    /\ t \in alive \cap Relayed
    /\ lib[t].bound
    /\ lib' = [lib EXCEPT ![t].relay =
                   IF trim_enabled THEN "pruned" ELSE "live"]
    /\ UNCHANGED <<node, tables, alive, pending, l, sent>>

-----------------------------------------------------------------------------
Request ==
    \/ \E u \in Uids, ok \in BOOLEAN : Setup(u, ok)
    \/ \E trim \in TrimInputs : SetTrim(trim)
    \/ \E u \in Uids, t \in Transports, overlay \in Overlays,
          sec \in BOOLEAN, cas \in Cas : CreateTransport(u, t, overlay, sec, cas)
    \/ \E u \in Uids, cas \in Cas : RetryLink(u, cas)
    \/ \E u \in Uids : DestroyTransport(u) \/ GetState(u)

Continue == FinishCreate \/ EraseLink \/ DestroyPeerState

Invoked_w == InsertTransportMap_w \/ DeleteTransportMap_w \/ GetChannelStats_w

HandleSignal(t) ==
    \/ OnRequestSignaling(t)
    \/ OnCandidatesReady(t)
    \/ OnCandidatesAllocationDone(t)
    \/ \E was \in BOOLEAN : OnRWChangeState(t, was)

Library(t) ==
    \/ \E c \in Candidates : GatherCandidate(t, c)
    \/ AllocationDone(t)
    \/ \E signal \in {"read", "write"} : ChannelState(t, signal)
    \/ HandleConnectionSignal(t)

Next ==
    \/ Request
    \/ Continue
    \/ Invoked_w
    \/ \E t \in Transports : HandleSignal(t) \/ Library(t)

Spec == Init /\ [][Next]_vars

\* L and W run whenever they have something to do.  L dispatches its queue in
\* order and looks at the controller's socket only when the queue is empty, so
\* a posted signal is handled even if requests keep coming: strong fairness.
Fairness ==
    /\ WF_vars(Continue)
    /\ WF_vars(Invoked_w)
    /\ \A t \in Transports : SF_vars(HandleSignal(t))

FairSpec == Spec /\ Fairness

-----------------------------------------------------------------------------
\* L is not inside an operation that invokes W.
Quiet == l.pc = "idle"

Uid(t) == transport_map[t]
Peer(t) == uid_map[transport_map[t]]
Injective == \A u, v \in Uids : Short[u] = Short[v] => u = v

\* W looks up short_uid_map_ for every packet and follows the pointer without
\* any lock: at no moment, whatever L is doing, does it hold a transport that
\* has been destroyed, or another life of its address that belongs to a peer
\* with another prefix (the comment in DestroyTransport is about this window).
NoDanglingShortUid ==
    \A s \in Shorts : short_uid_map[s] # NoTransport =>
        /\ short_uid_map[s] \in alive
        /\ Uid(short_uid_map[s]) # NoUid
        /\ Short[Uid(short_uid_map[s])] = s

\* While prefixes differ, every link can be reached by packets unless L is in
\* the middle of creating or destroying it: DestroyTransport of one link never
\* takes away the route of another.
RoutesComplete ==
    Injective =>
        \A u \in Uids :
            uid_map[u] # NoPeer /\ (Quiet \/ l.uid # u)
                => short_uid_map[Short[u]] = uid_map[u].transport

\* While prefixes differ, DeleteTransportMap_w finds its entry and it is that
\* of the link being destroyed: the branch marked "There is some bug here" is
\* not reached.
DeleteFindsRoute ==
    Injective /\ l.pc = "deleting" =>
        short_uid_map[Short[l.uid]] = l.transport

\* uid_map_ and transport_map_ are inverse to each other between operations
\* and account for every transport: none leaks, none is owned twice.
MapsAgree ==
    /\ \A u \in Uids : uid_map[u] # NoPeer => Uid(uid_map[u].transport) = u
    /\ \A t \in Transports : Uid(t) # NoUid =>
           uid_map[Uid(t)] # NoPeer /\ uid_map[Uid(t)].transport = t
    /\ Quiet => alive = {t \in Transports : Uid(t) # NoUid}

\* A signal is handled on L only for a transport that is still in both tables:
\* transport_map_[transport] and uid_map_[uid] never insert an empty entry and
\* never dereference it, although the signal was posted at any time before.
SignalsResolve ==
    \A t \in Transports : Quiet /\ pending[t] # <<>> =>
        Uid(t) # NoUid /\ uid_map[Uid(t)] # NoPeer /\ Peer(t).transport = t

\* A DTLS transport points into identity_: the certificate it was given is
\* still the manager's, which is also the one whose fingerprint goes out.
DtlsIdentityAlive ==
    \A u \in Uids : uid_map[u] # NoPeer /\ uid_map[u].security = "dtls" =>
        uid_map[u].identity = identity /\ identity # NoUid

\* Once the end of the allocation has been handled, the con_resp sent last
\* carries every candidate gathered outside the tap, to the peer of the link
\* and over its overlay, and the fingerprint of the certificate a DTLS link was
\* built with: none is lost between W's list and the message.
AnnouncementComplete ==
    \A t \in alive :
        /\ lib[t].done
        /\ Uid(t) # NoUid
        /\ ~Waiting(t, "done")
        => /\ resp[t].to = Uid(t)
           /\ resp[t].overlay = Peer(t).overlay
           /\ resp[t].cands = lib[t].gathered \ TapCandidates
           /\ Peer(t).security = "dtls" => resp[t].fpr = Peer(t).identity

\* Once L has handled every state message, the last con_stat the controller got
\* for the link says online exactly when the channel is readable and writable,
\* however often either flag changed while the messages were waiting.
StatusTruthful ==
    \A t \in alive :
        ~Waiting(t, "read") /\ ~Waiting(t, "write")
            => (stat[t] = "online" <=> lib[t].chan_r /\ lib[t].chan_w)

\* The two ways the controller learns of a link agree: what GET_STATE reports
\* (StateToJson) is what the last con_stat callback (OnRWChangeState) said.
ReportsAgree ==
    \A u \in Uids : uid_map[u] # NoPeer =>
        (StateToJson(u) = "online" <=> stat[uid_map[u].transport] = "online")

\* HandleConnectionSignal, by its comment, runs after a connection is already
\* online, so that the relay connection it prunes is not needed.
RelayPrunedOnlyOnline ==
    [][\A t \in Transports :
          lib'[t].relay = "pruned" /\ lib[t].relay # "pruned"
              => lib[t].chan_r /\ lib[t].chan_w]_vars

\* A finished allocation is announced to the peer unless the link is destroyed
\* or gathering starts again: the message is not lost in the queue of L.
LinkAnnounced ==
    \A t \in Transports :
        t \in alive /\ lib[t].done
            ~> t \notin alive \/ ~lib[t].done \/ resp[t] # NoResponse

\* A change of the channel reaches the controller: whenever the channel has
\* come up, in the end it goes down again, the link is destroyed, or the
\* controller has been told that the link is online.
OnlineReported ==
    \A t \in Transports :
        t \in alive /\ lib[t].chan_r /\ lib[t].chan_w
            ~> t \notin alive \/ ~(lib[t].chan_r /\ lib[t].chan_w)
               \/ stat[t] = "online"

-----------------------------------------------------------------------------
(* The promise to the packet handling thread.                              *)

Routed(t) == \E s \in Shorts : short_uid_map[s] = t

Life ==
    [t \in Transports |->
        IF t \notin alive THEN "free"
        ELSE IF Routed(t) THEN "routed"
        ELSE IF l.pc = "inserting" /\ l.transport = t THEN "built"
        ELSE "retired"]

Lifecycle == INSTANCE TransportLifecycle WITH life <- Life

\* With distinct prefixes the tables and the two Invokes implement the life
\* cycle: a transport is withdrawn from W before it is destroyed, published
\* only once built, and every operation that L begins is completed.
ImplementsLifecycle == Lifecycle!FairSpec
=============================================================================
