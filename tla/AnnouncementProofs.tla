------------------------- MODULE AnnouncementProofs -------------------------
(***************************************************************************)
(* Proofs about the candidates of LinkManager: none is lost between the    *)
(* list that W fills and the con_resp that L sends.                        *)
(***************************************************************************)
EXTENDS LinkManagerProofs

-----------------------------------------------------------------------------
(* The inductive invariant, transport by transport.                        *)

\* Every message about candidates in the queue has an end of the allocation
\* behind it.
Followed(q) ==
    \A i \in 1..Len(q) : q[i] = "ready" =>
        \E j \in 1..Len(q) : j > i /\ q[j] = "done"

\* Candidates that are ready have a message on the way to L, and while the
\* allocation is done its end is posted behind it.
ReadyIsPosted(t) ==
    /\ lib[t].ready \subseteq lib[t].gathered
    /\ lib[t].ready # {} => Waiting(t, "ready")
    /\ lib[t].done => Followed(pending[t])

\* The link's list holds what L has taken over.
ListTaken(t) ==
    Uid(t) # NoUid =>
        Peer(t).candidate_list = (lib[t].gathered \ lib[t].ready) \ TapCandidates

\* AnnouncementComplete for one address.
Announced(t) ==
    lib[t].done /\ Uid(t) # NoUid /\ ~Waiting(t, "done") =>
        /\ resp[t].to = Uid(t)
        /\ resp[t].overlay = Peer(t).overlay
        /\ resp[t].cands = lib[t].gathered \ TapCandidates
        /\ Peer(t).security = "dtls" => resp[t].fpr = Peer(t).identity

\* An address that holds no transport has no candidates.
NothingLeft(t) == t \notin alive => lib[t].gathered = {} /\ ~lib[t].done

AnnounceOf(t) == ReadyIsPosted(t) /\ ListTaken(t) /\ Announced(t) /\ NothingLeft(t)

AnnounceInv == \A t \in Transports : AnnounceOf(t)

-----------------------------------------------------------------------------
(* Lemmas about queues.                                                    *)

\* Handling the first message leaves the order of the others.
LEMMA TailFollowed ==
    ASSUME NEW S, NEW q \in Seq(S), q # <<>>, Followed(q)
    PROVE  Followed(Tail(q))
<1>1. /\ Len(q) \in Nat /\ Len(Tail(q)) = Len(q) - 1
      /\ \A i \in 1..Len(Tail(q)) : Tail(q)[i] = q[i + 1]
  OBVIOUS
<1>2. ASSUME NEW i \in 1..Len(Tail(q)), Tail(q)[i] = "ready"
      PROVE  \E j \in 1..Len(Tail(q)) : j > i /\ Tail(q)[j] = "done"
  <2>1. i + 1 \in 1..Len(q) /\ q[i + 1] = "ready"
    BY <1>1, <1>2
  <2>2. PICK j \in 1..Len(q) : j > i + 1 /\ q[j] = "done"
    BY <2>1 DEF Followed
  <2>3. j - 1 \in 1..Len(Tail(q)) /\ j - 1 > i /\ Tail(q)[j - 1] = q[j]
    BY <1>1, <2>2
  <2>4. QED
    BY <2>2, <2>3
<1>3. QED
  BY <1>2 DEF Followed

\* A message about anything but candidates may be posted behind the others.
LEMMA AppendFollowed ==
    ASSUME NEW S, NEW q \in Seq(S), NEW y \in S, y # "ready", y = "done" \/ Followed(q)
    PROVE  Followed(Append(q, y))
<1> DEFINE r == Append(q, y)
<1>1. /\ Len(q) \in Nat /\ Len(r) = Len(q) + 1 /\ r[Len(q) + 1] = y
      /\ \A i \in 1..Len(q) : r[i] = q[i]
  OBVIOUS
<1>2. ASSUME NEW i \in 1..Len(r), r[i] = "ready"
      PROVE  \E j \in 1..Len(r) : j > i /\ r[j] = "done"
  <2>1. i \in 1..Len(q) /\ q[i] = "ready"
    BY <1>1, <1>2
  <2>2. CASE y = "done"
    <3>1. Len(q) + 1 \in 1..Len(r) /\ Len(q) + 1 > i /\ r[Len(q) + 1] = "done"
      BY <1>1, <2>1, <2>2
    <3>2. QED
      BY <3>1
  <2>3. CASE Followed(q)
    <3>1. PICK j \in 1..Len(q) : j > i /\ q[j] = "done"
      BY <2>1, <2>3 DEF Followed
    <3>2. j \in 1..Len(r) /\ r[j] = "done"
      BY <1>1, <3>1
    <3>3. QED
      BY <3>1, <3>2
  <2>4. QED
    BY <2>2, <2>3
<1> HIDE DEF r
<1>3. Followed(r)
  BY <1>2 DEF Followed
<1>4. QED
  BY <1>3 DEF r

\* When the last end of the allocation is taken, no candidates wait.
LEMMA LastDone ==
    ASSUME NEW S, NEW q \in Seq(S), q # <<>>, Followed(q),
           ~\E i \in 1..Len(Tail(q)) : Tail(q)[i] = "done"
    PROVE  ~\E i \in 1..Len(q) : q[i] = "ready"
<1> SUFFICES ASSUME NEW i \in 1..Len(q), q[i] = "ready" PROVE FALSE
  OBVIOUS
<1>1. PICK j \in 1..Len(q) : j > i /\ q[j] = "done"
  BY DEF Followed
<1>2. j - 1 \in 1..Len(Tail(q)) /\ Tail(q)[j - 1] = q[j]
  BY <1>1
<1>3. QED
  BY <1>1, <1>2

-----------------------------------------------------------------------------
(* The steps.                                                              *)

\* What the con_resp says of the link is the same after the step, unless the
\* link is gone.
LinkStays(t) ==
    Uid(t)' # NoUid =>
        /\ Uid(t)' = Uid(t)
        /\ Peer(t)'.candidate_list = Peer(t).candidate_list
        /\ Peer(t)'.overlay = Peer(t).overlay
        /\ Peer(t)'.security = Peer(t).security
        /\ Peer(t)'.identity = Peer(t).identity

\* The candidates of the transport are the same after the step.
CandidatesStay(t) ==
    /\ lib'[t].ready = lib[t].ready
    /\ lib'[t].gathered = lib[t].gathered
    /\ lib'[t].done = lib[t].done
    /\ resp'[t] = resp[t]
    /\ t \in alive => t \in alive'

\* No message about candidates is taken, and none is posted.
OrderStays(t) ==
    /\ Waiting(t, "ready") => Waiting(t, "ready")'
    /\ Waiting(t, "done") => Waiting(t, "done")'
    /\ Followed(pending[t]) => Followed(pending[t])'

\* A step that leaves link, candidates and order alone keeps the announcement.
LEMMA AnnounceKept ==
    ASSUME NEW t \in Transports, AnnounceOf(t), LinkStays(t), CandidatesStay(t), OrderStays(t)
    PROVE  AnnounceOf(t)'
<1>1. ReadyIsPosted(t)'
  BY DEF AnnounceOf, ReadyIsPosted, CandidatesStay, OrderStays
<1>2. ListTaken(t)'
  BY DEF AnnounceOf, ListTaken, CandidatesStay, LinkStays
<1>3. Announced(t)'
  BY DEF AnnounceOf, Announced, CandidatesStay, LinkStays, OrderStays
<1>4. NothingLeft(t)'
  BY DEF AnnounceOf, NothingLeft, CandidatesStay
<1>5. QED
  BY <1>1, <1>2, <1>3, <1>4 DEF AnnounceOf

\* The queue is the same after the step.
LEMMA SameOrder ==
    ASSUME NEW t \in Transports, pending'[t] = pending[t]
    PROVE  OrderStays(t)
BY DEF OrderStays, Waiting

\* Taking one message leaves those of other kinds waiting.
LEMMA HandledWaits ==
    ASSUME TypeOK, NEW t \in Transports, NEW signal, NEW other, other # signal,
           Handles(t, signal), Waiting(t, other)
    PROVE  Waiting(t, other)'
<1>1. pending[t] \in Seq(Signals)
  BY DEF TypeOK
<1>2. pending[t] # <<>> /\ Head(pending[t]) = signal /\ pending'[t] = Tail(pending[t])
  BY DEF Handles, TypeOK
<1>3. Head(pending[t]) # other /\ \E i \in 1..Len(pending[t]) : pending[t][i] = other
  BY <1>2 DEF Waiting
<1>4. \E i \in 1..Len(Tail(pending[t])) : Tail(pending[t])[i] = other
  BY <1>1, <1>2, <1>3, TailKeeps
<1>5. QED
  BY <1>2, <1>4 DEF Waiting

\* Taking a message that is not about candidates, or a message of another
\* transport, keeps the order.
LEMMA HandledOrder ==
    ASSUME TypeOK, NEW t \in Transports, NEW x \in Transports, NEW signal,
           Handles(t, signal), t # x \/ signal \notin {"ready", "done"}
    PROVE  OrderStays(x)
<1>1. pending[x] \in Seq(Signals) /\ pending \in [Transports -> Seq(Signals)]
  BY DEF TypeOK
<1>2. CASE t # x
  BY <1>1, <1>2, SameOrder DEF Handles
<1>3. CASE t = x
  <2>1. pending[x] # <<>> /\ Head(pending[x]) = signal /\ pending'[x] = Tail(pending[x])
    BY <1>1, <1>3 DEF Handles
  <2>2. Followed(pending[x]) => Followed(pending'[x])
    BY <1>1, <2>1, TailFollowed
  <2>3. ASSUME NEW other \in {"ready", "done"}, Waiting(x, other) PROVE Waiting(x, other)'
    BY <1>3, <2>3, HandledWaits
  <2>4. QED
    BY <2>2, <2>3 DEF OrderStays
<1>4. QED
  BY <1>2, <1>3

\* Posting a message that is not about candidates, or one of another transport,
\* keeps the order; the message waits.
LEMMA PostedOrder ==
    ASSUME TypeOK, NEW t \in Transports, NEW x \in Transports, NEW signal \in Signals,
           pending' = Post(t, signal)
    PROVE  /\ t # x \/ signal # "ready" => OrderStays(x)
           /\ Waiting(t, signal)'
           /\ signal = "done" => Followed(pending[t])'
<1>1. /\ pending[x] \in Seq(Signals) /\ pending[t] \in Seq(Signals)
      /\ pending'[t] = Append(pending[t], signal)
      /\ t # x => pending'[x] = pending[x]
  BY DEF TypeOK, Post
<1>2. Waiting(t, signal)'
  BY <1>1, AppendKeeps DEF Waiting
<1>3. signal = "done" => Followed(pending[t])'
  BY <1>1, AppendFollowed
<1>4. CASE t # x
  BY <1>1, <1>2, <1>3, <1>4, SameOrder
<1>5. CASE t = x
  <2>1. \A other : Waiting(x, other) => Waiting(x, other)'
    BY <1>1, <1>5, AppendKeeps DEF Waiting
  <2>2. signal # "ready" /\ Followed(pending[x]) => Followed(pending[x])'
    BY <1>1, <1>5, AppendFollowed
  <2>3. QED
    BY <1>2, <1>3, <1>5, <2>1, <2>2 DEF OrderStays
<1>6. QED
  BY <1>4, <1>5

\* Nothing has been gathered before the first link exists.
LEMMA InitAnnounce == Init => AnnounceInv
<1> SUFFICES ASSUME Init, NEW t \in Transports PROVE AnnounceOf(t)
  BY DEF AnnounceInv
<1>1. lib[t] = NewLib /\ Uid(t) = NoUid
  BY DEF Init, Uid
<1>2. lib[t].ready = {} /\ lib[t].gathered = {} /\ ~lib[t].done
  BY <1>1 DEF NewLib
<1>3. QED
  BY <1>1, <1>2 DEF AnnounceOf, ReadyIsPosted, ListTaken, Announced, NothingLeft

\* Two transports are never links to the same peer.
LEMMA OwnPeer ==
    ASSUME IInv, NEW t \in Transports, NEW x \in Transports, t # x, Uid(x) # NoUid
    PROVE  Uid(x) # Uid(t)
BY DEF IInv, TablesInverse

\* CreateConnections leaves the list of local candidates alone.
LEMMA CandidatesHanded ==
    ASSUME IInv, NEW u \in Uids, NEW cas, uid_map' = Connected(u, cas),
           transport_map' = transport_map, NEW x \in Transports
    PROVE  LinkStays(x)
<1> USE DEF IInv
<1>1. Uid(x)' = Uid(x) /\ (Uid(x) # NoUid => Uid(x) \in Uids /\ uid_map[Uid(x)] \in PeerState)
  <2>1. Uid(x) # NoUid => Uid(x) \in Uids /\ uid_map[Uid(x)] # NoPeer
    BY TableEntries DEF TablesInverse
  <2>2. QED
    BY <2>1, TableEntries DEF Uid
<1>2. Uid(x) # NoUid =>
          \/ uid_map'[Uid(x)] = uid_map[Uid(x)]
          \/ uid_map'[Uid(x)] = [uid_map[Uid(x)] EXCEPT !.candidates = ParseCandidates(cas)]
  BY <1>1 DEF Connected, TypeOK
<1>3. QED
  BY <1>1, <1>2 DEF LinkStays, PeerState, Peer, Uid

\* A request of the controller: a new link starts with empty lists, and the
\* others keep theirs.
LEMMA RequestAnnounce ==
    ASSUME IInv, AnnounceInv, Request, NEW x \in Transports
    PROVE  AnnounceOf(x)'
<1> USE DEF IInv
<1>1. AnnounceOf(x) /\ pending \in [Transports -> Seq(Signals)]
  BY DEF AnnounceInv, TypeOK
<1>2. ASSUME UNCHANGED <<tables, alive, lib, pending, resp>> PROVE AnnounceOf(x)'
  <2>1. LinkStays(x) /\ CandidatesStay(x) /\ OrderStays(x)
    BY <1>2, SameOrder DEF LinkStays, CandidatesStay, tables, Uid, Peer
  <2>2. QED
    BY <1>1, <2>1, AnnounceKept
<1>3. ASSUME NEW u \in Uids, NEW t \in Transports, NEW overlay \in Overlays,
             NEW sec \in BOOLEAN, NEW cas \in Cas, CreateTransport(u, t, overlay, sec, cas)
      PROVE  AnnounceOf(x)'
  <2>1. /\ lib' = lib /\ resp' = resp /\ t \notin alive /\ alive' = alive \cup {t}
        /\ pending' = [pending EXCEPT ![t] = <<"signaling">>]
        /\ uid_map' = [uid_map EXCEPT ![u] = NewPeer(u, t, overlay, sec)]
        /\ transport_map' = [transport_map EXCEPT ![t] = u]
        /\ uid_map[u] = NoPeer
    BY <1>3 DEF CreateTransport, Refused, sent
  <2>2. CASE t = x
    <3>1. lib[x].gathered = {} /\ lib[x].ready = {} /\ ~lib[x].done
      BY <1>1, <2>1, <2>2 DEF AnnounceOf, NothingLeft, ReadyIsPosted
    <3>2. Uid(x)' = u /\ Peer(x)' = NewPeer(u, t, overlay, sec)
      BY <2>1, <2>2 DEF TypeOK, Uid, Peer
    <3>3. Peer(x)'.candidate_list = {}
      BY <3>2 DEF NewPeer
    <3>4. QED
      BY <2>1, <2>2, <3>1, <3>3
         DEF AnnounceOf, ReadyIsPosted, ListTaken, Announced, NothingLeft
  <2>3. CASE t # x
    <3>1. Uid(x)' = Uid(x) /\ pending'[x] = pending[x]
      BY <1>1, <2>1, <2>3 DEF TypeOK, Uid
    <3>2. Uid(x) # NoUid => Uid(x) # u /\ Uid(x) \in Uids
      BY <2>1, TableEntries DEF TablesInverse
    <3>3. LinkStays(x)
      BY <2>1, <3>1, <3>2 DEF LinkStays, TypeOK, Uid, Peer
    <3>4. CandidatesStay(x) /\ OrderStays(x)
      BY <2>1, <3>1, SameOrder DEF CandidatesStay
    <3>5. QED
      BY <1>1, <3>3, <3>4, AnnounceKept
  <2>4. QED
    BY <2>2, <2>3
<1>4. ASSUME NEW u \in Uids, NEW cas, uid_map' = Connected(u, cas),
             UNCHANGED <<transport_map, alive, lib, pending, resp>>
      PROVE  AnnounceOf(x)'
  <2>1. LinkStays(x)
    BY <1>4, CandidatesHanded
  <2>2. CandidatesStay(x) /\ OrderStays(x)
    BY <1>4, SameOrder DEF CandidatesStay
  <2>3. QED
    BY <1>1, <2>1, <2>2, AnnounceKept
<1>5. QED
  BY <1>2, <1>3, <1>4 DEF Request, Setup, SetTrim, RetryLink, DestroyTransport, GetState, sent

\* The rest of an operation of L: an erased link leaves both tables, and what
\* the destructor of its transport clears can be used again.
LEMMA OperationAnnounce ==
    ASSUME IInv, AnnounceInv, Continue \/ Invoked_w, NEW x \in Transports
    PROVE  AnnounceOf(x)'
<1> USE DEF IInv
<1>1. AnnounceOf(x) /\ pending \in [Transports -> Seq(Signals)]
  BY DEF AnnounceInv, TypeOK
<1>2. CASE FinishCreate
  <2>1. LinkStays(x)
    <3>1. l.uid \in Uids /\ uid_map' = Connected(l.uid, l.cas) /\ transport_map' = transport_map
      BY <1>2, OperationCases DEF FinishCreate
    <3>2. QED
      BY <3>1, CandidatesHanded
  <2>2. CandidatesStay(x) /\ OrderStays(x)
    BY <1>2, SameOrder DEF CandidatesStay, FinishCreate, sent
  <2>3. QED
    BY <1>1, <2>1, <2>2, AnnounceKept
<1>3. CASE EraseLink
  <2>1. /\ l.pc = "deleted" /\ l.uid \in Uids /\ l.transport \in Transports
        /\ transport_map' = [transport_map EXCEPT ![l.transport] = NoUid]
        /\ uid_map' = [uid_map EXCEPT ![l.uid] = NoPeer]
    BY <1>3, OperationCases DEF EraseLink
  <2>2. Uid(x)' # NoUid => x # l.transport /\ Uid(x)' = Uid(x)
    BY <2>1 DEF TypeOK, Uid
  <2>3. Uid(x)' # NoUid => Uid(x) # l.uid /\ Uid(x) \in Uids
    BY <2>1, <2>2, TableEntries DEF TablesInverse, LinkInProgress
  <2>4. LinkStays(x)
    BY <2>1, <2>2, <2>3 DEF LinkStays, TypeOK, Uid, Peer
  <2>5. CandidatesStay(x) /\ OrderStays(x)
    BY <1>3, SameOrder DEF CandidatesStay, EraseLink, sent
  <2>6. QED
    BY <1>1, <2>4, <2>5, AnnounceKept
<1>4. CASE DestroyPeerState
  <2>1. /\ l.pc = "destroying" /\ l.transport \in Transports
        /\ alive' = alive \ {l.transport}
        /\ pending' = [pending EXCEPT ![l.transport] = <<>>]
        /\ lib' = [lib EXCEPT ![l.transport] = NewLib]
        /\ resp' = [resp EXCEPT ![l.transport] = NoResponse]
        /\ uid_map' = uid_map /\ transport_map' = transport_map
    BY <1>4, OperationCases DEF DestroyPeerState, tables
  <2>2. CASE x = l.transport
    <3>1. Uid(x)' = NoUid
      BY <2>1, <2>2 DEF AliveExact, Uid
    <3>2. lib'[x].ready = {} /\ lib'[x].gathered = {} /\ ~lib'[x].done
      BY <2>1, <2>2 DEF TypeOK, NewLib
    <3>3. QED
      BY <3>1, <3>2 DEF AnnounceOf, ReadyIsPosted, ListTaken, Announced, NothingLeft
  <2>3. CASE x # l.transport
    <3>1. LinkStays(x)
      BY <2>1 DEF LinkStays, Uid, Peer
    <3>2. CandidatesStay(x) /\ OrderStays(x)
      BY <1>1, <2>1, <2>3, SameOrder DEF CandidatesStay, TypeOK
    <3>3. QED
      BY <1>1, <3>1, <3>2, AnnounceKept
  <2>4. QED
    BY <2>2, <2>3
<1>5. CASE Invoked_w
  <2>1. UNCHANGED <<uid_map, transport_map, alive, lib, pending, resp>>
    BY <1>5 DEF Invoked_w, InsertTransportMap_w, DeleteTransportMap_w, GetChannelStats_w,
       tables, sent
  <2>2. LinkStays(x) /\ CandidatesStay(x) /\ OrderStays(x)
    BY <2>1, SameOrder DEF LinkStays, CandidatesStay, Uid, Peer
  <2>3. QED
    BY <1>1, <2>2, AnnounceKept
<1>6. QED
  BY <1>2, <1>3, <1>4, <1>5 DEF Continue

\* A signal is handled for a transport that lives and has a peer.
LEMMA HandledPeer ==
    ASSUME IInv, NEW t \in Transports, NEW signal, Handles(t, signal)
    PROVE  t \in alive /\ Uid(t) # NoUid /\ Uid(t) \in Uids /\ uid_map[Uid(t)] \in PeerState
<1> USE DEF IInv
<1>1. l.pc = "idle" /\ pending[t] # <<>>
  BY DEF Handles
<1>2. t \in alive /\ Uid(t) # NoUid
  BY <1>1 DEF DeadAreSilent, AliveExact
<1>3. Uid(t) \in Uids /\ uid_map[Uid(t)] # NoPeer
  BY <1>2, TableEntries DEF TablesInverse
<1>4. QED
  BY <1>2, <1>3, TableEntries

\* OnCandidatesReady moves every ready candidate to the list of the link.
LEMMA ReadyAnnounce ==
    ASSUME IInv, AnnounceInv, NEW t \in Transports, OnCandidatesReady(t), NEW x \in Transports
    PROVE  AnnounceOf(x)'
<1> USE DEF IInv
<1>1. AnnounceOf(x)
  BY DEF AnnounceInv
<1>2. /\ Handles(t, "ready") /\ lib' = [lib EXCEPT ![t] = [lib[t] EXCEPT !.ready = {}]]
      /\ uid_map' = [uid_map EXCEPT ![Uid(t)].candidate_list = @ \cup (lib[t].ready \ TapCandidates)]
      /\ UNCHANGED <<transport_map, alive, resp>>
  BY DEF OnCandidatesReady, sent, Uid
<1>3. /\ Uid(t) # NoUid /\ Uid(t) \in Uids /\ uid_map[Uid(t)] \in PeerState
      /\ lib \in [Transports -> LibState] /\ pending \in [Transports -> Seq(Signals)]
  BY <1>2, HandledPeer DEF TypeOK
<1>4. Uid(x)' = Uid(x)
  BY <1>2 DEF Uid
<1>5. CASE t = x
  <2>1. /\ lib'[x].ready = {} /\ lib'[x].gathered = lib[x].gathered
        /\ lib'[x].done = lib[x].done
    BY <1>2, <1>3, <1>5 DEF LibState
  <2>2. /\ Peer(x)'.candidate_list = Peer(x).candidate_list \cup (lib[x].ready \ TapCandidates)
        /\ Peer(x)'.overlay = Peer(x).overlay
        /\ Peer(x)'.security = Peer(x).security /\ Peer(x)'.identity = Peer(x).identity
    BY <1>2, <1>3, <1>4, <1>5 DEF TypeOK, PeerState, Peer, Uid
  <2>3. /\ pending[x] # <<>> /\ Head(pending[x]) = "ready" /\ pending'[x] = Tail(pending[x])
    BY <1>2, <1>3, <1>5 DEF Handles
  <2>4. Followed(pending[x]) => Followed(pending'[x])
    BY <1>3, <2>3, TailFollowed
  <2>5. Waiting(x, "done") => Waiting(x, "done")'
    BY <1>2, <1>5, HandledWaits
  <2>6. ReadyIsPosted(x)'
    BY <1>1, <2>1, <2>4 DEF AnnounceOf, ReadyIsPosted
  <2>7. ListTaken(x)'
    BY <1>1, <1>4, <2>1, <2>2 DEF AnnounceOf, ReadyIsPosted, ListTaken
  <2>8. Announced(x)'
    BY <1>1, <1>2, <1>4, <2>1, <2>2, <2>5 DEF AnnounceOf, Announced
  <2>9. NothingLeft(x)'
    BY <1>1, <1>2, <2>1 DEF AnnounceOf, NothingLeft
  <2>10. QED
    BY <2>6, <2>7, <2>8, <2>9 DEF AnnounceOf
<1>6. CASE t # x
  <2>1. Uid(x) # NoUid => Uid(x) # Uid(t)
    BY <1>6, OwnPeer
  <2>2. LinkStays(x)
    BY <1>2, <1>4, <2>1, TableEntries DEF LinkStays, TypeOK, Peer, Uid
  <2>3. CandidatesStay(x) /\ OrderStays(x)
    BY <1>2, <1>3, <1>6, HandledOrder DEF CandidatesStay
  <2>4. QED
    BY <1>1, <2>2, <2>3, AnnounceKept
<1>7. QED
  BY <1>5, <1>6

\* OnCandidatesAllocationDone sends the whole list when the end it handles is
\* the last one posted; an earlier one is sent again later.
LEMMA DoneAnnounce ==
    ASSUME IInv, AnnounceInv, NEW t \in Transports, OnCandidatesAllocationDone(t),
           NEW x \in Transports
    PROVE  AnnounceOf(x)'
<1> USE DEF IInv
<1>1. AnnounceOf(x)
  BY DEF AnnounceInv
<1>2. /\ Handles(t, "done") /\ UNCHANGED <<uid_map, transport_map, alive, lib>>
      /\ resp' = [resp EXCEPT ![t] = [to |-> Uid(t), overlay |-> Peer(t).overlay,
                                      fpr |-> identity, cands |-> Peer(t).candidate_list]]
  BY DEF OnCandidatesAllocationDone, Uid, Peer, tables
<1>3. /\ Uid(t) # NoUid /\ Uid(t) \in Uids /\ uid_map[Uid(t)] # NoPeer
      /\ resp \in [Transports -> Responses \cup {NoResponse}]
      /\ pending \in [Transports -> Seq(Signals)]
  BY <1>2, HandledPeer, NoPeerAssumption DEF TypeOK
<1>4. LinkStays(x)
  BY <1>2 DEF LinkStays, Uid, Peer
<1>5. CASE t = x
  <2>1. pending[x] # <<>> /\ Head(pending[x]) = "done" /\ pending'[x] = Tail(pending[x])
    BY <1>2, <1>3, <1>5 DEF Handles
  <2>2. /\ resp'[x].to = Uid(x) /\ resp'[x].overlay = Peer(x).overlay
        /\ resp'[x].cands = Peer(x).candidate_list /\ resp'[x].fpr = identity
    BY <1>2, <1>3, <1>5
  <2>3. ReadyIsPosted(x)'
    <3>1. Followed(pending[x]) => Followed(pending'[x])
      BY <1>3, <2>1, TailFollowed
    <3>2. Waiting(x, "ready") => Waiting(x, "ready")'
      BY <1>2, <1>5, HandledWaits
    <3>3. QED
      BY <1>1, <1>2, <3>1, <3>2 DEF AnnounceOf, ReadyIsPosted
  <2>4. ListTaken(x)' /\ NothingLeft(x)'
    BY <1>1, <1>2 DEF AnnounceOf, ListTaken, NothingLeft, Uid, Peer
  <2>5. Announced(x)'
    <3>1. SUFFICES ASSUME lib[x].done, ~Waiting(x, "done")'
                   PROVE  /\ resp'[x].to = Uid(x) /\ resp'[x].overlay = Peer(x).overlay
                          /\ resp'[x].cands = lib[x].gathered \ TapCandidates
                          /\ Peer(x).security = "dtls" => resp'[x].fpr = Peer(x).identity
      BY <1>2 DEF Announced, Uid, Peer
    <3>2. ~\E i \in 1..Len(Tail(pending[x])) : Tail(pending[x])[i] = "done"
      BY <2>1, <3>1 DEF Waiting
    <3>3. Followed(pending[x])
      BY <1>1, <3>1 DEF AnnounceOf, ReadyIsPosted
    <3>4. ~Waiting(x, "ready")
      BY <1>3, <2>1, <3>2, <3>3, LastDone DEF Waiting
    <3>5. lib[x].ready = {}
      BY <1>1, <3>4 DEF AnnounceOf, ReadyIsPosted
    <3>6. Peer(x).candidate_list = lib[x].gathered \ TapCandidates
      BY <1>1, <1>3, <1>5, <3>5 DEF AnnounceOf, ListTaken
    <3>7. Peer(x).security = "dtls" => Peer(x).identity = identity
      BY <1>3, <1>5 DEF DtlsIdentityAlive, Peer, Uid
    <3>8. QED
      BY <2>2, <3>6, <3>7
  <2>6. QED
    BY <2>3, <2>4, <2>5 DEF AnnounceOf
<1>6. CASE t # x
  <2>1. CandidatesStay(x) /\ OrderStays(x)
    BY <1>2, <1>3, <1>6, HandledOrder DEF CandidatesStay
  <2>2. QED
    BY <1>1, <1>4, <2>1, AnnounceKept
<1>7. QED
  BY <1>5, <1>6

\* The other signals have nothing to do with candidates.
LEMMA OtherSignalAnnounce ==
    ASSUME IInv, AnnounceInv, NEW t \in Transports,
           OnRequestSignaling(t) \/ (\E was \in BOOLEAN : OnRWChangeState(t, was)),
           NEW x \in Transports
    PROVE  AnnounceOf(x)'
<1>1. AnnounceOf(x) /\ TypeOK
  BY DEF AnnounceInv, IInv
<1>2. /\ \E signal \in {"signaling", "read", "write"} : Handles(t, signal)
      /\ UNCHANGED <<tables, alive, resp>>
  BY DEF OnRequestSignaling, OnRWChangeState, sent
<1>3. /\ lib'[x].ready = lib[x].ready /\ lib'[x].gathered = lib[x].gathered
      /\ lib'[x].done = lib[x].done
  <2>1. lib \in [Transports -> LibState]
    BY <1>1 DEF TypeOK
  <2>2. CASE OnRequestSignaling(t)
    BY <2>1, <2>2 DEF OnRequestSignaling, LibState
  <2>3. CASE \E was \in BOOLEAN : OnRWChangeState(t, was)
    <3> DEFINE R(signal) == IF signal = "read" THEN lib[t].chan_r ELSE lib[t].readable
               W(signal) == IF signal = "write" THEN lib[t].chan_w ELSE lib[t].writable
               Changed(signal) == R(signal) # lib[t].readable \/ W(signal) # lib[t].writable
    <3>1. PICK signal \in {"read", "write"} :
              lib' = [lib EXCEPT ![t].readable = R(signal), ![t].writable = W(signal),
                          ![t].bound = @ \/ (Changed(signal) /\ R(signal) /\ W(signal))]
      BY <2>3 DEF OnRWChangeState
    <3> HIDE DEF R, W, Changed
    <3>2. QED
      BY <2>1, <3>1 DEF LibState
  <2>4. QED
    BY <2>2, <2>3
<1>4. LinkStays(x) /\ CandidatesStay(x)
  BY <1>2, <1>3 DEF LinkStays, CandidatesStay, tables, Uid, Peer
<1>5. OrderStays(x)
  BY <1>1, <1>2, HandledOrder
<1>6. QED
  BY <1>1, <1>4, <1>5, AnnounceKept

\* A new candidate is ready, and a message is on the way that will fetch it.
LEMMA GatherAnnounce ==
    ASSUME IInv, AnnounceInv, NEW t \in Transports, NEW c \in Candidates,
           GatherCandidate(t, c), NEW x \in Transports
    PROVE  AnnounceOf(x)'
<1>1. AnnounceOf(x) /\ TypeOK /\ lib \in [Transports -> LibState]
  BY DEF AnnounceInv, IInv, TypeOK
<1>2. /\ t \in alive /\ c \notin lib[t].gathered
      /\ lib' = [lib EXCEPT ![t] = [lib[t] EXCEPT !.gathered = @ \cup {c},
                                        !.ready = @ \cup {c}, !.done = FALSE]]
      /\ lib[t].ready = {} => pending' = Post(t, "ready")
      /\ lib[t].ready # {} => pending' = pending
      /\ UNCHANGED <<uid_map, transport_map, alive, resp>>
  BY DEF GatherCandidate, tables, sent
<1>3. LinkStays(x)
  BY <1>2 DEF LinkStays, Uid, Peer
<1>4. CASE t = x
  <2>1. /\ lib'[x].gathered = lib[x].gathered \cup {c} /\ lib'[x].ready = lib[x].ready \cup {c}
        /\ ~lib'[x].done
    BY <1>1, <1>2, <1>4 DEF LibState
  <2>2. Waiting(x, "ready")'
    <3>1. CASE lib[x].ready = {}
      <4>1. pending' = Post(t, "ready") /\ "ready" \in Signals
        BY <1>2, <1>4, <3>1 DEF Signals
      <4>2. QED
        BY <1>1, <1>4, <4>1, PostedOrder
    <3>2. CASE lib[x].ready # {}
      BY <1>1, <1>2, <1>4, <3>2 DEF AnnounceOf, ReadyIsPosted, Waiting
    <3>3. QED
      BY <3>1, <3>2
  <2>3. ReadyIsPosted(x)' /\ Announced(x)'
    BY <1>1, <2>1, <2>2 DEF AnnounceOf, ReadyIsPosted, Announced
  <2>4. ListTaken(x)'
    <3>1. lib'[x].gathered \ lib'[x].ready = lib[x].gathered \ lib[x].ready
      BY <1>2, <1>4, <2>1
    <3>2. QED
      BY <1>1, <1>3, <3>1 DEF AnnounceOf, ListTaken, LinkStays
  <2>5. NothingLeft(x)'
    BY <1>2, <1>4 DEF NothingLeft
  <2>6. QED
    BY <2>3, <2>4, <2>5 DEF AnnounceOf
<1>5. CASE t # x
  <2>1. OrderStays(x)
    <3>1. CASE pending' = pending
      BY <3>1, SameOrder
    <3>2. CASE pending' = Post(t, "ready")
      <4>1. "ready" \in Signals
        BY DEF Signals
      <4>2. QED
        BY <1>1, <1>5, <3>2, <4>1, PostedOrder
    <3>3. QED
      BY <1>2, <3>1, <3>2
  <2>2. CandidatesStay(x)
    BY <1>1, <1>2, <1>5 DEF CandidatesStay
  <2>3. QED
    BY <1>1, <1>3, <2>1, <2>2, AnnounceKept
<1>6. QED
  BY <1>4, <1>5

\* The end of the allocation is posted behind the messages about candidates.
LEMMA AllocationAnnounce ==
    ASSUME IInv, AnnounceInv, NEW t \in Transports, AllocationDone(t), NEW x \in Transports
    PROVE  AnnounceOf(x)'
<1>1. AnnounceOf(x) /\ TypeOK /\ lib \in [Transports -> LibState] /\ "done" \in Signals
  BY DEF AnnounceInv, IInv, TypeOK, Signals
<1>2. /\ t \in alive /\ lib' = [lib EXCEPT ![t] = [lib[t] EXCEPT !.done = TRUE]]
      /\ pending' = Post(t, "done")
      /\ UNCHANGED <<uid_map, transport_map, alive, resp>>
  BY DEF AllocationDone, tables, sent
<1>3. LinkStays(x)
  BY <1>2 DEF LinkStays, Uid, Peer
<1>4. OrderStays(x) /\ (t = x => Waiting(x, "done")' /\ Followed(pending[x])')
  BY <1>1, <1>2, PostedOrder
<1>5. CASE t = x
  <2>1. lib'[x].gathered = lib[x].gathered /\ lib'[x].ready = lib[x].ready
    BY <1>1, <1>2, <1>5 DEF LibState
  <2>2. ReadyIsPosted(x)'
    BY <1>1, <1>4, <1>5, <2>1 DEF AnnounceOf, ReadyIsPosted, OrderStays
  <2>3. ListTaken(x)'
    BY <1>1, <1>3, <2>1 DEF AnnounceOf, ListTaken, LinkStays
  <2>4. Announced(x)'
    BY <1>4, <1>5 DEF Announced
  <2>5. NothingLeft(x)'
    BY <1>2, <1>5 DEF NothingLeft
  <2>6. QED
    BY <2>2, <2>3, <2>4, <2>5 DEF AnnounceOf
<1>6. CASE t # x
  <2>1. CandidatesStay(x)
    BY <1>1, <1>2, <1>6 DEF CandidatesStay
  <2>2. QED
    BY <1>1, <1>3, <1>4, <2>1, AnnounceKept
<1>7. QED
  BY <1>5, <1>6

\* The channel's state and its connections have nothing to do with candidates.
LEMMA ChannelAnnounce ==
    ASSUME IInv, AnnounceInv, NEW t \in Transports, NEW x \in Transports,
           \/ \E signal \in {"read", "write"} : ChannelState(t, signal)
           \/ HandleConnectionSignal(t)
    PROVE  AnnounceOf(x)'
<1>1. AnnounceOf(x) /\ TypeOK /\ lib \in [Transports -> LibState]
  BY DEF AnnounceInv, IInv, TypeOK
<1>2. /\ UNCHANGED <<uid_map, transport_map, alive, resp>>
      /\ pending' = pending \/ \E signal \in {"read", "write"} : pending' = Post(t, signal)
      /\ \E r, w, c : lib' = [lib EXCEPT ![t] = [lib[t] EXCEPT
                                  !.chan_r = r, !.chan_w = w, !.relay = c]]
  <2>1. ASSUME NEW signal \in {"read", "write"}, ChannelState(t, signal)
        PROVE  \E r, w, c : lib' = [lib EXCEPT ![t] = [lib[t] EXCEPT
                                  !.chan_r = r, !.chan_w = w, !.relay = c]]
    <3>1. CASE signal = "read"
      <4>1. lib' = [lib EXCEPT ![t] = [lib[t] EXCEPT !.chan_r = ~lib[t].chan_r,
                        !.chan_w = lib[t].chan_w, !.relay = lib[t].relay]]
        BY <1>1, <2>1, <3>1 DEF ChannelState, LibState
      <4>2. QED
        BY <4>1
    <3>2. CASE signal = "write"
      <4>1. lib' = [lib EXCEPT ![t] = [lib[t] EXCEPT !.chan_r = lib[t].chan_r,
                        !.chan_w = ~lib[t].chan_w, !.relay = lib[t].relay]]
        BY <1>1, <2>1, <3>2 DEF ChannelState, LibState
      <4>2. QED
        BY <4>1
    <3>3. QED
      BY <3>1, <3>2
  <2>2. ASSUME HandleConnectionSignal(t)
        PROVE  \E r, w, c : lib' = [lib EXCEPT ![t] = [lib[t] EXCEPT
                                  !.chan_r = r, !.chan_w = w, !.relay = c]]
    <3>1. lib' = [lib EXCEPT ![t] = [lib[t] EXCEPT !.chan_r = lib[t].chan_r,
                      !.chan_w = lib[t].chan_w,
                      !.relay = IF trim_enabled THEN "pruned" ELSE "live"]]
      BY <1>1, <2>2 DEF HandleConnectionSignal, LibState
    <3>2. QED
      BY <3>1
  <2>3. /\ UNCHANGED <<uid_map, transport_map, alive, resp>>
        /\ pending' = pending \/ \E signal \in {"read", "write"} : pending' = Post(t, signal)
    BY DEF ChannelState, HandleConnectionSignal, tables, sent
  <2>4. QED
    BY <2>1, <2>2, <2>3
<1>3. LinkStays(x)
  BY <1>2 DEF LinkStays, Uid, Peer
<1>4. CandidatesStay(x)
  BY <1>1, <1>2 DEF CandidatesStay, LibState
<1>5. OrderStays(x)
  <2>1. CASE pending' = pending
    BY <2>1, SameOrder
  <2>2. ASSUME NEW signal \in {"read", "write"}, pending' = Post(t, signal)
        PROVE  OrderStays(x)
    <3>1. signal \in Signals /\ signal # "ready"
      BY DEF Signals
    <3>2. QED
      BY <1>1, <2>2, <3>1, PostedOrder
  <2>3. QED
    BY <1>2, <2>1, <2>2
<1>6. QED
  BY <1>1, <1>3, <1>4, <1>5, AnnounceKept

-----------------------------------------------------------------------------
(* The invariant and the property.                                         *)

\* No request, handler, Invoke or step of libjingle loses a candidate.
LEMMA StepAnnounce == IInv /\ AnnounceInv /\ [Next]_vars => AnnounceInv'
<1> SUFFICES ASSUME IInv, AnnounceInv, [Next]_vars, NEW x \in Transports
             PROVE  AnnounceOf(x)'
  BY DEF AnnounceInv
<1>1. CASE Request
  BY <1>1, RequestAnnounce
<1>2. CASE Continue \/ Invoked_w
  BY <1>2, OperationAnnounce
<1>3. ASSUME NEW t \in Transports, HandleSignal(t) PROVE AnnounceOf(x)'
  BY <1>3, ReadyAnnounce, DoneAnnounce, OtherSignalAnnounce DEF HandleSignal
<1>4. ASSUME NEW t \in Transports, Library(t) PROVE AnnounceOf(x)'
  BY <1>4, GatherAnnounce, AllocationAnnounce, ChannelAnnounce DEF Library
<1>5. CASE UNCHANGED vars
  <2>1. AnnounceOf(x) /\ UNCHANGED <<uid_map, transport_map, alive, lib, pending, resp>>
    BY <1>5 DEF AnnounceInv, vars, tables, sent
  <2>2. LinkStays(x) /\ CandidatesStay(x) /\ OrderStays(x)
    BY <2>1, SameOrder DEF LinkStays, CandidatesStay, Uid, Peer
  <2>3. QED
    BY <2>1, <2>2, AnnounceKept
<1>6. QED
  BY <1>1, <1>2, <1>3, <1>4, <1>5 DEF Next

\* Once the end of the allocation has been handled, the con_resp sent last
\* carries every candidate outside the tap, whenever W gathered it and however
\* often the allocation ended and began again.
THEOREM AnnouncementsAreComplete == Spec => []AnnouncementComplete
<1>1. IInv /\ AnnounceInv => AnnouncementComplete
  <2> SUFFICES ASSUME IInv, AnnounceInv, NEW t \in alive,
                      lib[t].done, Uid(t) # NoUid, ~Waiting(t, "done")
               PROVE  /\ resp[t].to = Uid(t)
                      /\ resp[t].overlay = Peer(t).overlay
                      /\ resp[t].cands = lib[t].gathered \ TapCandidates
                      /\ Peer(t).security = "dtls" => resp[t].fpr = Peer(t).identity
    BY DEF AnnouncementComplete
  <2>1. t \in Transports
    BY DEF IInv, TypeOK
  <2>2. QED
    BY <2>1 DEF AnnounceInv, AnnounceOf, Announced
<1>2. Spec => []AnnounceInv
  BY InitAnnounce, StepAnnounce, InductiveInvariant, PTL DEF Spec
<1>3. QED
  BY <1>1, <1>2, InductiveInvariant, PTL
=============================================================================
