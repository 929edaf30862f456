--------------------------- MODULE PacketPathProofs ---------------------------
(***************************************************************************)
(* Proofs about PacketPath, for any frames, prefixes and transports.  The  *)
(* invariant of the tables is that of LinkManagerProofs: the path reads    *)
(* them and never writes them.                                             *)
(***************************************************************************)
EXTENDS PacketPath, AnnouncementProofs

-----------------------------------------------------------------------------
(* The path beside the tables.                                             *)

\* The tables take a step of their own or none: nothing on the way of a frame
\* writes what LinkManager models.
LEMMA PathStepIsStep == PathNext => [Next]_vars
<1>1. CASE LinkStep_l
  BY <1>1 DEF LinkStep_l, Next, Continue
<1>2. CASE LinkStep_w
  BY <1>2 DEF LinkStep_w, Next, Continue
<1>3. CASE Produce
  BY <1>3 DEF Produce, TapAdd, IccAdd, TapPost, IccPost
<1>4. CASE HandleQueueSignal_w
  BY <1>4 DEF HandleQueueSignal_w, TakeSignal, Remove, ForwardUnrouted, FindTransport,
     SendFound
<1>5. CASE ReceivePath
  BY <1>5 DEF ReceivePath, OnReadPacket, SendToTap, DoPacketRecv, Receive
<1>6. QED
  BY <1>1, <1>2, <1>3, <1>4, <1>5 DEF PathNext

\* What was proved of the tables holds beside the traffic: the process with the
\* packet path is still an instance of LinkManager.
THEOREM PathImplementsTables == PathSpec => Spec
<1>1. [PathNext]_pvars => [Next]_vars
  BY PathStepIsStep DEF pvars
<1>2. QED
  BY <1>1, PTL DEF PathSpec, PathInit, Spec

-----------------------------------------------------------------------------
(* The inductive invariant of the path.                                    *)

\* While W holds the pointer it found, no Invoke can run: the route it came
\* from is the one still in the table.
RouteHeld == w.pc = "found" => short_uid_map[Dest[w.frame]] = w.transport

PathInv ==
    /\ PathTypeOK
    /\ SignalsMatchQueue
    /\ RouteHeld
    /\ DeliveredFromOwner

\* W is free or in a frame of HandleQueueSignal_w that has all its fields.
LEMMA WorkerCases ==
    ASSUME PathTypeOK
    PROVE  \/ w = Free /\ w.pc = "free"
           \/ w.pc = "removing"
           \/ w.pc = "holding" /\ w.frame \in Frames
           \/ w.pc = "found" /\ w.frame \in Frames /\ w.transport \in Transports
BY DEF PathTypeOK, Working, Free

\* A route leads to a transport that exists, of a peer with that prefix.
LEMMA RouteOwner ==
    ASSUME IInv, NEW s \in Shorts, short_uid_map[s] # NoTransport
    PROVE  /\ short_uid_map[s] \in Transports
           /\ short_uid_map[s] \in alive
           /\ Uid(short_uid_map[s]) \in Uids
           /\ Uid(short_uid_map[s]) # NoUid
           /\ Short[Uid(short_uid_map[s])] = s
<1>1. short_uid_map[s] \in Transports
  BY DEF IInv, TypeOK
<1>2. Uid(short_uid_map[s]) # NoUid /\ Short[Uid(short_uid_map[s])] = s
  BY DEF IInv, RoutesSound
<1>3. QED
  BY <1>1, <1>2, TableEntries DEF IInv, AliveExact

\* Removing the oldest element of a queue.
LEMMA TailOfQueue ==
    ASSUME NEW S, NEW q \in Seq(S), q # <<>>
    PROVE  /\ Tail(q) \in Seq(S) /\ Head(q) \in S
           /\ Len(q) > 0 /\ Len(Tail(q)) = Len(q) - 1
           /\ \A i \in 1..Len(Tail(q)) : i + 1 \in 1..Len(q) /\ Tail(q)[i] = q[i + 1]
OBVIOUS

\* Both queues are empty and every thread is at rest when the process starts.
LEMMA InitPath == PathInit => PathInv
<1> SUFFICES ASSUME PathInit PROVE PathInv
  OBVIOUS
<1>1. /\ send_queue = <<>> /\ posted = 0 /\ tap = "ready" /\ icc = "ready"
      /\ unread = Frames /\ w = Free /\ w.pc = "free"
      /\ fate = [f \in Frames |-> Waits] /\ recv_queue = <<>>
  BY DEF PathInit, Free
<1>2. Waits \in Fates
  BY DEF Waits, Fates
<1>3. PathTypeOK
  BY <1>1, <1>2 DEF PathTypeOK
<1>4. SignalsMatchQueue /\ RouteHeld /\ DeliveredFromOwner
  BY <1>1 DEF SignalsMatchQueue, Between, RouteHeld, DeliveredFromOwner
<1>5. QED
  BY <1>3, <1>4 DEF PathInv

\* No step of either thread, of the tap or of the controller breaks the
\* invariant: it is inductive together with that of the tables.
LEMMA StepPath == IInv /\ PathInv /\ [PathNext]_pvars => PathInv'
<1> SUFFICES ASSUME IInv, PathInv, [PathNext]_pvars PROVE PathInv'
  OBVIOUS
<1> USE FramesAssumption DEF PathInv
<1>a. /\ send_queue \in Seq(Frames) /\ recv_queue \in Seq(Received) /\ posted \in Nat
      /\ tap \in {"ready", "added"} /\ icc \in {"ready", "added"}
      /\ unread \subseteq Frames /\ fate \in [Frames -> Fates]
      /\ w \in Working \cup {Free}
  BY DEF PathTypeOK
<1>b. \/ w = Free /\ w.pc = "free"
      \/ w.pc = "removing"
      \/ w.pc = "holding" /\ w.frame \in Frames
      \/ w.pc = "found" /\ w.frame \in Frames /\ w.transport \in Transports
  BY WorkerCases
\* The parts of the invariant that a step leaves alone.
<1>q. ASSUME UNCHANGED <<sending, w>> PROVE SignalsMatchQueue'
  BY <1>q DEF SignalsMatchQueue, Between, sending
<1>d. ASSUME UNCHANGED recv_queue PROVE DeliveredFromOwner'
  BY <1>d DEF DeliveredFromOwner
<1>r. ASSUME UNCHANGED short_uid_map, w' = w \/ w'.pc # "found" PROVE RouteHeld'
  BY <1>r DEF RouteHeld
<1>1. CASE LinkStep_l
  <2>1. UNCHANGED <<path, short_uid_map>>
    <3>1. Request => UNCHANGED short_uid_map
      BY DEF Request, Setup, SetTrim, CreateTransport, RetryLink, DestroyTransport, GetState,
         tables
    <3>2. FinishCreate \/ EraseLink => UNCHANGED short_uid_map
      BY DEF FinishCreate, EraseLink
    <3>3. ASSUME NEW t \in Transports, HandleSignal(t) PROVE UNCHANGED short_uid_map
      BY <3>3 DEF HandleSignal, OnRequestSignaling, OnCandidatesReady,
         OnCandidatesAllocationDone, OnRWChangeState, tables
    <3>4. QED
      BY <1>1, <3>1, <3>2, <3>3 DEF LinkStep_l
  <2>2. PathTypeOK'
    BY <1>a, <2>1 DEF PathTypeOK, path, sending
  <2>3. QED
    BY <1>q, <1>d, <1>r, <2>1, <2>2 DEF path
<1>2. CASE LinkStep_w
  <2>1. UNCHANGED path /\ w'.pc # "found"
    BY <1>2 DEF LinkStep_w, path, Free
  <2>2. PathTypeOK'
    BY <1>a, <2>1 DEF PathTypeOK, path, sending
  <2>3. RouteHeld'
    BY <2>1 DEF RouteHeld
  <2>4. QED
    BY <1>q, <1>d, <2>1, <2>2, <2>3 DEF path
<1>3. ASSUME NEW f \in Frames, Add(f), UNCHANGED <<posted, w, fate, recv_queue, vars>>,
             \/ tap = "ready" /\ tap' = "added" /\ icc' = icc
             \/ icc = "ready" /\ icc' = "added" /\ tap' = tap
      PROVE  PathInv'
  <2>1. send_queue' = Append(send_queue, f) /\ unread' = unread \ {f}
    BY <1>3 DEF Add
  <2>2. send_queue' \in Seq(Frames) /\ Len(send_queue') = Len(send_queue) + 1
    BY <1>a, <2>1
  <2>3. PathTypeOK'
    BY <1>a, <1>3, <2>1, <2>2 DEF PathTypeOK
  <2>4. SignalsMatchQueue'
    BY <1>a, <1>3, <2>2 DEF SignalsMatchQueue, Between
  <2>5. QED
    BY <1>d, <1>r, <1>3, <2>3, <2>4 DEF vars, tables
<1>4. ASSUME posted' = posted + 1, UNCHANGED <<send_queue, unread, w, fate, recv_queue, vars>>,
             \/ tap = "added" /\ tap' = "ready" /\ icc' = icc
             \/ icc = "added" /\ icc' = "ready" /\ tap' = tap
      PROVE  PathInv'
  <2>1. PathTypeOK'
    BY <1>a, <1>4 DEF PathTypeOK
  <2>2. SignalsMatchQueue'
    BY <1>a, <1>4 DEF SignalsMatchQueue, Between
  <2>3. QED
    BY <1>d, <1>r, <1>4, <2>1, <2>2 DEF vars, tables
<1>5. CASE Produce
  BY <1>3, <1>4, <1>5 DEF Produce, TapAdd, IccAdd, TapPost, IccPost
<1>6. CASE TakeSignal
  <2>1. /\ w.pc = "free" /\ w'.pc = "removing" /\ w' \in Working /\ posted > 0
        /\ posted' = posted - 1
        /\ UNCHANGED <<vars, send_queue, tap, icc, unread, fate, recv_queue>>
    BY <1>6 DEF TakeSignal, Free, Working
  <2>2. PathTypeOK'
    BY <1>a, <2>1 DEF PathTypeOK
  <2>3. SignalsMatchQueue'
    BY <1>a, <2>1 DEF SignalsMatchQueue, Between
  <2>4. QED
    BY <1>d, <1>r, <2>1, <2>2, <2>3 DEF vars, tables
<1>7. CASE Remove
  <2> DEFINE f == Head(send_queue)
  <2>1. /\ w.pc = "removing" /\ send_queue # <<>> /\ send_queue' = Tail(send_queue)
        /\ UNCHANGED <<vars, posted, tap, icc, unread, recv_queue>>
    BY <1>7 DEF Remove
  <2>2. /\ Tail(send_queue) \in Seq(Frames) /\ f \in Frames
        /\ Len(Tail(send_queue)) = Len(send_queue) - 1
    BY <1>a, <2>1, TailOfQueue
  <2>3. /\ w' \in Working \cup {Free} /\ w'.pc \in {"free", "holding"}
        /\ fate' \in [Frames -> Fates]
    <3>1. CASE f \in Truncated
      <4>1. [kind |-> "dropped"] \in Fates
        BY DEF Fates
      <4>2. w' = Free /\ fate' = [fate EXCEPT ![f] = [kind |-> "dropped"]]
        BY <1>7, <3>1 DEF Remove, Settle
      <4>3. QED
        BY <1>a, <4>1, <4>2 DEF Free
    <3>2. CASE f \notin Truncated
      <4>1. w' = [pc |-> "holding", frame |-> f] /\ fate' = fate
        BY <1>7, <3>2 DEF Remove
      <4>2. QED
        BY <1>a, <2>2, <4>1 DEF Working
    <3>3. QED
      BY <3>1, <3>2
  <2>4. PathTypeOK'
    BY <1>a, <2>1, <2>2, <2>3 DEF PathTypeOK
  <2>5. SignalsMatchQueue'
    BY <1>a, <2>1, <2>2, <2>3 DEF SignalsMatchQueue, Between
  <2>6. QED
    BY <1>d, <1>r, <2>1, <2>3, <2>4, <2>5 DEF vars, tables
\* W is done with its frame.
<1>8. ASSUME NEW f \in Frames, NEW what \in Fates, Settle(f, what), w.pc \in {"holding", "found"},
             UNCHANGED <<vars, sending, recv_queue>>
      PROVE  PathInv'
  <2>1. w' = Free /\ w'.pc = "free" /\ fate' = [fate EXCEPT ![f] = what]
    BY <1>8 DEF Settle, Free
  <2>2. PathTypeOK'
    BY <1>a, <1>8, <2>1 DEF PathTypeOK, sending
  <2>3. SignalsMatchQueue'
    BY <1>8, <2>1 DEF SignalsMatchQueue, Between, sending
  <2>4. QED
    BY <1>d, <1>r, <1>8, <2>1, <2>2, <2>3 DEF vars, tables
<1>9. CASE ForwardUnrouted
  <2>1. /\ w.pc = "holding" /\ w.frame \in Frames
        /\ UNCHANGED <<vars, sending, recv_queue>>
    BY <1>9, <1>b DEF ForwardUnrouted, Free
  <2>2. PICK tag \in TagsFor(w.frame) : Settle(w.frame, [kind |-> "forwarded", tag |-> tag])
    BY <1>9 DEF ForwardUnrouted, Forward
  <2>3. tag \in Tags
    BY <2>1 DEF TagsFor, Tags, MacKinds
  <2>4. [kind |-> "forwarded", tag |-> tag] \in Fates
    BY <2>3 DEF Fates
  <2>5. QED
    BY <1>8, <2>1, <2>2, <2>4
<1>10. CASE FindTransport
  <2>1. /\ w.pc = "holding" /\ w.frame \in Frames
        /\ short_uid_map[Dest[w.frame]] # NoTransport
        /\ w' = [pc |-> "found", frame |-> w.frame,
                 transport |-> short_uid_map[Dest[w.frame]]]
        /\ UNCHANGED <<vars, sending, fate, recv_queue>>
    BY <1>10, <1>b DEF FindTransport, NoRoute, Free
  <2>2. short_uid_map[Dest[w.frame]] \in Transports
    BY <2>1, RouteOwner
  <2>3. w' \in Working
    BY <2>1, <2>2 DEF Working
  <2>4. PathTypeOK'
    BY <1>a, <2>1, <2>3 DEF PathTypeOK, sending
  <2>5. SignalsMatchQueue'
    BY <2>1 DEF SignalsMatchQueue, Between, sending
  <2>6. RouteHeld'
    BY <2>1 DEF RouteHeld, vars, tables
  <2>7. QED
    BY <1>d, <2>1, <2>4, <2>5, <2>6
<1>11. CASE SendFound
  <2>1. /\ w.pc = "found" /\ w.frame \in Frames
        /\ UNCHANGED <<vars, sending, recv_queue>>
    BY <1>11, <1>b DEF SendFound, Free
  <2>2. CASE lib[w.transport].writable
    <3>1. Uid(w.transport) \in Uids
      BY <1>b, <2>1, RouteOwner, TransportsAssumption DEF RouteHeld, Free
    <3>2. [kind |-> "link", to |-> Uid(w.transport)] \in Fates
      BY <3>1 DEF Fates
    <3>3. QED
      BY <1>8, <1>11, <2>1, <2>2, <3>2 DEF SendFound
  <2>3. CASE ~lib[w.transport].writable
    <3>1. [kind |-> "forwarded", tag |-> "packet"] \in Fates
      BY DEF Fates, Tags
    <3>2. QED
      BY <1>8, <1>11, <2>1, <2>3, <3>1 DEF SendFound, Forward
  <2>4. QED
    BY <2>2, <2>3
\* A frame for the tap, from a channel or from the controller.
<1>12. ASSUME NEW src \in Shorts, NEW via \in Uids \cup {NoUid}, Receive(src, via),
              UNCHANGED <<tap, icc>>, via = NoUid \/ Short[via] = src
       PROVE  PathInv'
  <2> DEFINE m == [src |-> src, via |-> via]
  <2>1. /\ m \in Received /\ m.via = via /\ m.src = src
        /\ recv_queue' = Append(recv_queue, m) /\ UNCHANGED <<vars, sending, w, fate>>
    BY <1>12 DEF Receive, Received
  <2> HIDE DEF m
  <2>2. recv_queue' \in Seq(Received)
    BY <1>a, <2>1
  <2>3. PathTypeOK'
    BY <1>a, <2>1, <2>2 DEF PathTypeOK, sending
  <2>4. ASSUME NEW i \in 1..Len(recv_queue')
        PROVE  recv_queue'[i].via = NoUid \/ Short[recv_queue'[i].via] = recv_queue'[i].src
    <3>1. CASE i \in 1..Len(recv_queue) /\ recv_queue'[i] = recv_queue[i]
      BY <3>1 DEF DeliveredFromOwner
    <3>2. CASE recv_queue'[i] = m
      BY <1>12, <2>1, <3>2
    <3>3. QED
      BY <1>a, <2>1, <2>4, <3>1, <3>2
  <2>5. QED
    BY <1>q, <1>r, <2>1, <2>3, <2>4 DEF DeliveredFromOwner, vars, tables
<1>13. ASSUME NEW t \in Transports, NEW src \in Shorts, OnReadPacket(t, src) PROVE PathInv'
  <2>1. Receive(src, Uid(t)) /\ short_uid_map[src] = t /\ UNCHANGED <<tap, icc>>
    BY <1>13 DEF OnReadPacket, Receive, sending
  <2>2. Uid(t) \in Uids /\ Short[Uid(t)] = src
    BY <2>1, RouteOwner, TransportsAssumption
  <2>3. QED
    BY <1>12, <2>1, <2>2
<1>14. ASSUME NEW src \in Shorts, SendToTap(src) PROVE PathInv'
  BY <1>12, <1>14 DEF SendToTap, Receive, sending
<1>15. CASE DoPacketRecv
  <2>1. /\ recv_queue # <<>> /\ recv_queue' = Tail(recv_queue)
        /\ UNCHANGED <<vars, sending, w, fate>>
    BY <1>15 DEF DoPacketRecv
  <2>2. /\ recv_queue' \in Seq(Received)
        /\ \A i \in 1..Len(recv_queue') : i + 1 \in 1..Len(recv_queue)
                                          /\ recv_queue'[i] = recv_queue[i + 1]
    BY <1>a, <2>1, TailOfQueue
  <2>3. PathTypeOK'
    BY <1>a, <2>1, <2>2 DEF PathTypeOK, sending
  <2>4. DeliveredFromOwner'
    BY <2>2 DEF DeliveredFromOwner
  <2>5. QED
    BY <1>q, <1>r, <2>1, <2>3, <2>4 DEF vars, tables
<1>16. CASE UNCHANGED pvars
  <2>1. UNCHANGED <<path, short_uid_map>>
    BY <1>16 DEF pvars, vars, tables
  <2>2. PathTypeOK'
    BY <1>a, <2>1 DEF PathTypeOK, path, sending
  <2>3. QED
    BY <1>q, <1>d, <1>r, <2>1, <2>2 DEF path
<1>17. QED
  BY <1>1, <1>2, <1>5, <1>6, <1>7, <1>9, <1>10, <1>11, <1>13, <1>14, <1>15, <1>16
     DEF PathNext, HandleQueueSignal_w, ReceivePath

-----------------------------------------------------------------------------
(* The theorems.                                                           *)

\* Both invariants hold at every moment, for every instance.
THEOREM PathInvariant == PathSpec => [](IInv /\ PathInv)
<1>1. PathSpec => []IInv
  BY PathImplementsTables, InductiveInvariant, PTL
<1>2. QED
  BY <1>1, InitPath, StepPath, PTL DEF PathSpec

\* Every variable of the packet path keeps its type: W never holds a frame or a
\* transport that is not one.
THEOREM PathTypeCorrect == PathSpec => []PathTypeOK
<1>1. PathInv => PathTypeOK
  BY DEF PathInv
<1>2. QED
  BY <1>1, PathInvariant, PTL

\* MSG_QUEUESIGNAL messages and frames match, however send_thread and L
\* interleave between add() and Post(): no frame is stranded in g_send_queue.
THEOREM SignalsAlwaysMatch == PathSpec => []SignalsMatchQueue
<1>1. PathInv => SignalsMatchQueue
  BY DEF PathInv
<1>2. QED
  BY <1>1, PathInvariant, PTL

\* HandleQueueSignal_w never waits inside remove(): an Invoke of L is delayed by
\* one frame at most, whatever the producers do.
THEOREM WorkerIsNeverBlocked == PathSpec => []WorkerNeverBlocks
<1>1. PathInv => WorkerNeverBlocks
  BY DEF PathInv, PathTypeOK, SignalsMatchQueue, Between, WorkerNeverBlocks
<1>2. QED
  BY <1>1, PathInvariant, PTL

\* The transport that HandlePacket found stays alive, and that of its peer,
\* until W has used it: the Invokes of DestroyTransport are what protects it.
THEOREM FoundTransportStaysUsable == PathSpec => []FoundTransportUsable
<1>1. IInv /\ PathInv => FoundTransportUsable
  <2>1. SUFFICES ASSUME IInv, PathInv, w.pc = "found"
                 PROVE  /\ w.transport \in alive /\ Uid(w.transport) # NoUid
                        /\ Short[Uid(w.transport)] = Dest[w.frame]
    BY DEF FoundTransportUsable
  <2>2. w.frame \in Frames /\ w.transport \in Transports
    BY <2>1, WorkerCases DEF PathInv, Free
  <2>3. /\ short_uid_map[Dest[w.frame]] = w.transport
        /\ short_uid_map[Dest[w.frame]] # NoTransport
    BY <2>1, <2>2, TransportsAssumption DEF PathInv, RouteHeld
  <2>4. Dest[w.frame] \in Shorts
    BY <2>2, FramesAssumption
  <2>5. QED
    BY <2>1, <2>3, <2>4, RouteOwner
<1>2. QED
  BY <1>1, PathInvariant, PTL

\* A frame that OnReadPacket hands to the tap came over the channel of a peer
\* with the prefix it claims, for as long as it waits in g_recv_queue.
THEOREM DeliveriesComeFromOwner == PathSpec => []DeliveredFromOwner
<1>1. PathInv => DeliveredFromOwner
  BY DEF PathInv
<1>2. QED
  BY <1>1, PathInvariant, PTL

\* Whatever was proved of the tables, the messages and the reports of L holds
\* while packets are on their way in both directions.
THEOREM TablesKeepPromises ==
    PathSpec => [](/\ TypeOK /\ NoDanglingShortUid /\ MapsAgree /\ RoutesComplete
                   /\ DeleteFindsRoute /\ SignalsResolve /\ DtlsIdentityAlive
                   /\ StatusTruthful /\ ReportsAgree /\ AnnouncementComplete)
BY PathImplementsTables, TypeCorrect, RoutesNeverDangle, TablesAgree, RoutesAreComplete,
   DeletedRouteIsThere, SignalsAlwaysResolve, CertificateOutlivesLinks, StatusIsTruthful,
   ReportsAreConsistent, AnnouncementsAreComplete, PTL

\* The promise about the life of an address is kept under traffic too: with
\* distinct prefixes W, busy or not, sees it built, published, withdrawn and
\* destroyed in this order.
THEOREM PathImplementsLifecycle ==
    ASSUME Injective
    PROVE  PathSpec => Lifecycle!Spec
BY PathImplementsTables, LifecycleImplemented, PTL
=============================================================================
