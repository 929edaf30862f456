----------------------------- MODULE PacketPath ------------------------------
(***************************************************************************)
(* The way of a frame through the process, beside the tables of            *)
(* LinkManager.  Two producers put frames into g_send_queue and then post  *)
(* MSG_QUEUESIGNAL to W: send_thread with what it reads from the tap, and  *)
(* L with the ICC messages of the controller.  For each signal W removes   *)
(* one frame - a blocking remove - and sends it over the link to its       *)
(* destination or forwards it to the controller.  Frames that arrive on a  *)
(* channel, and frames from the controller, go through g_recv_queue to     *)
(* recv_thread.                                                            *)
(*                                                                         *)
(* W runs the functions that L invokes between two signals, never inside   *)
(* HandlePacket; L goes on meanwhile, unless it is itself inside an        *)
(* Invoke.  The address that frames are forwarded to is not modelled.      *)
(*                                                                         *)
(* As in LinkManager, a definition Name_Fault is Name with a bug.          *)
(***************************************************************************)
EXTENDS LinkManager

CONSTANTS
    TapFrames,      \* the frames send_thread reads from the tap
    IccFrames,      \* those the controller asks to send
    Dest,           \* the short uid of a frame's destination
    Mac,            \* what the MAC address of a frame looks like
    Truncated,      \* frames shorter than kHeaderSize
    MaxRecv         \* bound on g_recv_queue, for TLC

Frames == TapFrames \cup IccFrames

\* "icc_other" has the five bytes is_icc looks for and neither of the two
\* values that follow them.
MacKinds == {"plain", "icc_packet", "icc_control", "icc_other"}

ASSUME FramesAssumption ==
    /\ TapFrames \cap IccFrames = {}
    /\ Dest \in [Frames -> Shorts]
    /\ Mac \in [Frames -> MacKinds]
    /\ Truncated \subseteq Frames
    /\ MaxRecv \in Nat

\* The message types of a forwarded frame; "garbage" is any other byte.
Tags == {"packet", "icc_packet", "icc_control", "garbage"}

\* What became of a frame.
Fates ==
    [kind: {"waiting", "dropped"}] \cup [kind: {"link"}, to: Uids]
        \cup [kind: {"forwarded"}, tag: Tags]
Waits == [kind |-> "waiting"]

\* A frame for the tap: the source it claims, and the peer on whose channel it
\* came (NoUid when the controller sent it).
Received == [src: Shorts, via: Uids \cup {NoUid}]

VARIABLES
    send_queue,     \* g_send_queue
    posted,         \* MSG_QUEUESIGNAL messages in the queue of W
    tap,            \* send_thread: "ready", or "added" inside DoPacketSend
    icc,            \* L inside DoPacketSend, likewise
    unread,         \* frames that no producer has taken up yet
    w,              \* where W is in HandleQueueSignal_w
    fate,           \* frame -> what became of it
    recv_queue      \* g_recv_queue

sending == <<send_queue, posted, tap, icc, unread>>
path == <<sending, w, fate, recv_queue>>
pvars == <<vars, path>>

Free == [pc |-> "free"]
Working ==
    [pc: {"removing"}] \cup [pc: {"holding"}, frame: Frames]
        \cup [pc: {"found"}, frame: Frames, transport: Transports]

PathTypeOK ==
    /\ send_queue \in Seq(Frames)
    /\ posted \in Nat
    /\ tap \in {"ready", "added"}
    /\ icc \in {"ready", "added"}
    /\ unread \subseteq Frames
    /\ w \in Working \cup {Free}
    /\ fate \in [Frames -> Fates]
    /\ recv_queue \in Seq(Received)

PathInit ==
    /\ Init
    /\ send_queue = <<>>
    /\ posted = 0
    /\ tap = "ready"
    /\ icc = "ready"
    /\ unread = Frames
    /\ w = Free
    /\ fate = [f \in Frames |-> Waits]
    /\ recv_queue = <<>>

-----------------------------------------------------------------------------
(* DoPacketSend, called by send_thread and by L.                           *)

Add_Bounded(f) ==
    /\ f \in unread
    /\ unread' = unread \ {f}
    /\ send_queue' = IF send_queue = <<>> THEN <<f>> ELSE send_queue

Add(f) ==
    /\ f \in unread
    /\ unread' = unread \ {f}
    /\ send_queue' = Append(send_queue, f)

TapAdd(f) ==
    /\ tap = "ready"
    /\ f \in TapFrames
    /\ Add(f)
    /\ tap' = "added"
    /\ UNCHANGED <<vars, posted, icc, w, fate, recv_queue>>

TapPost_WhenFirst ==
    /\ tap = "added"
    /\ posted' = IF Len(send_queue) = 1 THEN posted + 1 ELSE posted
    /\ tap' = "ready"
    /\ UNCHANGED <<vars, send_queue, icc, unread, w, fate, recv_queue>>

TapPost ==
    /\ tap = "added"
    /\ posted' = posted + 1
    /\ tap' = "ready"
    /\ UNCHANGED <<vars, send_queue, icc, unread, w, fate, recv_queue>>

IccAdd(f) ==
    /\ Quiet
    /\ icc = "ready"
    /\ f \in IccFrames
    /\ Add(f)
    /\ icc' = "added"
    /\ UNCHANGED <<vars, posted, tap, w, fate, recv_queue>>

IccPost ==
    /\ icc = "added"
    /\ posted' = posted + 1
    /\ icc' = "ready"
    /\ UNCHANGED <<vars, send_queue, tap, unread, w, fate, recv_queue>>

-----------------------------------------------------------------------------
(* HandleQueueSignal_w and HandlePacket, on W.                             *)

Settle(f, what) ==
    /\ fate' = [fate EXCEPT ![f] = what]
    /\ w' = Free

Forward(f, tag) == Settle(f, [kind |-> "forwarded", tag |-> tag])

\* W dispatches a signal and enters g_send_queue.remove().
TakeSignal ==
    /\ w = Free
    /\ posted > 0
    /\ posted' = posted - 1
    /\ w' = [pc |-> "removing"]
    /\ UNCHANGED <<vars, send_queue, tap, icc, unread, fate, recv_queue>>

\* remove() waits for a frame; HandlePacket returns at once if it is short.
Remove ==
    /\ w.pc = "removing"
    /\ send_queue # <<>>
    /\ send_queue' = Tail(send_queue)
    /\ LET f == Head(send_queue)
       IN  IF f \in Truncated
           THEN Settle(f, [kind |-> "dropped"])
           ELSE w' = [pc |-> "holding", frame |-> f] /\ UNCHANGED fate
    /\ UNCHANGED <<vars, posted, tap, icc, unread, recv_queue>>

\* The type byte of a frame without a link.  The last two kinds of MacKinds
\* are told apart by two tests, and nothing is stored if both fail.
TagsFor(f) ==
    IF Mac[f] = "plain" THEN {"packet"}
    ELSE IF Mac[f] = "icc_other" THEN Tags
    ELSE {Mac[f]}

NoRoute_Unchecked(f) == FALSE

\* The comparison of dest with kNullPeerId sets three characters against
\* twenty and never succeeds: only short_uid_map_ decides.
NoRoute(f) == short_uid_map[Dest[f]] = NoTransport

ForwardUnrouted ==
    /\ w.pc = "holding"
    /\ NoRoute(w.frame)
    /\ \E tag \in TagsFor(w.frame) : Forward(w.frame, tag)
    /\ UNCHANGED <<vars, sending, recv_queue>>

FindTransport ==
    /\ w.pc = "holding"
    /\ ~NoRoute(w.frame)
    /\ w' = [pc |-> "found", frame |-> w.frame,
             transport |-> short_uid_map[Dest[w.frame]]]
    /\ UNCHANGED <<vars, sending, fate, recv_queue>>

\* The pointer is followed: over the channel if L has noted that it is
\* writable, else to the controller, as also while there is no channel.
SendFound ==
    /\ w.pc = "found"
    /\ IF lib[w.transport].writable
       THEN Settle(w.frame, [kind |-> "link", to |-> Uid(w.transport)])
       ELSE Forward(w.frame, "packet")
    /\ UNCHANGED <<vars, sending, recv_queue>>

-----------------------------------------------------------------------------
(* The way to the tap.                                                     *)

Receive(src, via) ==
    /\ Len(recv_queue) < MaxRecv
    /\ recv_queue' = Append(recv_queue, [src |-> src, via |-> via])
    /\ UNCHANGED <<vars, sending, w, fate>>

OnReadPacket_AnyChannel(t, src) ==
    /\ w = Free
    /\ t \in alive
    /\ short_uid_map[src] # NoTransport
    /\ Receive(src, Uid(t))

\* A frame arrives on the channel of t; it is kept if the transport routed
\* under the source it claims owns that channel.
OnReadPacket(t, src) ==
    /\ w = Free
    /\ t \in alive
    /\ short_uid_map[src] = t
    /\ Receive(src, Uid(t))

\* A frame the controller received for this node.
SendToTap(src) ==
    /\ Quiet
    /\ icc = "ready"
    /\ Receive(src, NoUid)

DoPacketRecv ==
    /\ recv_queue # <<>>
    /\ recv_queue' = Tail(recv_queue)
    /\ UNCHANGED <<vars, sending, w, fate>>

-----------------------------------------------------------------------------
(* The steps of LinkManager: those of L that begin something need L out of *)
(* DoPacketSend, those of W need W out of HandleQueueSignal_w.             *)

LinkStep_l ==
    /\ icc = "ready"
    /\ Request \/ FinishCreate \/ EraseLink \/ \E t \in Transports : HandleSignal(t)
    /\ UNCHANGED path

LinkStep_w_NotOnW ==
    /\ Invoked_w \/ DestroyPeerState \/ \E t \in Transports : Library(t)
    /\ UNCHANGED path

LinkStep_w ==
    /\ w = Free
    /\ Invoked_w \/ DestroyPeerState \/ \E t \in Transports : Library(t)
    /\ UNCHANGED path

Produce ==
    \/ \E f \in Frames : TapAdd(f) \/ IccAdd(f)
    \/ TapPost
    \/ IccPost

HandleQueueSignal_w ==
    TakeSignal \/ Remove \/ ForwardUnrouted \/ FindTransport \/ SendFound

ReceivePath ==
    \/ \E t \in Transports, src \in Shorts : OnReadPacket(t, src)
    \/ \E src \in Shorts : SendToTap(src)
    \/ DoPacketRecv

PathNext ==
    LinkStep_l \/ LinkStep_w \/ Produce \/ HandleQueueSignal_w \/ ReceivePath

PathSpec == PathInit /\ [][PathNext]_pvars

\* Every thread goes on.  Thread::Get looks at pending Invokes before each
\* message, so that W cannot put one off for ever.
PathFairness ==
    /\ WF_pvars(TapPost)
    /\ WF_pvars(IccPost)
    /\ WF_pvars(HandleQueueSignal_w)
    /\ WF_pvars((FinishCreate \/ EraseLink) /\ UNCHANGED path)
    /\ SF_pvars(w = Free /\ (Invoked_w \/ DestroyPeerState) /\ UNCHANGED path)

PathFairSpec == PathSpec /\ PathFairness

-----------------------------------------------------------------------------
\* The producers that have added a frame and have yet to post its signal.
Between(state) == IF state = "added" THEN 1 ELSE 0

\* Every frame in the queue has a signal that is posted, being handled, or
\* about to be posted by the thread that added it: no frame is stranded, and
\* no signal finds fewer frames than there are signals.
SignalsMatchQueue ==
    Len(send_queue) =
        posted + Between(tap) + Between(icc) + (IF w.pc = "removing" THEN 1 ELSE 0)

\* W never waits inside g_send_queue.remove(): it would keep L waiting in an
\* Invoke, and the links of all peers with it.
WorkerNeverBlocks == w.pc = "removing" => send_queue # <<>>

\* The transport W found is still there when W follows the pointer, and still
\* that of a peer with the prefix the frame is for, although L may have begun
\* to destroy links in between.
FoundTransportUsable ==
    w.pc = "found" =>
        /\ w.transport \in alive
        /\ Uid(w.transport) # NoUid
        /\ Short[Uid(w.transport)] = Dest[w.frame]

\* A frame handed to the tap under the source of a peer came over the channel
\* of a peer with that prefix, or from the controller: a link cannot speak for
\* another one, whatever happened to the tables since it was created.
DeliveredFromOwner ==
    \A i \in 1..Len(recv_queue) :
        recv_queue[i].via = NoUid \/ Short[recv_queue[i].via] = recv_queue[i].src

\* By the comment in HandlePacket the type byte of a forwarded frame is that of
\* ICC control or of an ICC packet when its MAC address is the ICC one, and that
\* of an IP packet otherwise: it is always one of the message types.
ForwardedFramesTyped ==
    \A f \in Frames : fate[f].kind = "forwarded" => fate[f].tag # "garbage"

\* Every frame that reaches the queue is sent, forwarded or dropped.
EveryFrameHandled == \A f \in Frames : f \notin unread ~> fate[f] # Waits

\* Every Invoke returns and every operation of L on the tables completes.
InvokesReturn == ~Quiet ~> Quiet
=============================================================================
