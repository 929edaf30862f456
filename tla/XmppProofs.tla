------------------------------ MODULE XmppProofs ------------------------------
(***************************************************************************)
(* Proofs about XmppNetwork, alone and with its socket, for any interval   *)
(* of the presence.                                                        *)
(***************************************************************************)
EXTENDS XmppSocket, SequenceTheorems, TLAPS

-----------------------------------------------------------------------------
(* The session and the watchdog.                                           *)

\* One message of the watchdog before a reconnection, two after it; none before
\* Login.
MessagesArmed ==
    /\ client = "none" => due = 0 /\ later = 0
    /\ client # "none" => due + later \in 1..2

\* What the pointers hold follows from how far the session has come.
PointersFollow ==
    /\ ~twice
    /\ client = "none" => xmpp_state = "none" /\ xmpp_socket = "null"
    /\ xmpp_state \in {"none", "start", "opening"} =>
           presence_out = "null" /\ tincan_task = "null" /\ ping_task = "null"
    /\ xmpp_state = "open" => tincan_task = "current" /\ client = "running"

\* The messages that OnMessage handles before it sends the presence again, and
\* the interval that passes before it handles the next one.
Missing == IF counter = 0 THEN 0 ELSE PresenceTicks - counter
Pause == IF due = 0 THEN 1 ELSE 0

\* Every message brings the presence one step closer, and an interval passes
\* only when all of them have been handled.
PresenceInTime == xmpp_state = "open" => silent + Pause + Missing <= PresenceTicks

XmppInv == XmppTypeOK /\ MessagesArmed /\ PointersFollow /\ PresenceInTime

SessionTyped ==
    /\ client \in {"none", "running", "gone"} /\ xmpp_state \in Engine
    /\ child_error \in BOOLEAN /\ twice \in BOOLEAN
    /\ xmpp_socket \in Pointers /\ presence_out \in Pointers
    /\ tincan_task \in Pointers /\ ping_task \in Pointers

TimersTyped ==
    /\ due \in 0..2 /\ later \in 0..2
    /\ counter \in 0..(PresenceTicks - 1) /\ silent \in 0..(PresenceTicks + 1)

\* XmppTypeOK in two halves: what Connect replaces and what OnMessage counts.
LEMMA TypeHalves == XmppTypeOK <=> SessionTyped /\ TimersTyped
BY DEF XmppTypeOK, SessionTyped, TimersTyped

\* on_msg_counter_ wraps around.
LEMMA CounterWraps ==
    ASSUME NEW c \in 0..(PresenceTicks - 1)
    PROVE  (c + 1) % PresenceTicks = IF c + 1 = PresenceTicks THEN 0 ELSE c + 1
BY PresenceAssumption

\* The value Connect leaves in it.
LEMMA CounterRestarts ==
    ASSUME NEW posted \in {0, 1}
    PROVE  posted % PresenceTicks \in 0..(PresenceTicks - 1)
BY PresenceAssumption

\* Before Login there is no session.
LEMMA InitXmpp == XmppInit => XmppInv
<1> SUFFICES ASSUME XmppInit PROVE XmppInv
  OBVIOUS
<1>1. XmppTypeOK
  <2>1. SessionTyped
    BY DEF XmppInit, SessionTyped, Engine, Pointers
  <2>2. TimersTyped
    BY PresenceAssumption DEF XmppInit, TimersTyped
  <2>3. QED
    BY <2>1, <2>2, TypeHalves
<1>2. MessagesArmed /\ PointersFollow /\ PresenceInTime
  BY DEF XmppInit, MessagesArmed, PointersFollow, PresenceInTime
<1>3. QED
  BY <1>1, <1>2 DEF XmppInv

\* Login, the client, OnMessage and the clock keep the invariant.
LEMMA StepXmpp == XmppInv /\ [XmppNext]_xvars => XmppInv'
<1> SUFFICES ASSUME XmppInv, [XmppNext]_xvars PROVE XmppInv'
  OBVIOUS
<1> USE PresenceAssumption DEF XmppInv
<1>a. SessionTyped /\ TimersTyped /\ twice = FALSE
  BY TypeHalves DEF PointersFollow
<1>b. SessionTyped' /\ TimersTyped' => XmppTypeOK'
  BY DEF XmppTypeOK, SessionTyped, TimersTyped
<1>t. /\ due \in 0..2 /\ later \in 0..2
      /\ counter \in 0..(PresenceTicks - 1) /\ silent \in 0..(PresenceTicks + 1)
  BY <1>a DEF TimersTyped
\* A new client, made by Login or by OnMessage.
<1>1. ASSUME NEW released \in BOOLEAN, NEW posted \in {0, 1}, Connect(FALSE, released, posted),
             \/ released
             \/ presence_out = "null" /\ tincan_task = "null" /\ ping_task = "null"
      PROVE  XmppInv'
  <2>1. /\ client' = "running" /\ xmpp_state' = "none" /\ child_error' = FALSE
        /\ twice' = FALSE /\ xmpp_socket' = "current" /\ silent' = 0
        /\ due' = 0 /\ later' = 1 + posted /\ counter' = posted % PresenceTicks
    BY <1>1, <1>a DEF Connect, Restart
  <2>2. presence_out' = "null" /\ tincan_task' = "null" /\ ping_task' = "null"
    BY <1>1 DEF Connect, ReleaseTasks, Age
  <2>3. counter' \in 0..(PresenceTicks - 1)
    BY <2>1, CounterRestarts
  <2>4. XmppTypeOK'
    <3>1. SessionTyped'
      BY <2>1, <2>2 DEF SessionTyped, Engine, Pointers
    <3>2. TimersTyped'
      BY <2>1, <2>3 DEF TimersTyped
    <3>3. QED
      BY <3>1, <3>2, <1>b
  <2>5. MessagesArmed'
    BY <2>1 DEF MessagesArmed
  <2>6. PointersFollow' /\ PresenceInTime'
    BY <2>1, <2>2 DEF PointersFollow, PresenceInTime
  <2>7. QED
    BY <2>4, <2>5, <2>6
<1>2. CASE Login
  <2>1. xmpp_socket = "null" /\ presence_out = "null" /\ tincan_task = "null" /\ ping_task = "null"
    BY <1>2 DEF Login, PointersFollow
  <2>2. (xmpp_socket # "null") = FALSE
    BY <2>1
  <2>3. Connect(FALSE, FALSE, 0)
    BY <1>2, <2>2 DEF Login
  <2>4. QED
    BY <1>1, <2>1, <2>3
<1>3. CASE ReconnectUnstarted
  <2>1. Connect(FALSE, FALSE, 1) /\ xmpp_state = "none"
    BY <1>3 DEF ReconnectUnstarted
  <2>2. presence_out = "null" /\ tincan_task = "null" /\ ping_task = "null"
    BY <2>1 DEF PointersFollow
  <2>3. QED
    BY <1>1, <2>1, <2>2
<1>4. CASE ReconnectClosed
  BY <1>1, <1>4 DEF ReconnectClosed
\* A report of the client: sign-on, which makes the tasks, or another state.
<1>5. CASE Progress
  <2>1. PICK next \in {"start", "opening", "open"} :
           /\ OnStateChange(next)
           /\ client = "running" /\ xmpp_state \in {"none", "start", "opening"}
           /\ UNCHANGED <<client, child_error, timers>>
    BY <1>5 DEF Progress
  <2>2. presence_out = "null" /\ tincan_task = "null" /\ ping_task = "null"
    BY <2>1 DEF PointersFollow
  <2>3. CASE next = "open"
    <3>1. /\ xmpp_state' = "open" /\ presence_out' = "current" /\ tincan_task' = "current"
          /\ ping_task' = "current" /\ twice' = FALSE /\ silent' = 0
          /\ xmpp_socket' = xmpp_socket
      BY <1>a, <2>1, <2>2, <2>3 DEF OnStateChange, OnSignOn
    <3>2. XmppTypeOK'
      <4>1. SessionTyped'
        BY <1>a, <2>1, <3>1 DEF SessionTyped, Engine, Pointers
      <4>2. TimersTyped'
        BY <1>a, <2>1, <3>1 DEF TimersTyped, timers
      <4>3. QED
        BY <4>1, <4>2, <1>b
    <3>3. MessagesArmed' /\ PointersFollow'
      BY <2>1, <3>1 DEF MessagesArmed, PointersFollow, timers
    <3>4. PresenceInTime'
      BY <1>t, <2>1, <3>1 DEF PresenceInTime, Pause, Missing, timers
    <3>5. QED
      BY <3>2, <3>3, <3>4
  <2>4. CASE next # "open"
    <3>1. xmpp_state' \in {"start", "opening"} /\ UNCHANGED <<pointers, silent>>
      BY <2>1, <2>4 DEF OnStateChange
    <3>2. XmppTypeOK'
      <4>1. SessionTyped'
        BY <1>a, <2>1, <3>1 DEF SessionTyped, Engine, pointers, tasks
      <4>2. TimersTyped'
        BY <1>a, <2>1, <3>1 DEF TimersTyped, timers
      <4>3. QED
        BY <4>1, <4>2, <1>b
    <3>3. MessagesArmed' /\ PointersFollow' /\ PresenceInTime'
      BY <2>1, <2>2, <3>1 DEF MessagesArmed, PointersFollow, PresenceInTime, pointers, tasks, timers
    <3>4. QED
      BY <3>2, <3>3
  <2>5. QED
    BY <2>3, <2>4
\* The next message of the watchdog is posted.
<1>6. ASSUME Dispatched, Rearm
      PROVE  /\ due' \in 0..2 /\ later' \in 0..2 /\ counter' \in 0..(PresenceTicks - 1)
             /\ due' + later' \in 1..2
             /\ counter' = IF counter + 1 = PresenceTicks THEN 0 ELSE counter + 1
             /\ due' = due - 1 /\ due > 0
  <2>1. /\ due > 0 /\ client # "none" /\ due' = due - 1 /\ later' = later + 1
        /\ counter' = (counter + 1) % PresenceTicks
    BY <1>6 DEF Dispatched, Rearm
  <2>2. due + later \in 1..2
    BY <2>1 DEF MessagesArmed
  <2>3. counter' = IF counter + 1 = PresenceTicks THEN 0 ELSE counter + 1
    BY <1>t, <2>1, CounterWraps
  <2>4. counter' \in 0..(PresenceTicks - 1)
    BY <1>t, <2>3
  <2>5. QED
    BY <1>t, <2>1, <2>2, <2>3, <2>4
\* The end of a session.
<1>7. ASSUME Closes,
             /\ due' \in 0..2 /\ later' \in 0..2 /\ counter' \in 0..(PresenceTicks - 1)
             /\ due' + later' \in 1..2
      PROVE  XmppInv'
  <2>1. /\ client' = "gone" /\ xmpp_state' = "closed"
        /\ UNCHANGED <<child_error, pointers, silent>>
    BY <1>7 DEF Closes, OnStateChange
  <2>2. XmppTypeOK'
    <3>1. SessionTyped'
      BY <1>a, <2>1 DEF SessionTyped, Engine, pointers, tasks
    <3>2. TimersTyped'
      BY <1>a, <1>7, <2>1 DEF TimersTyped
    <3>3. QED
      BY <3>1, <3>2, <1>b
  <2>3. MessagesArmed' /\ PointersFollow' /\ PresenceInTime'
    BY <1>7, <1>t, <2>1 DEF MessagesArmed, PointersFollow, PresenceInTime, pointers, tasks
  <2>4. QED
    BY <2>2, <2>3
<1>8. CASE DoDisconnect
  BY <1>6, <1>7, <1>8 DEF DoDisconnect
<1>9. CASE ServerCloses
  <2>1. Closes /\ UNCHANGED timers /\ client # "none"
    BY <1>9 DEF ServerCloses, Closes
  <2>2. QED
    BY <1>7, <1>t, <2>1 DEF MessagesArmed, timers
<1>10. CASE TaskFails
  <2>1. child_error' = TRUE /\ UNCHANGED <<client, xmpp_state, pointers, timers, silent>>
    BY <1>10 DEF TaskFails
  <2>2. XmppTypeOK'
    <3>1. SessionTyped'
      BY <1>a, <2>1 DEF SessionTyped, pointers, tasks
    <3>2. TimersTyped'
      BY <1>a, <2>1 DEF TimersTyped, timers
    <3>3. QED
      BY <3>1, <3>2, <1>b
  <2>3. MessagesArmed' /\ PointersFollow'
    BY <2>1 DEF MessagesArmed, PointersFollow, pointers, tasks, timers
  <2>4. PresenceInTime'
    BY <2>1 DEF PresenceInTime, Pause, Missing, timers
  <2>5. QED
    BY <2>2, <2>3, <2>4
<1>11. CASE ResendPresence
  <2>1. /\ Dispatched /\ Rearm /\ xmpp_state = "open" /\ presence_out' = "current" /\ silent' = 0
        /\ UNCHANGED <<client, xmpp_state, child_error, xmpp_socket, tincan_task, ping_task,
                       twice>>
        /\ counter = 0
    BY <1>11 DEF ResendPresence, Healthy
  <2>2. XmppTypeOK'
    <3>1. SessionTyped'
      BY <1>a, <2>1 DEF SessionTyped, Pointers
    <3>2. TimersTyped'
      BY <1>6, <2>1 DEF TimersTyped
    <3>3. QED
      BY <3>1, <3>2, <1>b
  <2>3. MessagesArmed' /\ PointersFollow'
    BY <1>6, <2>1 DEF MessagesArmed, PointersFollow, Dispatched
  <2>4. PresenceInTime'
    BY <1>6, <1>t, <2>1 DEF PresenceInTime, Pause, Missing
  <2>5. QED
    BY <2>2, <2>3, <2>4
<1>12. CASE NothingToDo
  <2>1. /\ Dispatched /\ Rearm /\ xmpp_state = "open" /\ counter # 0
        /\ UNCHANGED <<session, silent>>
    BY <1>12 DEF NothingToDo, Healthy
  <2>2. XmppTypeOK'
    <3>1. SessionTyped'
      BY <1>a, <2>1 DEF SessionTyped, session, pointers, tasks
    <3>2. TimersTyped'
      BY <1>6, <1>a, <2>1 DEF TimersTyped
    <3>3. QED
      BY <3>1, <3>2, <1>b
  <2>3. MessagesArmed' /\ PointersFollow'
    BY <1>6, <2>1 DEF MessagesArmed, PointersFollow, Dispatched, session, pointers, tasks
  <2>4. PresenceInTime'
    BY <1>6, <1>t, <2>1 DEF PresenceInTime, Pause, Missing, session
  <2>5. QED
    BY <2>2, <2>3, <2>4
<1>13. CASE Tick
  <2>1. /\ due = 0 /\ later > 0 /\ due' = later /\ later' = 0 /\ UNCHANGED <<session, counter>>
        /\ silent' = IF silent > PresenceTicks THEN silent ELSE silent + 1
    BY <1>13 DEF Tick
  <2>2. XmppTypeOK'
    <3>1. SessionTyped'
      BY <1>a, <2>1 DEF SessionTyped, session, pointers, tasks
    <3>2. TimersTyped'
      BY <1>a, <2>1 DEF TimersTyped
    <3>3. QED
      BY <3>1, <3>2, <1>b
  <2>3. MessagesArmed' /\ PointersFollow'
    BY <1>t, <2>1 DEF MessagesArmed, PointersFollow, session, pointers, tasks
  <2>4. PresenceInTime'
    BY <1>t, <2>1 DEF PresenceInTime, Pause, Missing, session
  <2>5. QED
    BY <2>2, <2>3, <2>4
<1>14. CASE UNCHANGED xvars
  <2>1. UNCHANGED <<client, xmpp_state, child_error, xmpp_socket, presence_out, tincan_task,
                    ping_task, twice, due, later, counter, silent>>
    BY <1>14 DEF xvars, session, pointers, tasks, timers
  <2>2. XmppTypeOK'
    <3>1. SessionTyped'
      BY <1>a, <2>1 DEF SessionTyped
    <3>2. TimersTyped'
      BY <1>a, <2>1 DEF TimersTyped
    <3>3. QED
      BY <3>1, <3>2, <1>b
  <2>3. MessagesArmed' /\ PointersFollow' /\ PresenceInTime'
    BY <2>1 DEF MessagesArmed, PointersFollow, PresenceInTime, Pause, Missing
  <2>4. QED
    BY <2>2, <2>3
<1>15. QED
  BY <1>2, <1>3, <1>4, <1>5, <1>8, <1>9, <1>10, <1>11, <1>12, <1>13, <1>14
     DEF XmppNext, OnMessage

\* The invariant holds at every moment, for every interval of the presence.
THEOREM XmppInvariant == XmppSpec => []XmppInv
BY InitXmpp, StepXmpp, PTL DEF XmppSpec

\* What the invariant means for the objects and the messages of XmppNetwork.
LEMMA XmppMeaning ==
    ASSUME XmppInv
    PROVE  /\ XmppTypeOK /\ NothingDeletedTwice /\ SendUsesLiveTask
           /\ WatchdogArmed /\ PresenceFresh
<1> USE DEF XmppInv
<1>1. NothingDeletedTwice /\ SendUsesLiveTask
  BY DEF PointersFollow, NothingDeletedTwice, SendUsesLiveTask
<1>2. WatchdogArmed
  BY DEF MessagesArmed, WatchdogArmed
<1>3. PresenceFresh
  <2>1. TimersTyped
    BY TypeHalves
  <2>2. QED
    BY <2>1, PresenceAssumption DEF TimersTyped, PresenceInTime, Pause, Missing, PresenceFresh
<1>4. QED
  BY <1>1, <1>2, <1>3

\* Every variable of XmppNetwork keeps its type: there are never more than two
\* messages of the watchdog.
THEOREM XmppTypeCorrect == XmppSpec => []XmppTypeOK
BY XmppInvariant, XmppMeaning, PTL

\* Whatever the order in which sessions open, fail and are replaced, release()
\* comes before every reset() of a scoped_ptr whose object the client deletes.
THEOREM NothingIsDeletedTwice == XmppSpec => []NothingDeletedTwice
BY XmppInvariant, XmppMeaning, PTL

\* The two tests of SendToPeer keep it from a task of an earlier client.
THEOREM SendsUseLiveTask == XmppSpec => []SendUsesLiveTask
BY XmppInvariant, XmppMeaning, PTL

\* From Login on a message to OnMessage is always posted: the watchdog survives
\* the Clear in Connect and every branch of OnMessage.
THEOREM WatchdogStaysArmed == XmppSpec => []WatchdogArmed
BY XmppInvariant, XmppMeaning, PTL

\* An open session sends its presence at least every kPresenceInterval, whatever
\* on_msg_counter_ was when it opened and however many messages are posted.
THEOREM PresenceStaysFresh == XmppSpec => []PresenceFresh
BY XmppInvariant, XmppMeaning, PTL

-----------------------------------------------------------------------------
(* The socket.                                                             *)

\* The socket takes part in the steps of XmppNetwork and adds none to it.
THEOREM SocketImplementsXmpp == SocketSpec => XmppSpec
<1>1. SocketInit => XmppInit
  BY DEF SocketInit
<1>2. [SocketNext]_svars => [XmppNext]_xvars
  <2> SUFFICES ASSUME [SocketNext]_svars PROVE XmppNext \/ UNCHANGED xvars
    OBVIOUS
  <2>1. CASE Login \/ Watchdog \/ Tick \/ ServerCloses \/ PingTimesOut \/ Progress
    BY <2>1 DEF Watchdog, PingTimesOut, XmppNext, OnMessage
  <2>2. CASE OnConnectEvent \/ SignedOn
    BY <2>2 DEF OnConnectEvent, SignedOn, XmppNext
  <2>3. CASE OnConnectEventTls \/ OnCloseEvent \/ SignalWriteEvent \/ RequestTls \/ StartTls
              \/ SendStanza
    BY <2>3 DEF OnConnectEventTls, OnCloseEvent, SignalWriteEvent, RequestTls, StartTls,
                SendStanza
  <2>4. CASE UNCHANGED svars
    BY <2>4 DEF svars
  <2>5. QED
    BY <2>1, <2>2, <2>3, <2>4 DEF SocketNext
<1>3. QED
  BY <1>1, <1>2, PTL DEF SocketSpec, XmppSpec

Layers == {"clear", "tls"}

\* What the server has read and what waits in buffer_ are the stream so far,
\* cut in two: StreamIntact piece by piece.
StreamCut ==
    /\ Len(read) + Len(buffer) = wrote
    /\ \A i \in 1..Len(read) :
           read[i] = <<i, IF i < FirstTlsPiece THEN "clear" ELSE "tls">>
    /\ \A i \in 1..Len(buffer) : buffer[i] = Len(read) + i

\* How far the stream is in each state of the socket.  Only after the sign-on
\* is more written than the login needs.
StreamPhase ==
    /\ conn = "connecting" => state = "closed" /\ wrote = 0
    /\ conn = "up" => state # "closed"
    /\ conn = "up" /\ state = "open" => wrote \in {2, 4}
    /\ state = "tls_connecting" => wrote = 6 /\ Len(read) = 4
    /\ state = "tls_open" => Len(read) >= 4 /\ (wrote = 6 \/ xmpp_state = "open")
    /\ xmpp_state = "open" => state = "tls_open"

SocketInv == SocketTypeOK /\ StreamCut /\ StreamPhase /\ UnsentWillWake

Waits == {"nothing", "event", "error"}

\* A call of Send moves pieces from the front of what waits to the server, each
\* with the layer of the socket, and nothing over a connection that is lost.
LEMMA SendKeepsStream ==
    ASSUME NEW b \in Seq(Pieces), read \in Seq(Pieces \X Layers), wrote' \in Nat,
           OnWriteEvent(b),
           Len(read) + Len(b) = wrote',
           \A i \in 1..Len(read) :
               read[i] = <<i, IF i < FirstTlsPiece THEN "clear" ELSE "tls">>,
           \A i \in 1..Len(b) : b[i] = Len(read) + i,
           state' \in {"open", "tls_connecting", "tls_open"},
           conn' = "up" /\ state' = "open" => wrote' <= 4,
           state' = "tls_open" => Len(read) >= 4
    PROVE  /\ buffer' \in Seq(Pieces) /\ pending' \in Waits
           /\ read' \in Seq(Pieces \X Layers)
           /\ StreamCut' /\ UnsentWillWake'
           /\ Len(read') \in Nat /\ Len(read') >= Len(read)
           /\ state' = "tls_connecting" => Len(read') = Len(read)
<1>a. Len(read) \in Nat /\ Len(b) \in Nat
  OBVIOUS
<1> DEFINE layer == IF state' = "tls_open" THEN "tls" ELSE "clear"
<1>1. PICK taken \in 0..Len(b) :
         /\ taken > 0 => conn' = "up" /\ state' # "tls_connecting"
         /\ buffer' = SubSeq(b, taken + 1, Len(b))
         /\ read' = read \o [i \in 1..taken |-> <<b[i], layer>>]
         /\ pending' \in IF taken = Len(b) \/ state' = "tls_connecting" THEN {"nothing"}
                         ELSE IF conn' = "up" THEN {"event", "error"} ELSE {"error"}
  BY DEF OnWriteEvent
<1> DEFINE more == [i \in 1..taken |-> <<b[i], layer>>]
<1>2. /\ more \in Seq(Pieces \X Layers) /\ Len(more) = taken
      /\ \A i \in 1..taken : more[i] = <<Len(read) + i, layer>>
  <2>1. \A i \in 1..taken : b[i] \in Pieces /\ i \in 1..Len(b)
    BY <1>a
  <2>2. layer \in Layers
    BY DEF Layers
  <2>3. QED
    BY <2>1, <2>2
<1>3. \A i \in 1..taken : Len(read) + i < FirstTlsPiece <=> layer = "clear"
  <2> SUFFICES ASSUME NEW i \in 1..taken
               PROVE  Len(read) + i < FirstTlsPiece <=> layer = "clear"
    OBVIOUS
  <2>1. taken > 0
    OBVIOUS
  <2>2. CASE state' = "open"
    BY <1>1, <1>a, <2>1, <2>2 DEF FirstTlsPiece
  <2>3. CASE state' = "tls_open"
    BY <1>a, <2>3 DEF FirstTlsPiece
  <2>4. QED
    BY <1>1, <2>1, <2>2, <2>3
<1>4. layer \in {"clear", "tls"}
  OBVIOUS
<1> HIDE DEF layer
<1> HIDE DEF more
<1>5. /\ read' = read \o more /\ read' \in Seq(Pieces \X Layers)
      /\ Len(read') = Len(read) + taken
      /\ \A i \in 1..Len(read') : read'[i] = IF i <= Len(read) THEN read[i] ELSE more[i - Len(read)]
  BY <1>1, <1>2, ConcatProperties DEF more
<1>6. ASSUME NEW i \in 1..Len(read')
      PROVE  read'[i] = <<i, IF i < FirstTlsPiece THEN "clear" ELSE "tls">>
  <2>1. CASE i <= Len(read)
    BY <1>a, <1>5, <2>1
  <2>2. CASE i > Len(read)
    <3>1. i - Len(read) \in 1..taken /\ Len(read) + (i - Len(read)) = i
      BY <1>a, <1>5, <2>2
    <3>2. read'[i] = <<i, layer>>
      BY <1>a, <1>2, <1>5, <2>2, <3>1
    <3>3. i < FirstTlsPiece <=> layer = "clear"
      BY <1>3, <3>1
    <3>4. QED
      BY <1>4, <3>2, <3>3
  <2>3. QED
    BY <1>a, <1>5, <2>1, <2>2
<1>7. /\ buffer' \in Seq(Pieces) /\ Len(buffer') = Len(b) - taken
      /\ \A i \in 1..Len(buffer') : buffer'[i] = b[taken + i]
  <2>1. \A i \in (taken + 1)..Len(b) : b[i] \in Pieces
    BY <1>a
  <2>2. taken + 1 \in Int /\ Len(b) \in Int
    BY <1>a
  <2>3. buffer' = SubSeq(b, taken + 1, Len(b))
    BY <1>1
  <2>4. /\ buffer' \in Seq(Pieces)
        /\ Len(buffer') = IF taken + 1 <= Len(b) THEN Len(b) - (taken + 1) + 1 ELSE 0
        /\ \A i \in 1..(Len(b) - (taken + 1) + 1) : buffer'[i] = b[taken + 1 + i - 1]
    BY <2>1, <2>2, <2>3, SubSeqProperties
  <2>5. Len(buffer') = Len(b) - taken
    BY <1>a, <2>4
  <2>6. ASSUME NEW i \in 1..Len(buffer') PROVE buffer'[i] = b[taken + i]
    <3>1. taken + 1 + i - 1 = taken + i /\ Len(b) - (taken + 1) + 1 = Len(buffer')
      BY <1>a, <2>5
    <3>2. QED
      BY <2>4, <3>1
  <2>7. QED
    BY <2>4, <2>5, <2>6
<1>8. ASSUME NEW i \in 1..Len(buffer') PROVE buffer'[i] = Len(read') + i
  <2>a. buffer'[i] = b[taken + i]
    BY <1>7
  <2>b. i \in Nat /\ i >= 1 /\ i <= Len(b) - taken
    BY <1>a, <1>7
  <2>1. taken + i \in 1..Len(b) /\ buffer'[i] = b[taken + i]
    BY <1>a, <2>a, <2>b
  <2>2. b[taken + i] = Len(read) + (taken + i)
    BY <2>1
  <2>3. QED
    BY <1>a, <1>5, <2>1, <2>2
<1>9. StreamCut'
  <2>1. Len(read') + Len(buffer') = wrote'
    BY <1>a, <1>5, <1>7
  <2>2. QED
    BY <1>6, <1>8, <2>1 DEF StreamCut
<1>10. UnsentWillWake'
  <2>1. SUFFICES ASSUME conn' = "up", buffer' # <<>>, state' # "tls_connecting", pending' # "event"
                 PROVE  pending' = "error"
    BY DEF UnsentWillWake, Stuck
  <2>2. taken # Len(b)
    BY <1>a, <1>7, <2>1
  <2>3. QED
    BY <1>1, <2>1, <2>2
<1>11. pending' \in Waits
  BY <1>1 DEF Waits
<1>12. state' = "tls_connecting" => taken = 0
  BY <1>1
<1>13. QED
  BY <1>a, <1>5, <1>7, <1>9, <1>10, <1>11, <1>12

\* A Write puts the next two pieces behind those that wait, and sends.
LEMMA WriteKeepsStream ==
    ASSUME SocketTypeOK, StreamCut, Write, wrote + 2 <= MaxPieces,
           state' \in {"open", "tls_connecting", "tls_open"},
           conn' = "up" /\ state' = "open" => wrote <= 2,
           state' = "tls_open" => Len(read) >= 4
    PROVE  /\ wrote' = wrote + 2 /\ wrote' \in 0..MaxPieces
           /\ buffer' \in Seq(Pieces) /\ pending' \in Waits
           /\ read' \in Seq(Pieces \X Layers)
           /\ StreamCut' /\ UnsentWillWake'
           /\ Len(read') \in Nat /\ Len(read') >= Len(read)
           /\ state' = "tls_connecting" => Len(read') = Len(read)
<1> DEFINE two == <<wrote + 1, wrote + 2>>
           b == buffer \o two
<1>1. /\ wrote \in 0..MaxPieces /\ MaxPieces \in Nat /\ wrote' = wrote + 2 /\ OnWriteEvent(b)
      /\ buffer \in Seq(Pieces) /\ read \in Seq(Pieces \X Layers)
  BY PiecesAssumption DEF Write, SocketTypeOK, Pieces, Layers
<1>2. Len(read) \in Nat /\ Len(buffer) \in Nat /\ Len(read) + Len(buffer) = wrote
  BY <1>1 DEF StreamCut
<1>3. two \in Seq(Pieces) /\ Len(two) = 2 /\ two[1] = wrote + 1 /\ two[2] = wrote + 2
  BY <1>1 DEF Pieces
<1> HIDE DEF two
<1>4. /\ b \in Seq(Pieces) /\ Len(b) = Len(buffer) + 2
      /\ \A i \in 1..Len(b) : b[i] = IF i <= Len(buffer) THEN buffer[i] ELSE two[i - Len(buffer)]
  <2>1. /\ b \in Seq(Pieces) /\ Len(b) = Len(buffer) + Len(two)
        /\ \A i \in 1..Len(buffer) + Len(two) :
               b[i] = IF i <= Len(buffer) THEN buffer[i] ELSE two[i - Len(buffer)]
    BY <1>1, <1>3, ConcatProperties, Zenon
  <2>2. QED
    BY <1>3, <2>1
<1> HIDE DEF b
<1>5. ASSUME NEW i \in 1..Len(b) PROVE b[i] = Len(read) + i
  <2>1. CASE i <= Len(buffer)
    BY <1>2, <1>4, <2>1 DEF StreamCut
  <2>2. CASE i > Len(buffer)
    <3>1. i - Len(buffer) = 1 \/ i - Len(buffer) = 2
      BY <1>2, <1>4, <2>2
    <3>2. b[i] = wrote + (i - Len(buffer))
      BY <1>2, <1>3, <1>4, <2>2, <3>1
    <3>3. QED
      BY <1>2, <3>1, <3>2
  <2>3. QED
    BY <1>2, <1>4, <2>1, <2>2
<1>6. Len(read) + Len(b) = wrote' /\ wrote' \in Nat /\ wrote' \in 0..MaxPieces
  BY <1>1, <1>2, <1>4
<1>7. conn' = "up" /\ state' = "open" => wrote' <= 4
  BY <1>1
<1>8. \A i \in 1..Len(read) :
          read[i] = <<i, IF i < FirstTlsPiece THEN "clear" ELSE "tls">>
  BY DEF StreamCut
<1>9. QED
  BY <1>1, <1>4, <1>5, <1>6, <1>7, <1>8, SendKeepsStream

\* No connection and nothing written at first.
LEMMA InitSocket == SocketInit => SocketInv
<1> SUFFICES ASSUME SocketInit PROVE SocketInv
  OBVIOUS
<1>1. /\ state = "closed" /\ conn = "none" /\ wrote = 0 /\ buffer = <<>>
      /\ pending = "nothing" /\ read = <<>> /\ xmpp_state = "none"
  BY DEF SocketInit, XmppInit
<1>2. SocketTypeOK
  <2>1. <<>> \in Seq(Pieces) /\ <<>> \in Seq(Pieces \X {"clear", "tls"})
    BY EmptySeq
  <2>2. QED
    BY <1>1, <2>1 DEF SocketTypeOK
<1>3. StreamCut
  BY <1>1 DEF StreamCut
<1>4. StreamPhase /\ UnsentWillWake
  BY <1>1 DEF StreamPhase, UnsentWillWake, Stuck
<1>5. QED
  BY <1>2, <1>3, <1>4 DEF SocketInv

States == {"closed", "open", "tls_connecting", "tls_open"}
Conns == {"none", "connecting", "up", "failed", "down"}

\* SocketTypeOK with the sets that the proofs use.
LEMMA SocketTypes ==
    ASSUME SocketTypeOK
    PROVE  /\ state \in States /\ conn \in Conns /\ pending \in Waits
           /\ wrote \in 0..MaxPieces /\ buffer \in Seq(Pieces)
           /\ read \in Seq(Pieces \X Layers)
<1>1. Pieces \cup {0} = 0..MaxPieces
  BY PiecesAssumption DEF Pieces
<1>2. QED
  BY <1>1 DEF SocketTypeOK, States, Conns, Waits, Layers

\* ... and the other way round, for the state after a step.
LEMMA SocketTyped ==
    ASSUME state' \in States, conn' \in Conns, pending' \in Waits,
           wrote' \in 0..MaxPieces, buffer' \in Seq(Pieces), read' \in Seq(Pieces \X Layers)
    PROVE  SocketTypeOK'
<1>1. Pieces \cup {0} = 0..MaxPieces
  BY PiecesAssumption DEF Pieces
<1>2. QED
  BY <1>1 DEF SocketTypeOK, States, Conns, Waits, Layers

\* A new socket has a stream of its own.
LEMMA NewSocketKeeps ==
    ASSUME NewSocket, xmpp_state' # "open" PROVE SocketInv'
<1>1. /\ state' = "closed" /\ conn' = "connecting" /\ wrote' = 0 /\ buffer' = <<>>
      /\ pending' = "nothing" /\ read' = <<>>
  BY DEF NewSocket
<1>2. SocketTypeOK'
  <2>1. <<>> \in Seq(Pieces) /\ <<>> \in Seq(Pieces \X {"clear", "tls"})
    BY EmptySeq
  <2>2. QED
    BY <1>1, <2>1 DEF SocketTypeOK
<1>3. StreamCut'
  BY <1>1 DEF StreamCut
<1>4. StreamPhase' /\ UnsentWillWake'
  BY <1>1 DEF StreamPhase, UnsentWillWake, Stuck
<1>5. QED
  BY <1>2, <1>3, <1>4 DEF SocketInv

\* The connection ends; what the stream was no longer matters.
LEMMA EndKeeps ==
    ASSUME SocketInv, UNCHANGED <<wrote, buffer, pending, read>>,
           \/ state' = "closed" /\ conn' = "none" /\ xmpp_state' # "open"
           \/ UNCHANGED <<state, xmpp_state>> /\ conn' = "down"
    PROVE  SocketInv'
<1>1. SocketTypeOK'
  BY DEF SocketInv, SocketTypeOK
<1>2. StreamCut'
  BY DEF SocketInv, StreamCut
<1>3. StreamPhase' /\ UnsentWillWake'
  BY DEF SocketInv, StreamPhase, UnsentWillWake, Stuck
<1>4. QED
  BY <1>1, <1>2, <1>3 DEF SocketInv

\* A step of XmppNetwork that the socket does not notice.
LEMMA UnnoticedKeeps ==
    ASSUME SocketInv, UNCHANGED socket,
           xmpp_state' = xmpp_state \/ (xmpp_state # "open" /\ xmpp_state' # "open")
    PROVE  SocketInv'
<1>1. UNCHANGED <<state, conn, wrote, buffer, pending, read>>
  BY DEF socket
<1>2. SocketTypeOK'
  BY <1>1 DEF SocketInv, SocketTypeOK
<1>3. StreamCut'
  BY <1>1 DEF SocketInv, StreamCut
<1>4. StreamPhase' /\ UnsentWillWake'
  BY <1>1 DEF SocketInv, StreamPhase, UnsentWillWake, Stuck
<1>5. QED
  BY <1>2, <1>3, <1>4 DEF SocketInv

\* After the sign-on the client writes onto whatever waits.
LEMMA OutputKeeps ==
    ASSUME SocketInv, Output, xmpp_state = "open", xmpp_state' = "open"
    PROVE  SocketInv'
<1>1. UNCHANGED <<state, conn>> /\ state = "tls_open" /\ Len(read) >= 4
  BY DEF SocketInv, StreamPhase, Output
<1>2. CASE wrote + 2 <= MaxPieces /\ Write
  <2>1. SocketTypeOK /\ StreamCut /\ Len(read) \in Nat
    BY SocketTypes DEF SocketInv
  <2>2. /\ wrote' \in 0..MaxPieces /\ buffer' \in Seq(Pieces) /\ pending' \in Waits
        /\ read' \in Seq(Pieces \X Layers) /\ StreamCut' /\ UnsentWillWake'
        /\ Len(read') \in Nat /\ Len(read') >= Len(read)
    BY <1>1, <1>2, <2>1, WriteKeepsStream
  <2>3. SocketTypeOK'
    <3>1. state' \in States /\ conn' \in Conns
      BY <1>1, <2>1, SocketTypes
    <3>2. QED
      BY <2>2, <3>1, SocketTyped
  <2>4. Len(read') >= 4
    BY <1>1, <2>1, <2>2
  <2>5. StreamPhase'
    <3>1. conn' # "connecting"
      BY <1>1 DEF SocketInv, StreamPhase
    <3>2. QED
      BY <1>1, <2>4, <3>1 DEF StreamPhase
  <2>6. QED
    BY <2>2, <2>3, <2>5 DEF SocketInv
<1>3. CASE UNCHANGED socket
  BY <1>3, UnnoticedKeeps
<1>4. QED
  BY <1>2, <1>3 DEF Output

\* The engine, the adapter, the network and the watchdog keep the stream whole.
LEMMA StepSocket == SocketInv /\ [SocketNext]_svars => SocketInv'
<1> SUFFICES ASSUME SocketInv, [SocketNext]_svars PROVE SocketInv'
  OBVIOUS
<1>a. /\ state \in States /\ conn \in Conns /\ pending \in Waits
      /\ wrote \in 0..MaxPieces /\ buffer \in Seq(Pieces)
      /\ read \in Seq(Pieces \X Layers)
      /\ MaxPieces \in Nat /\ MaxPieces >= 8
  BY SocketTypes, PiecesAssumption DEF SocketInv
<1>b. /\ Len(read) \in Nat /\ Len(buffer) \in Nat /\ Len(read) + Len(buffer) = wrote
      /\ SocketTypeOK /\ StreamCut /\ StreamPhase
  BY <1>a DEF SocketInv, StreamCut
<1>1. CASE Login /\ NewSocket
  BY <1>1, NewSocketKeeps DEF Login, Connect
<1>2. CASE Watchdog
  <2>1. CASE (ReconnectUnstarted \/ ReconnectClosed) /\ NewSocket
    BY <2>1, NewSocketKeeps DEF ReconnectUnstarted, ReconnectClosed, Connect
  <2>2. CASE DoDisconnect /\ CloseSocket
    BY <2>2, EndKeeps DEF DoDisconnect, Closes, OnStateChange, CloseSocket
  <2>3. CASE ResendPresence /\ Output
    BY <2>3, OutputKeeps DEF ResendPresence, Healthy
  <2>4. CASE NothingToDo /\ UNCHANGED socket
    BY <2>4, UnnoticedKeeps DEF NothingToDo, session
  <2>5. QED
    BY <1>2, <2>1, <2>2, <2>3, <2>4 DEF Watchdog
<1>3. CASE Tick /\ UNCHANGED socket
  BY <1>3, UnnoticedKeeps DEF Tick, session
<1>4. CASE ServerCloses /\ CloseSocket
  BY <1>4, EndKeeps DEF ServerCloses, Closes, OnStateChange, CloseSocket
<1>5. CASE PingTimesOut
  BY <1>5, UnnoticedKeeps DEF PingTimesOut, TaskFails
<1>6. CASE Progress /\ xmpp_state' = "start" /\ UNCHANGED socket
  <2>1. xmpp_state # "open"
    BY <1>6 DEF Progress
  <2>2. QED
    BY <1>6, <2>1, UnnoticedKeeps
<1>7. CASE OnConnectEvent
  <2>1. /\ conn = "connecting" /\ conn' = "up" /\ state' = "open" /\ Write
        /\ xmpp_state' = "opening"
    BY <1>7 DEF OnConnectEvent
  <2>2. wrote = 0 /\ wrote + 2 <= MaxPieces
    BY <1>a, <1>b, <2>1 DEF StreamPhase
  <2>3. /\ wrote' = 2 /\ wrote' \in 0..MaxPieces /\ buffer' \in Seq(Pieces)
        /\ pending' \in Waits /\ read' \in Seq(Pieces \X Layers)
        /\ StreamCut' /\ UnsentWillWake'
    BY <1>b, <2>1, <2>2, WriteKeepsStream
  <2>4. SocketTypeOK'
    BY <2>1, <2>3, SocketTyped DEF States, Conns
  <2>5. StreamPhase'
    BY <2>1, <2>3 DEF StreamPhase
  <2>6. QED
    BY <2>3, <2>4, <2>5 DEF SocketInv
<1>8. CASE OnConnectEventTls
  <2>1. /\ conn = "up" /\ state = "tls_connecting" /\ state' = "tls_open"
        /\ OnWriteEvent(buffer) /\ conn' = conn /\ wrote' = wrote
        /\ xmpp_state' = xmpp_state
    BY <1>8 DEF OnConnectEventTls, xvars, session
  <2>2. wrote = 6 /\ Len(read) = 4
    BY <1>b, <2>1 DEF StreamPhase
  <2>3. /\ buffer' \in Seq(Pieces) /\ pending' \in Waits /\ read' \in Seq(Pieces \X Layers)
        /\ StreamCut' /\ UnsentWillWake' /\ Len(read') \in Nat /\ Len(read') >= Len(read)
    <3>1. /\ \A i \in 1..Len(read) :
                read[i] = <<i, IF i < FirstTlsPiece THEN "clear" ELSE "tls">>
          /\ \A i \in 1..Len(buffer) : buffer[i] = Len(read) + i
      BY <1>b DEF StreamCut
    <3>2. /\ wrote' \in Nat /\ Len(read) >= 4 /\ Len(read) + Len(buffer) = wrote'
          /\ state' \in {"open", "tls_connecting", "tls_open"} /\ state' # "open"
      BY <1>b, <2>1, <2>2
    <3>3. QED
      BY <1>a, <2>1, <3>1, <3>2, SendKeepsStream
  <2>4. SocketTypeOK'
    BY <1>a, <2>1, <2>3, SocketTyped DEF States
  <2>5. Len(read') >= 4
    BY <2>2, <2>3
  <2>6. StreamPhase'
    BY <1>b, <2>1, <2>2, <2>5 DEF StreamPhase
  <2>7. QED
    BY <2>3, <2>4, <2>6 DEF SocketInv
<1>9. CASE OnCloseEvent
  BY <1>9, EndKeeps DEF OnCloseEvent, xvars, session
<1>10. CASE SignalWriteEvent
  <2>1. /\ conn = "up" /\ OnWriteEvent(buffer)
        /\ state' = state /\ conn' = conn /\ wrote' = wrote /\ xmpp_state' = xmpp_state
    BY <1>10 DEF SignalWriteEvent, xvars, session
  <2>2. /\ state \in {"open", "tls_connecting", "tls_open"}
        /\ state = "open" => wrote <= 4
        /\ state = "tls_open" => Len(read) >= 4
    BY <1>a, <1>b, <2>1 DEF StreamPhase, States
  <2>3. /\ buffer' \in Seq(Pieces) /\ pending' \in Waits /\ read' \in Seq(Pieces \X Layers)
        /\ StreamCut' /\ UnsentWillWake' /\ Len(read') \in Nat /\ Len(read') >= Len(read)
        /\ state = "tls_connecting" => Len(read') = Len(read)
    <3>1. /\ \A i \in 1..Len(read) :
                read[i] = <<i, IF i < FirstTlsPiece THEN "clear" ELSE "tls">>
          /\ \A i \in 1..Len(buffer) : buffer[i] = Len(read) + i
      BY <1>b DEF StreamCut
    <3>2. wrote' \in Nat /\ Len(read) + Len(buffer) = wrote'
      BY <1>a, <1>b, <2>1
    <3>3. QED
      BY <1>a, <2>1, <2>2, <3>1, <3>2, SendKeepsStream
  <2>4. SocketTypeOK'
    BY <1>a, <2>1, <2>3, SocketTyped
  <2>5. state = "tls_open" => Len(read') >= 4
    BY <1>b, <2>2, <2>3
  <2>6. StreamPhase'
    BY <1>b, <2>1, <2>3, <2>5 DEF StreamPhase
  <2>7. QED
    BY <2>3, <2>4, <2>6 DEF SocketInv
<1>11. CASE RequestTls
  <2>1. /\ conn = "up" /\ state = "open" /\ wrote = 2 /\ Write
        /\ state' = state /\ conn' = conn /\ xmpp_state' = xmpp_state
    BY <1>11 DEF RequestTls, xvars, session
  <2>2. /\ wrote' = 4 /\ wrote' \in 0..MaxPieces /\ buffer' \in Seq(Pieces)
        /\ pending' \in Waits /\ read' \in Seq(Pieces \X Layers)
        /\ StreamCut' /\ UnsentWillWake'
    <3>1. wrote + 2 <= MaxPieces /\ wrote <= 2
      BY <1>a, <2>1
    <3>2. QED
      BY <1>b, <2>1, <3>1, WriteKeepsStream
  <2>3. SocketTypeOK'
    BY <1>a, <2>1, <2>2, SocketTyped
  <2>4. StreamPhase'
    BY <1>b, <2>1, <2>2 DEF StreamPhase
  <2>5. QED
    BY <2>2, <2>3, <2>4 DEF SocketInv
<1>12. CASE StartTls
  <2>1. /\ conn = "up" /\ state = "open" /\ Len(read) = 4 /\ Write
        /\ \/ state' = "tls_connecting" /\ conn' = conn
           \/ conn' = "failed" /\ state' = state
        /\ xmpp_state' = xmpp_state
    BY <1>12 DEF StartTls, xvars, session
  <2>2. wrote = 4 /\ wrote + 2 <= MaxPieces
    BY <1>a, <1>b, <2>1 DEF StreamPhase
  <2>3. /\ wrote' = 6 /\ wrote' \in 0..MaxPieces /\ buffer' \in Seq(Pieces)
        /\ pending' \in Waits /\ read' \in Seq(Pieces \X Layers)
        /\ StreamCut' /\ UnsentWillWake'
        /\ state' = "tls_connecting" => Len(read') = 4
    <3>1. /\ state' \in {"open", "tls_connecting", "tls_open"} /\ state' # "tls_open"
          /\ ~(conn' = "up" /\ state' = "open")
      BY <2>1
    <3>2. QED
      BY <1>b, <2>1, <2>2, <3>1, WriteKeepsStream
  <2>4. SocketTypeOK'
    BY <1>a, <2>1, <2>3, SocketTyped DEF States, Conns
  <2>5. StreamPhase'
    BY <1>b, <2>1, <2>3 DEF StreamPhase
  <2>6. QED
    BY <2>3, <2>4, <2>5 DEF SocketInv
<1>13. CASE SignedOn
  <2>1. /\ conn = "up" /\ state = "tls_open" /\ Progress /\ xmpp_state' = "open"
        /\ Write /\ state' = state /\ conn' = conn
    BY <1>13 DEF SignedOn
  <2>2. xmpp_state # "open"
    BY <2>1 DEF Progress
  <2>3. wrote = 6 /\ Len(read) >= 4 /\ wrote + 2 <= MaxPieces
    BY <1>a, <1>b, <2>1, <2>2 DEF StreamPhase
  <2>4. /\ wrote' \in 0..MaxPieces /\ buffer' \in Seq(Pieces)
        /\ pending' \in Waits /\ read' \in Seq(Pieces \X Layers)
        /\ StreamCut' /\ UnsentWillWake' /\ Len(read') \in Nat /\ Len(read') >= Len(read)
    BY <1>b, <2>1, <2>3, WriteKeepsStream
  <2>5. SocketTypeOK'
    BY <1>a, <2>1, <2>4, SocketTyped
  <2>6. Len(read') >= 4
    BY <1>b, <2>3, <2>4
  <2>7. StreamPhase'
    BY <2>1, <2>6 DEF StreamPhase
  <2>8. QED
    BY <2>4, <2>5, <2>7 DEF SocketInv
<1>14. CASE SendStanza
  BY <1>14, OutputKeeps DEF SendStanza, xvars, session
<1>15. CASE UNCHANGED svars
  BY <1>15, UnnoticedKeeps DEF svars, xvars, session
<1>16. QED
  BY <1>1, <1>2, <1>3, <1>4, <1>5, <1>6, <1>7, <1>8, <1>9, <1>10, <1>11, <1>12, <1>13, <1>14, <1>15
     DEF SocketNext

\* The invariant of the socket holds at every moment.
THEOREM SocketInvariant == SocketSpec => []SocketInv
BY InitSocket, StepSocket, PTL DEF SocketSpec

\* Every variable of TinCanXmppSocket keeps its type.
THEOREM SocketTypeCorrect == SocketSpec => []SocketTypeOK
<1>1. SocketInv => SocketTypeOK
  BY DEF SocketInv
<1>2. QED
  BY <1>1, SocketInvariant, PTL

\* However Send cuts the stream or fails, and however much is written while
\* earlier bytes wait, the server reads it once and in order, and nothing that
\* was written after STARTTLS in clear.
THEOREM StreamStaysIntact == SocketSpec => []StreamIntact
<1>1. SocketInv => StreamIntact
  <2> SUFFICES ASSUME SocketInv PROVE StreamIntact
    OBVIOUS
  <2> DEFINE pieces == [i \in DOMAIN read |-> read[i][1]]
             stream == [i \in 1..wrote |-> i]
  <2>1. /\ wrote \in 0..MaxPieces /\ MaxPieces \in Nat /\ buffer \in Seq(Pieces) /\ read \in Seq(Pieces \X Layers)
        /\ Len(read) \in Nat /\ Len(buffer) \in Nat /\ Len(read) + Len(buffer) = wrote
        /\ DOMAIN read = 1..Len(read)
    BY SocketTypes, PiecesAssumption DEF SocketInv, StreamCut
  <2>2. \A i \in 1..Len(read) : read[i] = <<i, IF i < FirstTlsPiece THEN "clear" ELSE "tls">>
    BY DEF SocketInv, StreamCut
  <2>3. /\ pieces \in Seq(Pieces) /\ Len(pieces) = Len(read)
        /\ \A i \in 1..Len(read) : pieces[i] = i
    <3>1. \A i \in 1..Len(read) : read[i][1] = i /\ i \in Pieces
      BY <2>1, <2>2 DEF Pieces
    <3>2. QED
      BY <2>1, <3>1
  <2>4. /\ stream \in Seq(Pieces) /\ Len(stream) = wrote /\ \A i \in 1..wrote : stream[i] = i
    <3>1. \A i \in 1..wrote : i \in Pieces
      BY <2>1 DEF Pieces
    <3>2. QED
      BY <2>1, <3>1
  <2> HIDE DEF pieces, stream
  <2>5. /\ pieces \o buffer \in Seq(Pieces) /\ Len(pieces \o buffer) = wrote
        /\ \A i \in 1..wrote : (pieces \o buffer)[i] =
               IF i <= Len(read) THEN pieces[i] ELSE buffer[i - Len(read)]
    <3>1. /\ pieces \o buffer \in Seq(Pieces)
          /\ Len(pieces \o buffer) = Len(pieces) + Len(buffer)
          /\ \A i \in 1..Len(pieces) + Len(buffer) : (pieces \o buffer)[i] =
                 IF i <= Len(pieces) THEN pieces[i] ELSE buffer[i - Len(pieces)]
      BY <2>1, <2>3, ConcatProperties, Zenon
    <3>2. Len(pieces) = Len(read) /\ Len(pieces) + Len(buffer) = wrote
      BY <2>1, <2>3
    <3>3. QED
      BY <3>1, <3>2, Zenon
  <2>6. ASSUME NEW i \in 1..wrote PROVE (pieces \o buffer)[i] = stream[i]
    <3>1. CASE i <= Len(read)
      BY <2>1, <2>3, <2>4, <2>5, <3>1
    <3>2. CASE i > Len(read)
      <4>1. i - Len(read) \in 1..Len(buffer)
        BY <2>1, <3>2
      <4>2. buffer[i - Len(read)] = Len(read) + (i - Len(read))
        BY <4>1 DEF SocketInv, StreamCut
      <4>3. QED
        BY <2>1, <2>4, <2>5, <3>2, <4>2
    <3>3. i <= Len(read) \/ i > Len(read)
      BY <2>1
    <3>4. QED
      BY <3>1, <3>2, <3>3
  <2>7. pieces \o buffer = stream
    BY <2>4, <2>5, <2>6, SeqEqual
  <2>8. \A i \in DOMAIN read : read[i][2] = IF i < FirstTlsPiece THEN "clear" ELSE "tls"
    BY <2>1, <2>2
  <2>9. QED
    BY <2>7, <2>8 DEF StreamIntact, pieces, stream
<1>2. QED
  BY <1>1, SocketInvariant, PTL

\* Unless a Send has failed, what TinCanXmppSocket could not send is not
\* forgotten while the connection is up: the end of the TLS handshake or a write
\* event will send it.
THEOREM UnsentAlwaysWakes == SocketSpec => []UnsentWillWake
<1>1. SocketInv => UnsentWillWake
  BY DEF SocketInv
<1>2. QED
  BY <1>1, SocketInvariant, PTL

\* What was proved of XmppNetwork holds with the socket below it, which decides
\* when the client opens and closes.
THEOREM SessionsKeepPromises ==
    SocketSpec => [](/\ XmppTypeOK /\ NothingDeletedTwice /\ SendUsesLiveTask
                     /\ WatchdogArmed /\ PresenceFresh)
BY SocketImplementsXmpp, XmppInvariant, XmppMeaning, PTL
=============================================================================
