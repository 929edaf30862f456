------------------------------ MODULE XmppSocket ------------------------------
(***************************************************************************)
(* XmppNetwork with the socket of its client: TinCanXmppSocket keeps what  *)
(* it cannot send in a buffer, goes through TLS on the way, and does not   *)
(* tell the client that a connection is lost or a Send has failed.         *)
(*                                                                         *)
(* The stream of one connection is cut into numbered pieces, two for every *)
(* Write, so that a Send can stop half way.  The engine of libjingle sends *)
(* the stream header, STARTTLS once the server has read that, and, as soon *)
(* as TLS may begin but without waiting for it, the second header; then    *)
(* the rest of the login (left out) and the presence.  From then on it     *)
(* writes pings, presences and messages, whatever still waits.             *)
(***************************************************************************)
EXTENDS XmppNetwork, Sequences

CONSTANT MaxPieces      \* bound: the pieces of a stream that are followed

ASSUME PiecesAssumption == MaxPieces \in Nat /\ MaxPieces >= 8

VARIABLES
    state,      \* state_ of the socket
    conn,       \* the connection below it; "failed": the SSL adapter is of no use
    wrote,      \* pieces that the engine has written
    buffer,     \* buffer_: pieces not sent
    pending,    \* what the last Send leaves to come: "event", a write event, as
                \* it would block; "error", nothing, as it failed for good
    read        \* what the server has read: pieces, each with its layer

socket == <<state, conn, wrote, buffer, pending, read>>
svars == <<xvars, socket>>

Pieces == 1..MaxPieces
FirstTlsPiece == 5

SocketTypeOK ==
    /\ state \in {"closed", "open", "tls_connecting", "tls_open"}
    /\ conn \in {"none", "connecting", "up", "failed", "down"}
    /\ wrote \in Pieces \cup {0}
    /\ buffer \in Seq(Pieces)
    /\ pending \in {"nothing", "event", "error"}
    /\ read \in Seq(Pieces \X {"clear", "tls"})

SocketInit ==
    /\ XmppInit
    /\ state = "closed" /\ conn = "none"
    /\ wrote = 0 /\ buffer = <<>> /\ pending = "nothing" /\ read = <<>>

-----------------------------------------------------------------------------
\* The socket, as the step leaves it, tries to send the pieces b.  The SSL
\* adapter takes none before its handshake is over, and then signals no write
\* event either; a connection that is lost takes none for good.
OnWriteEvent(b) ==
    \E taken \in 0..Len(b) :
        /\ taken > 0 => conn' = "up" /\ state' # "tls_connecting"
        /\ buffer' = SubSeq(b, taken + 1, Len(b))
        /\ read' = read \o [i \in 1..taken |->
                       <<b[i], IF state' = "tls_open" THEN "tls" ELSE "clear">>]
        /\ pending' \in IF taken = Len(b) \/ state' = "tls_connecting" THEN {"nothing"}
                        ELSE IF conn' = "up" THEN {"event", "error"} ELSE {"error"}

Write_Overtakes ==
    /\ wrote' = wrote + 2
    /\ OnWriteEvent(<<wrote + 1, wrote + 2>> \o buffer)

Write ==
    /\ wrote' = wrote + 2
    /\ OnWriteEvent(buffer \o <<wrote + 1, wrote + 2>>)

OnConnectEventTls_NoFlush ==
    /\ conn = "up" /\ state = "tls_connecting"
    /\ state' = "tls_open"
    /\ UNCHANGED <<xvars, conn, wrote, buffer, pending, read>>

\* The SSL adapter has finished its handshake.
OnConnectEventTls ==
    /\ conn = "up" /\ state = "tls_connecting"
    /\ state' = "tls_open"
    /\ UNCHANGED <<xvars, conn, wrote>>
    /\ OnWriteEvent(buffer)

\* The connection is made: the engine opens the stream.
OnConnectEvent ==
    /\ conn = "connecting"
    /\ conn' = "up"
    /\ state' = "open"
    /\ Progress /\ xmpp_state' = "opening"
    /\ Write

\* Nobody is told: XmppNetwork::OnCloseEvent only logs.
OnCloseEvent ==
    /\ conn \in {"connecting", "up", "failed"}
    /\ conn' = "down"
    /\ UNCHANGED <<xvars, state, wrote, buffer, pending, read>>

SignalWriteEvent ==
    /\ conn = "up" /\ pending = "event"
    /\ UNCHANGED <<xvars, state, conn, wrote>>
    /\ OnWriteEvent(buffer)

-----------------------------------------------------------------------------
(* The engine.  During the login it waits for answers, which the server    *)
(* gives to what it has read.                                              *)

RequestTls ==
    /\ conn = "up" /\ state = "open"
    /\ wrote = 2 /\ Len(read) = 2
    /\ UNCHANGED <<xvars, state, conn>>
    /\ Write

\* The engine does not learn whether StartSSL failed: it writes the header.
StartTls ==
    /\ conn = "up" /\ state = "open"
    /\ Len(read) = 4
    /\ \/ state' = "tls_connecting" /\ UNCHANGED conn
       \/ conn' = "failed" /\ UNCHANGED state
    /\ UNCHANGED xvars
    /\ Write

\* OnSignOn sends the presence.
SignedOn ==
    /\ conn = "up" /\ state = "tls_open"
    /\ Len(read) = 6
    /\ UNCHANGED <<state, conn>>
    /\ Progress /\ xmpp_state' = "open"
    /\ Write

\* What the client writes after the sign-on, also onto what waits to be sent.
Output ==
    /\ UNCHANGED <<state, conn>>
    /\ IF wrote + 2 <= MaxPieces THEN Write ELSE UNCHANGED socket

\* A message to the peer, or a ping.
SendStanza ==
    /\ client = "running" /\ xmpp_state = "open"
    /\ UNCHANGED xvars
    /\ Output

\* The client closes its socket and deletes it.  Close refuses once TLS has
\* begun, but the destructor ends the connection all the same.  The end tag that
\* the engine writes before is left out.
CloseSocket ==
    /\ state' = "closed" /\ conn' = "none"
    /\ UNCHANGED <<wrote, buffer, pending, read>>

NewSocket_Reused ==
    /\ state' = "closed" /\ conn' = "connecting"
    /\ UNCHANGED <<wrote, buffer, pending, read>>

\* XmppNetwork::Connect makes a socket for its new client.
NewSocket ==
    /\ state' = "closed" /\ conn' = "connecting"
    /\ wrote' = 0 /\ buffer' = <<>> /\ pending' = "nothing" /\ read' = <<>>

Watchdog ==
    \/ (ReconnectUnstarted \/ ReconnectClosed) /\ NewSocket
    \/ DoDisconnect /\ CloseSocket
    \/ ResendPresence /\ Output
    \/ NothingToDo /\ UNCHANGED socket

\* Also for no reason: the answer may only be late.
PingTimesOut == TaskFails /\ UNCHANGED socket

SocketNext ==
    \/ Login /\ NewSocket
    \/ Watchdog
    \/ Tick /\ UNCHANGED socket
    \/ ServerCloses /\ CloseSocket
    \/ PingTimesOut
    \/ Progress /\ xmpp_state' = "start" /\ UNCHANGED socket
    \/ OnConnectEvent
    \/ OnConnectEventTls
    \/ OnCloseEvent
    \/ SignalWriteEvent
    \/ RequestTls
    \/ StartTls
    \/ SignedOn
    \/ SendStanza

SocketSpec == SocketInit /\ [][SocketNext]_svars

\* Bytes that neither the TLS handshake nor a write event will send.
Stuck ==
    conn = "up" /\ buffer # <<>> /\ state # "tls_connecting" /\ pending # "event"

\* As in XmppFairSpec; and a ping is never answered over a lost connection, nor
\* while it waits behind bytes that nothing will send.
SocketFairSpec ==
    /\ SocketSpec
    /\ WF_svars(Watchdog)
    /\ WF_svars(Tick /\ UNCHANGED socket)
    /\ WF_svars((conn = "down" \/ Stuck) /\ PingTimesOut)

-----------------------------------------------------------------------------
\* However the stream is cut by sockets that take only part of it or fail, and
\* whatever is written while earlier bytes still wait, the server reads every
\* piece once and in order, in clear up to STARTTLS and under TLS after it.
StreamIntact ==
    /\ [i \in DOMAIN read |-> read[i][1]] \o buffer = [i \in 1..wrote |-> i]
    /\ \A i \in DOMAIN read :
           read[i][2] = IF i < FirstTlsPiece THEN "clear" ELSE "tls"

\* Bytes of a connection that is up wait for the TLS handshake, whose end sends
\* them, or for a write event; nothing else makes them wait but a failed Send.
UnsentWillWake == Stuck => pending = "error"

\* Although TinCanXmppSocket only logs a failed Send and drops the failure of
\* StartSSL, and XmppNetwork only logs the loss of a connection, the ping or
\* the watchdog notices each of them at any stage and replaces the session.
LossNoticed ==
    LET Lost == conn \in {"failed", "down"} \/ Stuck
    IN  Lost ~> ~Lost
===============================================================================
