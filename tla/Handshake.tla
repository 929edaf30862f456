------------------------------ MODULE Handshake -------------------------------
(***************************************************************************)
(* Two tincan nodes that find each other through an XMPP server and set up *)
(* a link: presence and g_uid_map, the stanzas con_req and con_resp, the   *)
(* callbacks to the controllers and the CREATE_LINKs they answer with.     *)
(*                                                                         *)
(* get_key cuts a fixed number of characters out of the resource of a JID, *)
(* so that the server may append to it: every session of a node has a JID  *)
(* of its own here, its number.  A connection can be lost unnoticed; the   *)
(* server reports the end of a session when it likes, perhaps after the    *)
(* next one has begun, and tells a new session of the peer when it likes,  *)
(* perhaps after stanzas of the peer.  What the controllers do on their    *)
(* own (ask, create, trim) they may do at any time; to a callback they     *)
(* answer as the arguments of CREATE_LINK suggest.                         *)
(*                                                                         *)
(* Inside one node the steps of LinkManager and XmppNetwork are taken at   *)
(* once.  Name_Fault is Name with a bug.                                   *)
(***************************************************************************)
EXTENDS Naturals, Sequences

CONSTANTS
    MaxSessions,    \* bound: the sessions of each node
    MaxLinks,       \* bound: the links that each node creates
    MaxStanzas,     \* bound: stanzas on the way to a node
    MaxCallbacks    \* bound: messages on the way to a controller

Nodes == {1, 2}         \* ordered as their identifiers are

ASSUME BoundsAssumption ==
    /\ {MaxStanzas, MaxCallbacks} \subseteq Nat \ {0}
    /\ \A n \in Nodes : {MaxSessions[n], MaxLinks[n]} \subseteq Nat \ {0}

Other(n) == 3 - n

VARIABLES
    setup,      \* SET_LOCAL_IP: "none", or done with or without a certificate
    endpoint,   \* SET_CB_ENDPOINT: remote_addr_ has an address
    session,    \* the XMPP session: its JID and status
    gone,       \* ended sessions that the server still takes for available
    owed,       \* the peer's sessions that it has yet to tell the node's of
    jid,        \* g_uid_map: the peer's JID, 0 if it has no entry
    friend,     \* presence_time_: the peer has an entry
    wire,       \* stanzas on the way to the node, in order
    ctrl,       \* callbacks on the way to the node's controller
    link,       \* uid_map_: the link to the peer
    links       \* links created so far

config == <<setup, endpoint>>
presence == <<session, gone, owed>>
known == <<jid, friend>>
hvars == <<config, presence, known, wire, ctrl, link, links>>

Jids == 1..(MaxSessions[1] + MaxSessions[2])
LinkIds == 1..(MaxLinks[1] + MaxLinks[2])

\* A presence stanza, or a con_req or con_resp.  fpr: the fingerprint is not
\* null.  link: whose candidates they are, 0 for none.
Stanzas ==
    [type: {"available", "unavailable"}, from: Jids]
    \cup [type: {"con_req", "con_resp"}, from: Jids, fpr: BOOLEAN, link: LinkIds \cup {0}]

\* cands: the peer's link whose candidates were handed to CreateConnections.
Links ==
    [id: LinkIds, controls: BOOLEAN, active: BOOLEAN, dtls: BOOLEAN,
     announced: BOOLEAN, cands: LinkIds \cup {0}]
NoLink == [id |-> 0]

\* An entry of g_uid_map is a JID that the peer has had.
HandshakeTypeOK ==
    /\ setup \in [Nodes -> {"none", "plain", "cert"}]
    /\ endpoint \in [Nodes -> BOOLEAN]
    /\ session \in [Nodes -> [jid: Jids \cup {0},
                              status: {"off", "open", "broken", "closed"}]]
    /\ gone \in [Nodes -> SUBSET Jids]
    /\ owed \in [Nodes -> SUBSET Jids]
    /\ \A n \in Nodes : jid[n] \in 0..session[Other(n)].jid
    /\ friend \in [Nodes -> BOOLEAN]
    /\ \A n \in Nodes : wire[n] \in Seq(Stanzas) /\ ctrl[n] \in Seq(Stanzas)
    /\ link \in [Nodes -> Links \cup {NoLink}]
    /\ links \in [Nodes -> LinkIds \cup {0}]

HandshakeInit ==
    /\ setup = [n \in Nodes |-> "none"]
    /\ endpoint = [n \in Nodes |-> FALSE]
    /\ session = [n \in Nodes |-> [jid |-> 0, status |-> "off"]]
    /\ gone = [n \in Nodes |-> {}]
    /\ owed = [n \in Nodes |-> {}]
    /\ jid = [n \in Nodes |-> 0]
    /\ friend = [n \in Nodes |-> FALSE]
    /\ wire = [n \in Nodes |-> <<>>]
    /\ ctrl = [n \in Nodes |-> <<>>]
    /\ link = [n \in Nodes |-> NoLink]
    /\ links = [n \in Nodes |-> 0]

Open(n) == session[n].status = "open"
Room(n) == Len(wire[n]) < MaxStanzas

-----------------------------------------------------------------------------
(* The server.                                                             *)

\* The sessions of n that it takes for available.
Believed(n) == gone[n] \cup (IF Open(n) THEN {session[n].jid} ELSE {})

\* A stanza goes to a session that is connected, or nowhere.
Route(n, to, stanzas) ==
    IF Open(n) /\ to = session[n].jid
    THEN [wire EXCEPT ![n] = @ \o stanzas] ELSE wire

Presence(type, from) == [type |-> type, from |-> from]

\* It reports the end of a session to the peer.
ReportsGone(n) ==
    \E s \in gone[n] :
        /\ Room(Other(n))
        /\ gone' = [gone EXCEPT ![n] = @ \ {s}]
        /\ owed' = [owed EXCEPT ![Other(n)] = @ \ {s}]
        /\ wire' = Route(Other(n), session[Other(n)].jid, <<Presence("unavailable", s)>>)
        /\ UNCHANGED <<config, session, known, ctrl, link, links>>

\* It answers the presence of a new session with those of the peer, one by one,
\* in any order and behind any other stanza.
Greet(n) ==
    \E s \in owed[n] :
        /\ Open(n) /\ Room(n)
        /\ owed' = [owed EXCEPT ![n] = @ \ {s}]
        /\ wire' = Route(n, session[n].jid, <<Presence("available", s)>>)
        /\ UNCHANGED <<config, session, gone, known, ctrl, link, links>>

\* The connection is lost: what is on the way to the node never arrives.
Break(n) ==
    /\ Open(n)
    /\ session[n].jid < MaxSessions[n]
    /\ session' = [session EXCEPT ![n].status = "broken"]
    /\ gone' = [gone EXCEPT ![n] = @ \cup {session[n].jid}]
    /\ owed' = [owed EXCEPT ![n] = {}]
    /\ wire' = [wire EXCEPT ![n] = <<>>]
    /\ UNCHANGED <<config, known, ctrl, link, links>>

-----------------------------------------------------------------------------
(* The session of a node.                                                  *)

SetLocalIp(n, cert) ==
    /\ setup[n] = "none"
    /\ setup' = [setup EXCEPT ![n] = IF cert THEN "cert" ELSE "plain"]
    /\ UNCHANGED <<endpoint, presence, known, wire, ctrl, link, links>>

SetCbEndpoint(n) ==
    /\ endpoint' = [endpoint EXCEPT ![n] = TRUE]
    /\ UNCHANGED <<setup, presence, known, wire, ctrl, link, links>>

\* REGISTER_SVC, which needs the uid of SET_LOCAL_IP, or the watchdog.  The
\* node's presence goes to the peer.
SignOn(n) ==
    /\ setup[n] # "none"
    /\ session[n].status \in {"off", "closed"}
    /\ session[n].jid < MaxSessions[n]
    /\ Room(Other(n))
    /\ LET new == session[n].jid + 1
           p == Other(n)
       IN  /\ session' = [session EXCEPT ![n] = [jid |-> new, status |-> "open"]]
           /\ wire' = Route(p, session[p].jid, <<Presence("available", new)>>)
           /\ owed' = [owed EXCEPT ![n] = Believed(p)]
    /\ UNCHANGED <<config, gone, known, ctrl, link, links>>

\* The ping times out and the watchdog disconnects.
Notice(n) ==
    /\ session[n].status = "broken"
    /\ session' = [session EXCEPT ![n].status = "closed"]
    /\ UNCHANGED <<config, gone, owed, known, wire, ctrl, link, links>>

\* Every two minutes.
ResendPresence(n) ==
    /\ Open(n)
    /\ Room(Other(n))
    /\ wire' = Route(Other(n), session[Other(n)].jid, <<Presence("available", session[n].jid)>>)
    /\ UNCHANGED <<config, presence, known, ctrl, link, links>>

\* Without a callback endpoint the message is not sent.
CallBack(n, m) == IF endpoint[n] THEN [ctrl EXCEPT ![n] = Append(@, m)] ELSE ctrl

Learned_Own(n, from) == [jid EXCEPT ![n] = session[n].jid]

Learned_Once(n, from) == IF jid[n] = 0 THEN [jid EXCEPT ![n] = from] ELSE jid

Learned(n, from) == [jid EXCEPT ![n] = from]

\* SetTime: what carries no message is taken for a presence.
Timed(n, type) ==
    IF type \in {"con_req", "con_resp"} THEN friend ELSE [friend EXCEPT ![n] = TRUE]

\* TinCanTask: every stanza of the peer renews its JID, whatever its type.
ProcessStart(n) ==
    /\ Open(n)
    /\ wire[n] # <<>>
    /\ Len(ctrl[n]) < MaxCallbacks
    /\ LET m == Head(wire[n])
       IN  /\ jid' = Learned(n, m.from)
           /\ friend' = Timed(n, m.type)
           /\ ctrl' = IF m.type \in {"con_req", "con_resp"} THEN CallBack(n, m) ELSE ctrl
    /\ wire' = [wire EXCEPT ![n] = Tail(@)]
    /\ UNCHANGED <<config, presence, link, links>>

\* Nothing is sent, and nobody told, while the session is not open or the peer
\* has no entry; a broken session sends in vain.
SendToPeer(n, type, id) ==
    IF Open(n) /\ jid[n] # 0
    THEN Route(Other(n), jid[n],
               <<[type |-> type, from |-> session[n].jid,
                  fpr |-> setup[n] = "cert", link |-> id]>>)
    ELSE wire

-----------------------------------------------------------------------------
(* Links.                                                                  *)

\* The controller has its own fingerprint sent to the peer.
AskPeer(n) ==
    /\ link[n] = NoLink
    /\ Room(Other(n))
    /\ wire' = SendToPeer(n, "con_req", 0)
    /\ UNCHANGED <<config, presence, known, ctrl, link, links>>

Secured_PeerOnly(n, fpr) == fpr

Secured(n, fpr) == fpr /\ setup[n] = "cert"

\* CreateTransport and SetupTransport.
NewLink(n, fpr, cands) ==
    [id |-> links[n] + 1, controls |-> Other(n) < n, active |-> Other(n) > n,
     dtls |-> Secured(n, fpr), announced |-> FALSE, cands |-> cands]

Answered_IfCreated(n, m) ==
    IF link[n] = NoLink THEN NewLink(n, m.fpr, m.link) ELSE link[n]

\* CREATE_LINK with the candidates of the message, none for a con_req: a link
\* that exists takes them if it has none.
Answered(n, m) ==
    IF link[n] = NoLink THEN NewLink(n, m.fpr, m.link)
    ELSE IF link[n].cands = 0 THEN [link[n] EXCEPT !.cands = m.link]
    ELSE link[n]

\* CREATE_LINK of the controller's own accord, before any stanza of the peer or
\* after: it has the peer's fingerprint from elsewhere, and no candidates.
CreateLink(n) ==
    /\ setup[n] # "none" /\ setup[Other(n)] # "none"
    /\ link[n] = NoLink
    /\ link' = [link EXCEPT ![n] = NewLink(n, setup[Other(n)] = "cert", 0)]
    /\ links' = [links EXCEPT ![n] = @ + 1]
    /\ UNCHANGED <<config, presence, known, wire, ctrl>>

Answer(n) ==
    /\ ctrl[n] # <<>>
    /\ ctrl' = [ctrl EXCEPT ![n] = Tail(@)]
    /\ link' = [link EXCEPT ![n] = Answered(n, Head(ctrl[n]))]
    /\ links' = IF link[n] = NoLink THEN [links EXCEPT ![n] = @ + 1] ELSE links
    /\ UNCHANGED <<config, presence, known, wire>>

\* The con_resp, sent once.
AllocationDone(n) ==
    /\ link[n] # NoLink
    /\ ~link[n].announced
    /\ Room(Other(n))
    /\ link' = [link EXCEPT ![n].announced = TRUE]
    /\ wire' = SendToPeer(n, "con_resp", link[n].id)
    /\ UNCHANGED <<config, presence, known, ctrl, links>>

\* The last link that the bound allows is kept.
TrimLink(n) ==
    /\ link[n] # NoLink
    /\ links[n] < MaxLinks[n]
    /\ link' = [link EXCEPT ![n] = NoLink]
    /\ UNCHANGED <<config, presence, known, wire, ctrl, links>>

-----------------------------------------------------------------------------
HandshakeNext ==
    \E n \in Nodes :
        \/ \E cert \in BOOLEAN : SetLocalIp(n, cert)
        \/ SetCbEndpoint(n)
        \/ SignOn(n)
        \/ Notice(n)
        \/ ResendPresence(n)
        \/ ProcessStart(n)
        \/ ReportsGone(n)
        \/ Greet(n)
        \/ Break(n)
        \/ AskPeer(n)
        \/ CreateLink(n)
        \/ Answer(n)
        \/ AllocationDone(n)
        \/ TrimLink(n)

HandshakeSpec == HandshakeInit /\ [][HandshakeNext]_hvars

\* A connected node reads its stanzas, resends its presence and finishes
\* gathering (strongly: Room is a bound of the model), controllers answer.
HandshakeFairSpec ==
    /\ HandshakeSpec
    /\ \A n \in Nodes :
           /\ WF_hvars(ProcessStart(n))
           /\ SF_hvars(ResendPresence(n))
           /\ WF_hvars(Answer(n))
           /\ SF_hvars(AllocationDone(n))

-----------------------------------------------------------------------------
\* Whoever asks and however often links are trimmed and made again, two ends
\* of a link never both control, never both wait for the other's DTLS hello,
\* and never differ on whether there is DTLS at all.
EndsAgree ==
    link[1] # NoLink /\ link[2] # NoLink =>
        /\ link[1].controls # link[2].controls
        /\ link[1].active # link[2].active
        /\ link[1].dtls = link[2].dtls

BothOpen == \A n \in Nodes : Open(n)

\* While both nodes are connected they end up with each other's present JID,
\* although the end of an old session may be reported after the new one, and in
\* each other's full GET_STATE.  That reports those in presence_time_, which a
\* con_req or a CREATE_LINK before every presence does not enter.
PeerFound ==
    <>[]BothOpen =>
        <>[](\A n \in Nodes : jid[n] = session[Other(n)].jid /\ friend[n])

\* Nothing is left of earlier sessions and links, and nobody will interfere.
Calm ==
    \A n \in Nodes :
        /\ endpoint[n] /\ Open(n)
        /\ session[n].jid = MaxSessions[n]
        /\ gone[n] = {} /\ owed[n] \subseteq {session[Other(n)].jid}
        /\ jid[n] = session[Other(n)].jid
        /\ link[n] = NoLink /\ links[n] = MaxLinks[n] - 1
        /\ ctrl[n] = <<>>
        /\ \A i \in DOMAIN wire[n] :
               /\ wire[n][i].from = session[Other(n)].jid
               /\ wire[n][i].type \in {"available", "con_req"}

Asked == \E n \in Nodes : \E i \in DOMAIN wire[n] : wire[n][i].type = "con_req"

\* From there one con_req is enough for both ends to get the candidates of the
\* other, also when both nodes ask at the same time and presence comes between.
HandshakeCompletes ==
    Calm /\ Asked ~>
        \A n \in Nodes : link[n] # NoLink /\ link[n].cands = link[Other(n)].id
===============================================================================
