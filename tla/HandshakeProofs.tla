--------------------------- MODULE HandshakeProofs ---------------------------
(***************************************************************************)
(* Proofs about Handshake, for any number of sessions, links and stanzas.  *)
(***************************************************************************)
EXTENDS Handshake, SequenceTheorems, TLAPS

-----------------------------------------------------------------------------
(* The inductive invariant, node by node.                                  *)

ConTypes == {"con_req", "con_resp"}
PresenceTypes == {"available", "unavailable"}

\* The stanzas that may reach n: of a session the peer has had, and with the
\* fingerprint of the peer if the peer has one.
Valid(n) ==
    {m \in Stanzas :
        /\ m.from <= session[Other(n)].jid
        /\ m.type \in ConTypes =>
               setup[Other(n)] # "none" /\ m.fpr = (setup[Other(n)] = "cert")}

Calls(n) == {m \in Valid(n) : m.type \in ConTypes}

Typed ==
    /\ setup \in [Nodes -> {"none", "plain", "cert"}]
    /\ endpoint \in [Nodes -> BOOLEAN]
    /\ session \in [Nodes -> [jid: Nat, status: {"off", "open", "broken", "closed"}]]
    /\ gone \in [Nodes -> SUBSET Nat]
    /\ owed \in [Nodes -> SUBSET Nat]
    /\ jid \in [Nodes -> Nat]
    /\ friend \in [Nodes -> BOOLEAN]
    /\ wire \in [Nodes -> Seq(Stanzas)]
    /\ ctrl \in [Nodes -> Seq(Stanzas)]
    /\ link \in [Nodes -> Links \cup {NoLink}]
    /\ links \in [Nodes -> Nat]

\* A session needs a uid; the JIDs of earlier ones are smaller.
SessionOf(n) ==
    /\ session[n].jid <= MaxSessions[n]
    /\ session[n].status # "off" => setup[n] # "none" /\ session[n].jid >= 1
    /\ gone[n] \subseteq 1..session[n].jid
    /\ owed[n] \subseteq 1..session[Other(n)].jid
    /\ jid[n] <= session[Other(n)].jid

StanzasOf(n) == wire[n] \in Seq(Valid(n)) /\ ctrl[n] \in Seq(Calls(n))

\* The role of an end follows from the identifiers, its security from the two
\* certificates, ...
Settled(n, r) ==
    /\ r.controls = (Other(n) < n)
    /\ r.active = (Other(n) > n)
    /\ r.dtls = (setup[n] = "cert" /\ setup[Other(n)] = "cert")

\* ... which are chosen before there is a link.
LinkOf(n) ==
    /\ ctrl[n] # <<>> => setup[n] # "none"
    /\ links[n] <= MaxLinks[n]
    /\ link[n] = NoLink => links[n] < MaxLinks[n]
    /\ link[n] # NoLink =>
           setup[n] # "none" /\ setup[Other(n)] # "none" /\ Settled(n, link[n])

HandshakeInv ==
    /\ Typed
    /\ \A n \in Nodes : SessionOf(n) /\ StanzasOf(n) /\ LinkOf(n)

-----------------------------------------------------------------------------
(* Lemmas about nodes and stanzas.                                         *)

\* There are two nodes.
LEMMA Peers ==
    ASSUME NEW n \in Nodes
    PROVE  /\ Other(n) \in Nodes /\ Other(n) # n /\ Other(Other(n)) = n
           /\ \A m \in Nodes : m = n \/ m = Other(n)
BY DEF Nodes, Other

\* The bounds are positive and every session is within them.
LEMMA Bounds ==
    ASSUME NEW n \in Nodes
    PROVE  /\ MaxSessions[n] \in Nat \ {0} /\ MaxLinks[n] \in Nat \ {0}
           /\ \A k \in 1..MaxSessions[n] : k \in Jids
           /\ \A k \in 1..MaxLinks[n] : k \in LinkIds
<1>1. /\ MaxSessions[1] \in Nat \ {0} /\ MaxSessions[2] \in Nat \ {0}
      /\ MaxLinks[1] \in Nat \ {0} /\ MaxLinks[2] \in Nat \ {0}
  BY BoundsAssumption DEF Nodes
<1>2. n = 1 \/ n = 2
  BY DEF Nodes
<1>3. \A k \in 1..MaxSessions[n] : k \in Jids
  BY <1>1, <1>2 DEF Jids
<1>4. \A k \in 1..MaxLinks[n] : k \in LinkIds
  BY <1>1, <1>2 DEF LinkIds
<1>5. QED
  BY <1>1, <1>2, <1>3, <1>4

\* What presence stanzas consist of.
LEMMA PresenceStanza ==
    ASSUME NEW type \in PresenceTypes, NEW from \in Jids
    PROVE  /\ Presence(type, from) \in Stanzas
           /\ Presence(type, from).type = type /\ Presence(type, from).from = from
BY DEF Presence, Stanzas, PresenceTypes

\* What SendToPeer's con_req and con_resp consist of.
LEMMA ConStanza ==
    ASSUME NEW type \in ConTypes, NEW from \in Jids, NEW fpr \in BOOLEAN,
           NEW id \in LinkIds \cup {0}
    PROVE  LET m == [type |-> type, from |-> from, fpr |-> fpr, link |-> id]
           IN  m \in Stanzas /\ m.type = type /\ m.from = from /\ m.fpr = fpr
BY DEF Stanzas, ConTypes

\* The fields of a stanza.
LEMMA StanzaFields ==
    ASSUME NEW m \in Stanzas
    PROVE  /\ m.from \in Jids /\ m.from \in Nat
           /\ m.type \in PresenceTypes \/ m.type \in ConTypes
           /\ m.type \in ConTypes => m.fpr \in BOOLEAN /\ m.link \in LinkIds \cup {0}
BY DEF Stanzas, PresenceTypes, ConTypes, Jids

\* PresenceTypes and ConTypes exclude each other.
LEMMA TypesDiffer == PresenceTypes \cap ConTypes = {}
BY DEF PresenceTypes, ConTypes

\* What CreateTransport and SetupTransport record of a link.
LEMMA NewLinkRecord ==
    ASSUME NEW id \in LinkIds, NEW c \in BOOLEAN, NEW a \in BOOLEAN, NEW d \in BOOLEAN,
           NEW from \in LinkIds \cup {0}
    PROVE  [id |-> id, controls |-> c, active |-> a, dtls |-> d,
            announced |-> FALSE, cands |-> from] \in Links
BY DEF Links

\* A link that exists has an identifier of its own.
LEMMA LinkRecord ==
    ASSUME NEW r \in Links
    PROVE  r # NoLink /\ r.id \in LinkIds
<1>1. r.id \in LinkIds /\ 0 \notin LinkIds
  BY DEF Links, LinkIds
<1>2. QED
  BY <1>1 DEF NoLink

\* A queue whose head has been taken holds what was behind it.
LEMMA RestOfQueue ==
    ASSUME NEW S, NEW q \in Seq(S), q # <<>>
    PROVE  Tail(q) \in Seq(S) /\ Head(q) \in S
OBVIOUS

\* A queue may hold what it held and what is put behind that.
LEMMA QueueGrows ==
    ASSUME NEW S, NEW q \in Seq(S), NEW m \in S
    PROVE  q \o <<m>> \in Seq(S)
OBVIOUS

\* What may reach a node only grows while sessions are numbered upwards and a
\* uid is set once.
LEMMA ValidGrows ==
    ASSUME Typed, Typed', NEW n \in Nodes,
           session[Other(n)].jid <= session'[Other(n)].jid,
           setup[Other(n)] = "none" \/ setup'[Other(n)] = setup[Other(n)]
    PROVE  Valid(n) \subseteq Valid(n)' /\ Calls(n) \subseteq Calls(n)'
<1>1. Other(n) \in Nodes
  BY Peers
<1>2. session[Other(n)].jid \in Nat /\ session'[Other(n)].jid \in Nat
  BY <1>1 DEF Typed
<1>3. ASSUME NEW m \in Valid(n) PROVE m \in Valid(n)'
  <2>1. m \in Stanzas /\ m.from \in Nat
    BY StanzaFields DEF Valid
  <2>2. QED
    BY <1>2, <2>1 DEF Valid
<1>4. QED
  BY <1>3 DEF Calls

\* Nobody has signed on or made a link yet.
LEMMA InitHandshake == HandshakeInit => HandshakeInv
<1> SUFFICES ASSUME HandshakeInit PROVE HandshakeInv
  OBVIOUS
<1>1. Typed
  BY DEF HandshakeInit, Typed
<1>2. ASSUME NEW n \in Nodes PROVE SessionOf(n) /\ StanzasOf(n) /\ LinkOf(n)
  <2>1. Other(n) \in Nodes /\ MaxSessions[n] \in Nat \ {0} /\ MaxLinks[n] \in Nat \ {0}
    BY Peers, Bounds
  <2>2. SessionOf(n)
    BY <2>1 DEF HandshakeInit, SessionOf
  <2>3. StanzasOf(n)
    BY EmptySeq DEF HandshakeInit, StanzasOf
  <2>4. LinkOf(n)
    BY <2>1 DEF HandshakeInit, LinkOf
  <2>5. QED
    BY <2>2, <2>3, <2>4
<1>3. QED
  BY <1>1, <1>2 DEF HandshakeInv

-----------------------------------------------------------------------------
(* What a step that leaves a part of the state alone preserves.            *)

\* No step takes back a uid or a number of a session.
Onward ==
    \A n \in Nodes :
        /\ session[n].jid <= session'[n].jid
        /\ setup[n] = "none" \/ setup'[n] = setup[n]

\* What may reach a node only grows while sessions are numbered upwards and a
\* uid is set once.
LEMMA QueuesGrow ==
    ASSUME Typed, Typed', Onward, NEW n \in Nodes
    PROVE  /\ Valid(n) \subseteq Valid(n)' /\ Calls(n) \subseteq Calls(n)'
           /\ Seq(Valid(n)) \subseteq Seq(Valid(n)') /\ Seq(Calls(n)) \subseteq Seq(Calls(n)')
<1>1. Other(n) \in Nodes
  BY Peers
<1>2. Valid(n) \subseteq Valid(n)' /\ Calls(n) \subseteq Calls(n)'
  BY <1>1, ValidGrows DEF Onward
<1>3. QED
  BY <1>2

\* A session that stays as it is stays within its bounds.
LEMMA SessionKept ==
    ASSUME Typed, Typed', Onward, NEW n \in Nodes, SessionOf(n),
           session'[n] = session[n], jid'[n] = jid[n],
           gone'[n] \subseteq gone[n], owed'[n] \subseteq owed[n]
    PROVE  SessionOf(n)'
<1>1. /\ Other(n) \in Nodes
      /\ session[Other(n)].jid <= session'[Other(n)].jid
      /\ session[Other(n)].jid \in Nat /\ session'[Other(n)].jid \in Nat /\ jid[n] \in Nat
  BY Peers DEF Typed, Onward
<1>2. jid'[n] <= session'[Other(n)].jid
  BY <1>1 DEF SessionOf
<1>3. setup[n] # "none" => setup'[n] # "none"
  BY DEF Onward
<1>4. owed'[n] \subseteq 1..session'[Other(n)].jid
  <2>1. owed'[n] \subseteq 1..session[Other(n)].jid
    BY DEF SessionOf
  <2>2. QED
    BY <1>1, <2>1
<1>5. QED
  BY <1>2, <1>3, <1>4 DEF SessionOf

\* Queues that stay as they are hold nothing that could not have been sent.
LEMMA StanzasKept ==
    ASSUME Typed, Typed', Onward, NEW n \in Nodes, StanzasOf(n),
           wire'[n] = wire[n], ctrl'[n] = ctrl[n]
    PROVE  StanzasOf(n)'
BY QueuesGrow DEF StanzasOf

\* Nothing that the agreement of two links rests on changes after CREATE_LINK.
LEMMA LinkKept ==
    ASSUME Typed, Typed', Onward, NEW n \in Nodes, LinkOf(n),
           ctrl'[n] = ctrl[n], links'[n] = links[n],
           \/ link'[n] = link[n]
           \/ /\ link[n] # NoLink /\ link'[n] # NoLink
              /\ link'[n].controls = link[n].controls
              /\ link'[n].active = link[n].active
              /\ link'[n].dtls = link[n].dtls
    PROVE  LinkOf(n)'
<1>1. Other(n) \in Nodes
  BY Peers
<1>2. /\ setup[n] # "none" => setup'[n] = setup[n]
      /\ setup[Other(n)] # "none" => setup'[Other(n)] = setup[Other(n)]
  BY <1>1 DEF Onward
<1>3. link[n] # NoLink =>
          /\ link'[n].controls = link[n].controls
          /\ link'[n].active = link[n].active
          /\ link'[n].dtls = link[n].dtls
  OBVIOUS
<1>4. link[n] # NoLink => Settled(n, link[n])'
  BY <1>2, <1>3 DEF LinkOf, Settled
<1>5. QED
  BY <1>2, <1>4 DEF LinkOf

\* A stanza that is put behind the others does no harm.
LEMMA StanzaArrives ==
    ASSUME Typed, Typed', Onward, NEW n \in Nodes, StanzasOf(n), NEW m \in Valid(n)',
           wire'[n] = wire[n] \o <<m>>, ctrl'[n] = ctrl[n]
    PROVE  StanzasOf(n)'
<1>1. wire[n] \in Seq(Valid(n)') /\ ctrl[n] \in Seq(Calls(n)')
  BY QueuesGrow DEF StanzasOf
<1>2. wire'[n] \in Seq(Valid(n)')
  BY <1>1, QueueGrows
<1>3. QED
  BY <1>1, <1>2 DEF StanzasOf

\* Route puts the stanza behind those on the way to one node, or nowhere.
LEMMA Routed ==
    ASSUME Typed, NEW n \in Nodes, NEW to, NEW m \in Stanzas
    PROVE  LET w == Route(n, to, <<m>>)
           IN  /\ w \in [Nodes -> Seq(Stanzas)]
               /\ w[Other(n)] = wire[Other(n)]
               /\ w[n] = wire[n] \/ (Open(n) /\ w[n] = wire[n] \o <<m>>)
               /\ Open(n) /\ to = session[n].jid => w[n] = wire[n] \o <<m>>
<1>1. wire \in [Nodes -> Seq(Stanzas)] /\ wire[n] \in Seq(Stanzas)
  BY DEF Typed
<1>2. wire[n] \o <<m>> \in Seq(Stanzas)
  BY <1>1, QueueGrows
<1>3. Other(n) \in Nodes /\ Other(n) # n
  BY Peers
<1>4. QED
  BY <1>1, <1>2, <1>3 DEF Route

\* A stanza is sent to a node: nothing but the wire changes, and perhaps what
\* the sender remembers of its link.
LEMMA StanzaSent ==
    ASSUME HandshakeInv, NEW p \in Nodes, NEW to, NEW m \in Valid(p),
           wire' = wire \/ wire' = Route(p, to, <<m>>),
           UNCHANGED <<setup, session, ctrl>>, Typed'
    PROVE  \A n \in Nodes : StanzasOf(n)'
<1>1. Typed /\ \A n \in Nodes : StanzasOf(n)
  BY DEF HandshakeInv
<1>2. Onward
  BY <1>1 DEF Onward, Typed
<1>3. m \in Stanzas /\ m \in Valid(p)'
  <2>1. m \in Stanzas
    BY DEF Valid
  <2>2. Valid(p) \subseteq Valid(p)'
    BY <1>1, <1>2, QueuesGrow
  <2>3. QED
    BY <2>1, <2>2
<1>4. ASSUME NEW n \in Nodes PROVE StanzasOf(n)'
  <2>1. wire'[n] = wire[n] \/ (n = p /\ wire'[n] = wire[n] \o <<m>>)
    BY <1>1, <1>3, Peers, Routed
  <2>2. CASE wire'[n] = wire[n]
    BY <1>1, <1>2, <2>2, StanzasKept
  <2>3. CASE n = p /\ wire'[n] = wire[n] \o <<m>>
    BY <1>1, <1>2, <1>3, <2>3, StanzaArrives
  <2>4. QED
    BY <2>1, <2>2, <2>3
<1>5. QED
  BY <1>4

-----------------------------------------------------------------------------
(* One lemma for each action that does more than send a stanza.            *)

\* The uid and the certificate are set before a session or a link needs them.
LEMMA SetUpPreserves ==
    ASSUME HandshakeInv, NEW k \in Nodes,
           (\E cert \in BOOLEAN : SetLocalIp(k, cert)) \/ SetCbEndpoint(k)
    PROVE  HandshakeInv'
<1>1. Typed /\ \A n \in Nodes : SessionOf(n) /\ StanzasOf(n) /\ LinkOf(n)
  BY DEF HandshakeInv
<1>2. UNCHANGED <<session, gone, owed, jid, friend, wire, ctrl, link, links>>
  BY DEF SetLocalIp, SetCbEndpoint, presence, known
<1>3. Typed'
  BY <1>1, <1>2 DEF Typed, SetLocalIp, SetCbEndpoint
<1>4. Onward
  <2>1. \A n \in Nodes : setup[n] = "none" \/ setup'[n] = setup[n]
    BY <1>1 DEF SetLocalIp, SetCbEndpoint, Typed
  <2>2. QED
    BY <1>1, <1>2, <2>1 DEF Onward, Typed
<1>5. ASSUME NEW n \in Nodes PROVE SessionOf(n)' /\ StanzasOf(n)' /\ LinkOf(n)'
  <2>1. SessionOf(n)' /\ StanzasOf(n)'
    BY <1>1, <1>2, <1>3, <1>4, SessionKept, StanzasKept
  <2>2. LinkOf(n)'
    BY <1>1, <1>2, <1>3, <1>4, LinkKept
  <2>3. QED
    BY <2>1, <2>2
<1>6. QED
  BY <1>3, <1>5 DEF HandshakeInv

\* What the server takes for available are sessions that the node has had.
LEMMA BelievedSessions ==
    ASSUME HandshakeInv, NEW n \in Nodes
    PROVE  Believed(n) \subseteq 1..session[n].jid /\ Believed(n) \subseteq Jids
<1>1. /\ session[n].jid \in Nat /\ session[n].jid <= MaxSessions[n]
      /\ gone[n] \subseteq 1..session[n].jid /\ (Open(n) => session[n].jid >= 1)
  BY DEF HandshakeInv, Typed, SessionOf, Open
<1>2. Believed(n) \subseteq 1..session[n].jid
  BY <1>1 DEF Believed
<1>3. 1..session[n].jid \subseteq Jids
  BY <1>1, Bounds
<1>4. QED
  BY <1>2, <1>3

\* The peer is sent a presence, and the new session is owed those of the peer.
LEMMA SignOnPreserves ==
    ASSUME HandshakeInv, NEW k \in Nodes, SignOn(k)
    PROVE  HandshakeInv'
<1> DEFINE p == Other(k)
           new == session[k].jid + 1
           m == Presence("available", new)
           w == Route(p, session[p].jid, <<m>>)
<1>1. Typed /\ \A n \in Nodes : SessionOf(n) /\ StanzasOf(n) /\ LinkOf(n)
  BY DEF HandshakeInv
<1>2. /\ UNCHANGED <<setup, endpoint, gone, jid, friend, ctrl, link, links>>
      /\ session' = [session EXCEPT ![k] = [jid |-> new, status |-> "open"]]
      /\ wire' = w /\ owed' = [owed EXCEPT ![k] = Believed(p)]
      /\ setup[k] # "none" /\ session[k].jid < MaxSessions[k]
  BY DEF SignOn, config, known
<1>3. p \in Nodes /\ p # k /\ Other(p) = k /\ \A n \in Nodes : n = k \/ n = p
  BY Peers
<1>4. /\ session[k].jid \in Nat /\ session[p].jid \in Nat /\ MaxSessions[k] \in Nat
      /\ session'[k] = [jid |-> new, status |-> "open"] /\ session'[p] = session[p]
  BY <1>1, <1>2, <1>3, Bounds DEF Typed
<1>5. new \in Nat /\ new \in 1..MaxSessions[k] /\ new \in Jids
  BY <1>2, <1>4, Bounds
<1>6. m \in Stanzas /\ m.type \notin ConTypes /\ m.from = new
  BY <1>5, PresenceStanza, TypesDiffer DEF PresenceTypes
<1>7. /\ w \in [Nodes -> Seq(Stanzas)] /\ w[k] = wire[k]
      /\ w[p] = wire[p] \/ w[p] = wire[p] \o <<m>>
  <2>1. p \in Nodes /\ m \in Stanzas /\ Other(p) = k
    BY <1>3, <1>6
  <2> HIDE DEF m, p, new
  <2>2. QED
    BY <1>1, <2>1, Routed
<1>8. /\ Believed(p) \subseteq 1..session[p].jid /\ Believed(p) \in SUBSET Nat
      /\ owed'[k] = Believed(p) /\ owed'[p] = owed[p] /\ owed' \in [Nodes -> SUBSET Nat]
  <2>1. Believed(p) \subseteq 1..session[p].jid
    BY <1>3, BelievedSessions
  <2>2. Believed(p) \in SUBSET Nat
    BY <2>1
  <2> HIDE DEF p
  <2>3. QED
    BY <1>1, <1>2, <1>3, <2>1, <2>2 DEF Typed
<1> HIDE DEF w
<1>9. Typed'
  BY <1>1, <1>2, <1>5, <1>7, <1>8 DEF Typed
<1>10. Onward
  BY <1>1, <1>2, <1>3, <1>4 DEF Onward, Typed
<1>11. SessionOf(k)'
  <2>1. gone'[k] \subseteq 1..session'[k].jid
    BY <1>1, <1>2, <1>4 DEF SessionOf
  <2>2. jid'[k] <= session'[Other(k)].jid
    BY <1>1, <1>2, <1>4 DEF SessionOf
  <2>3. owed'[k] \subseteq 1..session'[Other(k)].jid
    BY <1>4, <1>8
  <2>4. QED
    BY <1>2, <1>4, <1>5, <2>1, <2>2, <2>3 DEF SessionOf
<1>12. SessionOf(p)'
  BY <1>1, <1>2, <1>3, <1>4, <1>8, <1>9, <1>10, SessionKept
<1>13. StanzasOf(k)'
  BY <1>1, <1>2, <1>7, <1>9, <1>10, StanzasKept
<1>14. StanzasOf(p)'
  <2>1. m \in Valid(p)'
    BY <1>3, <1>4, <1>5, <1>6 DEF Valid
  <2>2. CASE w[p] = wire[p] \o <<m>>
    BY <1>1, <1>2, <1>3, <1>9, <1>10, <2>1, <2>2, StanzaArrives
  <2>3. CASE w[p] = wire[p]
    BY <1>1, <1>2, <1>3, <1>9, <1>10, <2>3, StanzasKept
  <2>4. QED
    BY <1>7, <2>2, <2>3
<1>15. \A n \in Nodes : LinkOf(n)'
  BY <1>1, <1>2, <1>9, <1>10, LinkKept
<1>16. QED
  BY <1>3, <1>9, <1>11, <1>12, <1>13, <1>14, <1>15 DEF HandshakeInv

\* A connection breaks and the watchdog notices: the JID joins the ended ones,
\* what was on the way is lost.
LEMMA LossPreserves ==
    ASSUME HandshakeInv, NEW k \in Nodes, Break(k) \/ Notice(k)
    PROVE  HandshakeInv'
<1>1. Typed /\ \A n \in Nodes : SessionOf(n) /\ StanzasOf(n) /\ LinkOf(n)
  BY DEF HandshakeInv
<1>2. UNCHANGED <<setup, endpoint, jid, friend, ctrl, link, links>>
  BY DEF Break, Notice, config, known
<1>3. \E s \in {"broken", "closed"} : session' = [session EXCEPT ![k].status = s]
  BY DEF Break, Notice
<1>4. /\ gone' = gone \/ gone' = [gone EXCEPT ![k] = @ \cup {session[k].jid}]
      /\ owed' = owed \/ owed' = [owed EXCEPT ![k] = {}]
      /\ wire' = wire \/ wire' = [wire EXCEPT ![k] = <<>>]
      /\ session[k].status # "off"
  BY DEF Break, Notice, Open
<1>5. Other(k) \in Nodes /\ Other(k) # k /\ Other(Other(k)) = k /\ \A n \in Nodes : n = k \/ n = Other(k)
  BY Peers
<1>6. Typed'
  <2>1. session' \in [Nodes -> [jid: Nat, status: {"off", "open", "broken", "closed"}]]
    <3>1. PICK s \in {"broken", "closed"} : session' = [session EXCEPT ![k].status = s]
      BY <1>3
    <3>2. session \in [Nodes -> [jid: Nat, status: {"off", "open", "broken", "closed"}]]
      BY <1>1 DEF Typed
    <3>3. QED
      BY <3>1, <3>2
  <2>2. gone' \in [Nodes -> SUBSET Nat]
    <3>1. gone \in [Nodes -> SUBSET Nat] /\ session[k].jid \in Nat
      BY <1>1 DEF Typed
    <3>2. gone[k] \cup {session[k].jid} \in SUBSET Nat
      BY <3>1
    <3>3. QED
      BY <1>4, <3>1, <3>2
  <2>3. wire' \in [Nodes -> Seq(Stanzas)]
    <3>1. wire \in [Nodes -> Seq(Stanzas)] /\ <<>> \in Seq(Stanzas)
      BY <1>1, EmptySeq DEF Typed
    <3>2. QED
      BY <1>4, <3>1
  <2>4. owed' \in [Nodes -> SUBSET Nat]
    BY <1>1, <1>4 DEF Typed
  <2>5. QED
    BY <1>1, <1>2, <2>1, <2>2, <2>3, <2>4 DEF Typed
<1>7. /\ \A n \in Nodes : session'[n].jid = session[n].jid
      /\ session'[Other(k)] = session[Other(k)]
      /\ session'[k].status \in {"broken", "closed"}
  BY <1>1, <1>3, <1>5 DEF Typed
<1>8. Onward
  BY <1>1, <1>2, <1>7 DEF Onward, Typed
<1>9. /\ wire'[Other(k)] = wire[Other(k)] /\ wire'[k] \in {wire[k], <<>>}
      /\ gone'[Other(k)] = gone[Other(k)] /\ gone'[k] \subseteq gone[k] \cup {session[k].jid}
      /\ owed'[Other(k)] = owed[Other(k)] /\ owed'[k] \subseteq owed[k]
  BY <1>1, <1>4, <1>5 DEF Typed
<1>10. SessionOf(k)'
  <2>1. /\ session[k].jid \in Nat /\ session[k].jid >= 1 /\ setup[k] # "none"
        /\ gone[k] \subseteq 1..session[k].jid
    BY <1>1, <1>4 DEF Typed, SessionOf
  <2>2. gone'[k] \subseteq 1..session[k].jid
    BY <1>9, <2>1
  <2>3. QED
    BY <1>1, <1>2, <1>5, <1>7, <1>9, <2>1, <2>2 DEF SessionOf
<1>11. SessionOf(Other(k))'
  BY <1>1, <1>2, <1>5, <1>6, <1>7, <1>8, <1>9, SessionKept
<1>12. StanzasOf(k)' /\ StanzasOf(Other(k))'
  BY <1>1, <1>2, <1>5, <1>6, <1>8, <1>9, QueuesGrow, EmptySeq DEF StanzasOf
<1>13. \A n \in Nodes : LinkOf(n)'
  BY <1>1, <1>2, <1>6, <1>8, LinkKept
<1>14. QED
  BY <1>5, <1>6, <1>10, <1>11, <1>12, <1>13 DEF HandshakeInv

\* What is taken from the wire has the JID of a session that the peer has had.
LEMMA ProcessStartPreserves ==
    ASSUME HandshakeInv, NEW k \in Nodes, ProcessStart(k)
    PROVE  HandshakeInv'
<1> DEFINE m == Head(wire[k])
<1>1. Typed /\ \A n \in Nodes : SessionOf(n) /\ StanzasOf(n) /\ LinkOf(n)
  BY DEF HandshakeInv
<1>2. /\ UNCHANGED <<setup, endpoint, session, gone, owed, link, links>>
      /\ Open(k) /\ wire[k] # <<>>
      /\ jid' = [jid EXCEPT ![k] = m.from]
      /\ wire' = [wire EXCEPT ![k] = Tail(@)]
  BY DEF ProcessStart, config, presence, Learned
<1>3. /\ m.type \in ConTypes => friend' = friend
      /\ m.type \notin ConTypes => friend' = [friend EXCEPT ![k] = TRUE]
  BY DEF ProcessStart, Timed, ConTypes
<1>4. \/ ctrl' = ctrl
      \/ m.type \in ConTypes /\ ctrl' = [ctrl EXCEPT ![k] = Append(@, m)]
  BY DEF ProcessStart, CallBack, ConTypes
<1>5. Other(k) \in Nodes /\ Other(k) # k /\ \A n \in Nodes : n = k \/ n = Other(k)
  BY Peers
<1>6. /\ m \in Valid(k) /\ m \in Stanzas /\ m.from \in Nat /\ m.from <= session[Other(k)].jid
      /\ Tail(wire[k]) \in Seq(Valid(k)) /\ Tail(wire[k]) \in Seq(Stanzas)
  <2>1. wire[k] \in Seq(Valid(k)) /\ wire[k] \in Seq(Stanzas)
    BY <1>1 DEF Typed, StanzasOf
  <2>2. m \in Valid(k) /\ Tail(wire[k]) \in Seq(Valid(k)) /\ Tail(wire[k]) \in Seq(Stanzas)
    BY <1>2, <2>1, RestOfQueue
  <2>3. m \in Stanzas /\ m.from <= session[Other(k)].jid
    BY <2>2 DEF Valid
  <2>4. QED
    BY <2>2, <2>3, StanzaFields
<1> HIDE DEF m
<1>7. Typed'
  <2>1. ctrl' \in [Nodes -> Seq(Stanzas)]
    <3>1. ctrl \in [Nodes -> Seq(Stanzas)] /\ ctrl[k] \in Seq(Stanzas)
      BY <1>1 DEF Typed
    <3>2. Append(ctrl[k], m) \in Seq(Stanzas)
      BY <1>6, <3>1
    <3>3. QED
      BY <1>4, <3>1, <3>2
  <2>2. wire' \in [Nodes -> Seq(Stanzas)] /\ jid' \in [Nodes -> Nat]
    BY <1>1, <1>2, <1>6 DEF Typed
  <2>3. friend' \in [Nodes -> BOOLEAN]
    BY <1>1, <1>3 DEF Typed
  <2>4. QED
    BY <1>1, <1>2, <2>1, <2>2, <2>3 DEF Typed
<1>8. Onward
  BY <1>1, <1>2 DEF Onward, Typed
<1>9. /\ wire'[k] = Tail(wire[k]) /\ wire'[Other(k)] = wire[Other(k)]
      /\ jid'[k] = m.from /\ jid'[Other(k)] = jid[Other(k)]
      /\ ctrl'[Other(k)] = ctrl[Other(k)]
  BY <1>1, <1>2, <1>4, <1>5 DEF Typed
<1>10. SessionOf(k)' /\ SessionOf(Other(k))'
  BY <1>1, <1>2, <1>5, <1>6, <1>9 DEF SessionOf
<1>11. StanzasOf(Other(k))' /\ LinkOf(Other(k))'
  <2>1. StanzasOf(Other(k))'
    BY <1>1, <1>5, <1>7, <1>8, <1>9, StanzasKept
  <2>2. LinkOf(Other(k))'
    BY <1>1, <1>2, <1>5, <1>7, <1>8, <1>9, LinkKept
  <2>3. QED
    BY <2>1, <2>2
<1>12. \/ ctrl'[k] = ctrl[k]
       \/ m.type \in ConTypes /\ ctrl'[k] = Append(ctrl[k], m)
  BY <1>1, <1>4 DEF Typed
<1>13. StanzasOf(k)'
  <2>1. ctrl[k] \in Seq(Calls(k))
    BY <1>1 DEF StanzasOf
  <2>2. m.type \in ConTypes => Append(ctrl[k], m) \in Seq(Calls(k))
    <3>1. m.type \in ConTypes => m \in Calls(k)
      BY <1>6 DEF Calls
    <3>2. QED
      BY <2>1, <3>1
  <2>3. ctrl'[k] \in Seq(Calls(k)) /\ wire'[k] \in Seq(Valid(k))
    BY <1>6, <1>9, <1>12, <2>1, <2>2
  <2>4. QED
    BY <1>1, <1>7, <1>8, <2>3, QueuesGrow DEF StanzasOf
<1>14. LinkOf(k)'
  <2>1. setup[k] # "none"
    BY <1>1, <1>2 DEF SessionOf, Open
  <2>2. QED
    BY <1>1, <1>2, <2>1 DEF LinkOf, Settled
<1>15. QED
  BY <1>5, <1>7, <1>10, <1>11, <1>13, <1>14 DEF HandshakeInv

\* CREATE_LINK decides the security from the own certificate and from the
\* fingerprint it is given, which stands for the peer's certificate.
LEMMA NewLinkSettled ==
    ASSUME HandshakeInv, NEW k \in Nodes, link[k] = NoLink, NEW fpr,
           fpr = (setup[Other(k)] = "cert"), NEW cands \in LinkIds \cup {0}
    PROVE  /\ NewLink(k, fpr, cands) \in Links /\ Settled(k, NewLink(k, fpr, cands))
           /\ links[k] + 1 \in Nat /\ links[k] + 1 <= MaxLinks[k]
<1> DEFINE new == NewLink(k, fpr, cands)
<1>1. links[k] + 1 \in LinkIds /\ links[k] + 1 <= MaxLinks[k] /\ links[k] + 1 \in Nat
  <2>1. links[k] \in Nat /\ MaxLinks[k] \in Nat /\ links[k] < MaxLinks[k]
    BY Bounds DEF HandshakeInv, Typed, LinkOf
  <2>2. QED
    BY <2>1, Bounds
<1>2. new = [id |-> links[k] + 1, controls |-> Other(k) < k, active |-> Other(k) > k,
             dtls |-> fpr /\ setup[k] = "cert", announced |-> FALSE, cands |-> cands]
  BY DEF NewLink, Secured
<1>3. new \in Links
  <2> DEFINE controls == Other(k) < k
             active == Other(k) > k
             dtls == fpr /\ setup[k] = "cert"
             id == links[k] + 1
  <2>1. controls \in BOOLEAN /\ active \in BOOLEAN /\ dtls \in BOOLEAN /\ id \in LinkIds
    BY <1>1
  <2> HIDE DEF controls, active, dtls, id
  <2>2. [id |-> id, controls |-> controls, active |-> active, dtls |-> dtls,
         announced |-> FALSE, cands |-> cands] \in Links
    BY <2>1, NewLinkRecord
  <2>3. QED
    BY <1>2, <2>2, Zenon DEF controls, active, dtls, id
<1>4. Settled(k, new)
  <2>1. /\ new.controls = (Other(k) < k) /\ new.active = (Other(k) > k)
        /\ new.dtls = (fpr /\ setup[k] = "cert")
    BY <1>2
  <2>2. QED
    BY <2>1, Zenon DEF Settled
<1>5. QED
  BY <1>1, <1>3, <1>4

\* The answer to a callback gives CREATE_LINK the fingerprint of the message.
LEMMA AnswerPreserves ==
    ASSUME HandshakeInv, NEW k \in Nodes, Answer(k)
    PROVE  HandshakeInv'
<1> DEFINE m == Head(ctrl[k])
<1>1. Typed /\ \A n \in Nodes : SessionOf(n) /\ StanzasOf(n) /\ LinkOf(n)
  BY DEF HandshakeInv
<1>2. /\ UNCHANGED <<setup, endpoint, session, gone, owed, jid, friend, wire>>
      /\ ctrl[k] # <<>> /\ ctrl' = [ctrl EXCEPT ![k] = Tail(@)]
      /\ link' = [link EXCEPT ![k] = Answered(k, m)]
      /\ link[k] = NoLink => links' = [links EXCEPT ![k] = @ + 1]
      /\ link[k] # NoLink => links' = links
  BY DEF Answer, config, presence, known
<1>3. Other(k) \in Nodes /\ Other(k) # k /\ \A n \in Nodes : n = k \/ n = Other(k)
  BY Peers
<1>4. /\ m \in Calls(k) /\ m \in Stanzas
      /\ Tail(ctrl[k]) \in Seq(Calls(k)) /\ Tail(ctrl[k]) \in Seq(Stanzas)
  <2>1. ctrl[k] \in Seq(Calls(k)) /\ ctrl[k] \in Seq(Stanzas)
    BY <1>1 DEF Typed, StanzasOf
  <2>2. QED
    BY <1>2, <2>1, RestOfQueue
<1>5. /\ setup[k] # "none" /\ setup[Other(k)] # "none"
      /\ m.fpr = (setup[Other(k)] = "cert") /\ m.link \in LinkIds \cup {0}
  <2>1. m.type \in ConTypes /\ m \in Valid(k)
    BY <1>4 DEF Calls
  <2>2. m.link \in LinkIds \cup {0}
    BY <1>4, <2>1, StanzaFields
  <2>3. setup[k] # "none"
    BY <1>1, <1>2 DEF LinkOf
  <2>4. QED
    BY <2>1, <2>2, <2>3 DEF Valid
<1> HIDE DEF m
<1>6. links[k] \in Nat /\ MaxLinks[k] \in Nat /\ links[k] <= MaxLinks[k]
  BY <1>1, Bounds DEF Typed, LinkOf
<1>7. ASSUME link[k] = NoLink
      PROVE  /\ link'[k] \in Links /\ Settled(k, link'[k])
             /\ links'[k] \in Nat /\ links'[k] <= MaxLinks[k]
  <2> DEFINE new == NewLink(k, m.fpr, m.link)
  <2>1. /\ new \in Links /\ Settled(k, new)
        /\ links[k] + 1 \in Nat /\ links[k] + 1 <= MaxLinks[k]
    BY <1>5, <1>7, NewLinkSettled
  <2>2. link'[k] = new /\ links'[k] = links[k] + 1
    BY <1>1, <1>2, <1>7 DEF Typed, Answered
  <2> HIDE DEF new
  <2>3. QED
    BY <2>1, <2>2
<1>8. ASSUME link[k] # NoLink
      PROVE  /\ link'[k] \in Links /\ Settled(k, link'[k])
             /\ links'[k] \in Nat /\ links'[k] <= MaxLinks[k]
  <2> DEFINE new == [link[k] EXCEPT !.cands = m.link]
  <2>1. link[k] \in Links /\ Settled(k, link[k])
    BY <1>1, <1>8 DEF Typed, LinkOf
  <2>2. link'[k] = link[k] \/ link'[k] = new
    BY <1>1, <1>2, <1>8 DEF Typed, Answered
  <2>3. /\ new \in Links /\ new.controls = link[k].controls
        /\ new.active = link[k].active /\ new.dtls = link[k].dtls
    BY <1>5, <2>1 DEF Links
  <2>4. Settled(k, new)
    BY <2>1, <2>3, Zenon DEF Settled
  <2>5. links'[k] = links[k]
    BY <1>2, <1>8
  <2> HIDE DEF new
  <2>6. QED
    BY <1>6, <2>1, <2>2, <2>3, <2>4, <2>5
<1>9. /\ link'[k] \in Links /\ Settled(k, link'[k])
      /\ links'[k] \in Nat /\ links'[k] <= MaxLinks[k]
  BY <1>7, <1>8
<1>10. /\ ctrl'[Other(k)] = ctrl[Other(k)] /\ link'[Other(k)] = link[Other(k)]
       /\ links'[Other(k)] = links[Other(k)] /\ ctrl'[k] = Tail(ctrl[k])
  BY <1>1, <1>2, <1>3 DEF Typed
<1>11. Typed'
  <2>1. link' \in [Nodes -> Links \cup {NoLink}]
    <3>1. link' = [link EXCEPT ![k] = link'[k]]
      BY <1>1, <1>2 DEF Typed
    <3>2. QED
      BY <1>1, <1>9, <3>1 DEF Typed
  <2>2. links' \in [Nodes -> Nat]
    <3>1. links' = [links EXCEPT ![k] = links'[k]]
      BY <1>1, <1>2 DEF Typed
    <3>2. QED
      BY <1>1, <1>9, <3>1 DEF Typed
  <2>3. ctrl' \in [Nodes -> Seq(Stanzas)]
    BY <1>1, <1>2, <1>4 DEF Typed
  <2>4. QED
    BY <1>1, <1>2, <2>1, <2>2, <2>3 DEF Typed
<1>12. Onward
  BY <1>1, <1>2 DEF Onward, Typed
<1>13. \A n \in Nodes : SessionOf(n)'
  BY <1>1, <1>2, <1>11, <1>12, SessionKept
<1>14. StanzasOf(k)'
  BY <1>1, <1>2, <1>4, <1>10, <1>11, <1>12, QueuesGrow DEF StanzasOf
<1>15. LinkOf(k)'
  <2>1. link'[k] # NoLink
    BY <1>9, LinkRecord
  <2>2. Settled(k, link[k])'
    BY <1>2, <1>9 DEF Settled
  <2>3. QED
    BY <1>2, <1>5, <1>9, <2>1, <2>2 DEF LinkOf
<1>16. StanzasOf(Other(k))' /\ LinkOf(Other(k))'
  <2>1. StanzasOf(Other(k))'
    BY <1>1, <1>2, <1>3, <1>10, <1>11, <1>12, StanzasKept
  <2>2. LinkOf(Other(k))'
    BY <1>1, <1>2, <1>3, <1>10, <1>11, <1>12, LinkKept
  <2>3. QED
    BY <2>1, <2>2
<1>17. QED
  BY <1>3, <1>11, <1>13, <1>14, <1>15, <1>16 DEF HandshakeInv

\* A controller that creates a link unasked gives it the peer's fingerprint.
LEMMA CreateLinkPreserves ==
    ASSUME HandshakeInv, NEW k \in Nodes, CreateLink(k)
    PROVE  HandshakeInv'
<1> DEFINE fpr == setup[Other(k)] = "cert"
           new == NewLink(k, fpr, 0)
<1>1. Typed /\ \A n \in Nodes : SessionOf(n) /\ StanzasOf(n) /\ LinkOf(n)
  BY DEF HandshakeInv
<1>2. /\ UNCHANGED <<setup, endpoint, session, gone, owed, jid, friend, wire, ctrl>>
      /\ setup[k] # "none" /\ setup[Other(k)] # "none" /\ link[k] = NoLink
      /\ link' = [link EXCEPT ![k] = new] /\ links' = [links EXCEPT ![k] = @ + 1]
  BY DEF CreateLink, config, presence, known
<1>3. Other(k) \in Nodes /\ Other(k) # k /\ \A n \in Nodes : n = k \/ n = Other(k)
  BY Peers
<1>4. /\ new \in Links /\ Settled(k, new)
      /\ links[k] + 1 \in Nat /\ links[k] + 1 <= MaxLinks[k]
  BY <1>2, NewLinkSettled
<1> HIDE DEF fpr, new
<1>5. /\ link'[k] = new /\ links'[k] = links[k] + 1
      /\ link'[Other(k)] = link[Other(k)] /\ links'[Other(k)] = links[Other(k)]
  BY <1>1, <1>2, <1>3 DEF Typed
<1>6. Typed'
  BY <1>1, <1>2, <1>4 DEF Typed
<1>7. Onward
  BY <1>1, <1>2 DEF Onward, Typed
<1>8. \A n \in Nodes : SessionOf(n)' /\ StanzasOf(n)'
  BY <1>1, <1>2, <1>6, <1>7, SessionKept, StanzasKept
<1>9. LinkOf(k)'
  <2>1. link'[k] # NoLink
    BY <1>4, <1>5, LinkRecord
  <2>2. Settled(k, link[k])'
    BY <1>2, <1>4, <1>5 DEF Settled
  <2>3. QED
    BY <1>2, <1>4, <1>5, <2>1, <2>2 DEF LinkOf
<1>10. LinkOf(Other(k))'
  BY <1>1, <1>2, <1>3, <1>5, <1>6, <1>7, LinkKept
<1>11. QED
  BY <1>3, <1>6, <1>8, <1>9, <1>10 DEF HandshakeInv

\* A link is trimmed only while the bound allows another.
LEMMA TrimLinkPreserves ==
    ASSUME HandshakeInv, NEW k \in Nodes, TrimLink(k)
    PROVE  HandshakeInv'
<1>1. Typed /\ \A n \in Nodes : SessionOf(n) /\ StanzasOf(n) /\ LinkOf(n)
  BY DEF HandshakeInv
<1>2. /\ UNCHANGED <<setup, endpoint, session, gone, owed, jid, friend, wire, ctrl, links>>
      /\ links[k] < MaxLinks[k] /\ link' = [link EXCEPT ![k] = NoLink]
  BY DEF TrimLink, config, presence, known
<1>3. Typed'
  BY <1>1, <1>2 DEF Typed
<1>4. Onward
  BY <1>1, <1>2 DEF Onward, Typed
<1>5. ASSUME NEW n \in Nodes PROVE SessionOf(n)' /\ StanzasOf(n)' /\ LinkOf(n)'
  <2>1. SessionOf(n)' /\ StanzasOf(n)'
    BY <1>1, <1>2, <1>3, <1>4, SessionKept, StanzasKept
  <2>2. link'[n] = link[n] \/ (n = k /\ link'[n] = NoLink)
    BY <1>1, <1>2 DEF Typed
  <2>3. LinkOf(n)'
    BY <1>1, <1>2, <2>2 DEF LinkOf, Settled
  <2>4. QED
    BY <2>1, <2>3
<1>6. QED
  BY <1>3, <1>5 DEF HandshakeInv

\* A presence, a con_req or a con_resp is sent: the conditions that are left to
\* show of StanzaSent.
LEMMA SendPreserves ==
    ASSUME HandshakeInv, NEW p \in Nodes, NEW to, NEW m \in Valid(p),
           wire' = wire \/ wire' = Route(p, to, <<m>>),
           UNCHANGED <<config, session, known, ctrl, links>>,
           gone' \in [Nodes -> SUBSET Nat], \A n \in Nodes : gone'[n] \subseteq gone[n],
           owed' \in [Nodes -> SUBSET Nat], \A n \in Nodes : owed'[n] \subseteq owed[n],
           link' \in [Nodes -> Links \cup {NoLink}],
           \A n \in Nodes :
               \/ link'[n] = link[n]
               \/ /\ link[n] # NoLink /\ link'[n] # NoLink
                  /\ link'[n].controls = link[n].controls
                  /\ link'[n].active = link[n].active
                  /\ link'[n].dtls = link[n].dtls
    PROVE  HandshakeInv'
<1>1. Typed /\ \A n \in Nodes : SessionOf(n) /\ StanzasOf(n) /\ LinkOf(n)
  BY DEF HandshakeInv
<1>2. UNCHANGED <<setup, endpoint, session, jid, friend, ctrl, links>>
  BY DEF config, known
<1>3. m \in Stanzas
  BY DEF Valid
<1>4. wire' \in [Nodes -> Seq(Stanzas)]
  <2>1. Route(p, to, <<m>>) \in [Nodes -> Seq(Stanzas)]
    BY <1>1, <1>3, Routed
  <2>2. QED
    BY <1>1, <2>1 DEF Typed
<1>5. Typed'
  BY <1>1, <1>2, <1>4 DEF Typed
<1>6. Onward
  BY <1>1, <1>2 DEF Onward, Typed
<1>7. \A n \in Nodes : StanzasOf(n)'
  BY <1>2, <1>5, StanzaSent
<1>8. \A n \in Nodes : SessionOf(n)'
  BY <1>1, <1>2, <1>5, <1>6, SessionKept
<1>9. \A n \in Nodes : LinkOf(n)'
  BY <1>1, <1>2, <1>5, <1>6, LinkKept
<1>10. QED
  BY <1>5, <1>7, <1>8, <1>9 DEF HandshakeInv

\* A presence of a session that a node has had may reach its peer.
LEMMA KnownJids ==
    ASSUME HandshakeInv, NEW n \in Nodes, NEW type \in PresenceTypes,
           NEW s \in 1..session[n].jid
    PROVE  Presence(type, s) \in Valid(Other(n))
<1>1. s \in Jids /\ s <= session[n].jid
  <2>1. /\ session[n].jid \in Nat /\ session[n].jid <= MaxSessions[n]
        /\ MaxSessions[n] \in Nat
    BY Bounds DEF HandshakeInv, Typed, SessionOf
  <2>2. s \in 1..MaxSessions[n] /\ s <= session[n].jid
    BY <2>1
  <2>3. QED
    BY <2>2, Bounds
<1>2. Other(Other(n)) = n
  BY Peers
<1>3. /\ Presence(type, s) \in Stanzas /\ Presence(type, s).type \in PresenceTypes
      /\ Presence(type, s).from = s
  BY <1>1, PresenceStanza
<1>4. Presence(type, s).type \notin ConTypes
  BY <1>3, TypesDiffer
<1>5. QED
  BY <1>1, <1>2, <1>3, <1>4 DEF Valid

\* What SendToPeer sends carries the present JID and tells whether there is a
\* certificate.
LEMMA Request ==
    ASSUME HandshakeInv, NEW n \in Nodes, Open(n), NEW type \in ConTypes,
           NEW id \in LinkIds \cup {0}
    PROVE  [type |-> type, from |-> session[n].jid,
            fpr |-> setup[n] = "cert", link |-> id] \in Valid(Other(n))
<1> DEFINE m == [type |-> type, from |-> session[n].jid,
                 fpr |-> setup[n] = "cert", link |-> id]
<1>1. session[n].jid \in Jids /\ session[n].jid \in Nat /\ setup[n] # "none"
  <2>1. /\ session[n].jid \in Nat /\ session[n].jid <= MaxSessions[n]
        /\ session[n].jid >= 1 /\ setup[n] # "none"
    BY DEF HandshakeInv, Typed, SessionOf, Open
  <2>2. MaxSessions[n] \in Nat /\ \A j \in 1..MaxSessions[n] : j \in Jids
    BY Bounds
  <2>3. QED
    BY <2>1, <2>2
<1>2. Other(Other(n)) = n
  BY Peers
<1>3. (setup[n] = "cert") \in BOOLEAN
  OBVIOUS
<1>4. m \in Stanzas /\ m.from = session[n].jid /\ m.fpr = (setup[n] = "cert")
  BY <1>1, <1>3, ConStanza, Zenon
<1>5. m.from <= session[n].jid
  BY <1>1, <1>4
<1> HIDE DEF m
<1>6. m \in Valid(Other(n))
  BY <1>1, <1>2, <1>4, <1>5, Zenon DEF Valid
<1>7. QED
  BY <1>6 DEF m

\* Presence is resent, or the server reports the end of a session.
LEMMA PresencePreserves ==
    ASSUME HandshakeInv, NEW k \in Nodes, ResendPresence(k) \/ ReportsGone(k)
    PROVE  HandshakeInv'
<1>1. Other(k) \in Nodes
  BY Peers
<1>2. /\ UNCHANGED <<config, session, known, ctrl, links>> /\ link' = link
      /\ gone \in [Nodes -> SUBSET Nat] /\ owed \in [Nodes -> SUBSET Nat]
      /\ link \in [Nodes -> Links \cup {NoLink}]
  BY DEF HandshakeInv, Typed, ResendPresence, ReportsGone, presence
<1>3. \E type \in PresenceTypes : \E s \in Believed(k) :
          wire' = Route(Other(k), session[Other(k)].jid, <<Presence(type, s)>>)
  BY DEF ResendPresence, ReportsGone, Believed, PresenceTypes
<1>4. PICK type \in PresenceTypes, s \in Believed(k) :
          wire' = Route(Other(k), session[Other(k)].jid, <<Presence(type, s)>>)
  BY <1>3
<1>5. /\ gone' = gone \/ \E j : gone' = [gone EXCEPT ![k] = @ \ {j}]
      /\ owed' = owed \/ \E j : owed' = [owed EXCEPT ![Other(k)] = @ \ {j}]
  BY DEF ResendPresence, ReportsGone, presence
<1>6. gone' \in [Nodes -> SUBSET Nat] /\ \A n \in Nodes : gone'[n] \subseteq gone[n]
  BY <1>2, <1>5
<1>7. owed' \in [Nodes -> SUBSET Nat] /\ \A n \in Nodes : owed'[n] \subseteq owed[n]
  BY <1>1, <1>2, <1>5
<1> DEFINE m == Presence(type, s)
<1>8. m \in Valid(Other(k))
  BY BelievedSessions, KnownJids
<1>9. wire' = Route(Other(k), session[Other(k)].jid, <<m>>)
  BY <1>4
<1> HIDE DEF m
<1>10. QED
  BY <1>1, <1>2, <1>6, <1>7, <1>8, <1>9, SendPreserves

\* The server tells a new session of a session of the peer.
LEMMA GreetPreserves ==
    ASSUME HandshakeInv, NEW k \in Nodes, Greet(k)
    PROVE  HandshakeInv'
<1>1. Other(k) \in Nodes /\ Other(Other(k)) = k
  BY Peers
<1>2. /\ UNCHANGED <<config, session, known, ctrl, links>> /\ link' = link /\ gone' = gone
      /\ gone \in [Nodes -> SUBSET Nat] /\ owed \in [Nodes -> SUBSET Nat]
      /\ link \in [Nodes -> Links \cup {NoLink}]
      /\ owed[k] \subseteq 1..session[Other(k)].jid
  BY DEF HandshakeInv, Typed, SessionOf, Greet
<1>3. PICK s \in owed[k] :
          /\ owed' = [owed EXCEPT ![k] = @ \ {s}]
          /\ wire' = Route(k, session[k].jid, <<Presence("available", s)>>)
  BY DEF Greet
<1>4. /\ gone' \in [Nodes -> SUBSET Nat] /\ \A n \in Nodes : gone'[n] \subseteq gone[n]
      /\ owed' \in [Nodes -> SUBSET Nat] /\ \A n \in Nodes : owed'[n] \subseteq owed[n]
  BY <1>2, <1>3
<1> DEFINE m == Presence("available", s)
<1>5. m \in Valid(k)
  <2>1. s \in 1..session[Other(k)].jid /\ "available" \in PresenceTypes
    BY <1>2 DEF PresenceTypes
  <2>2. QED
    BY <1>1, <2>1, KnownJids
<1>6. wire' = Route(k, session[k].jid, <<m>>)
  BY <1>3
<1> HIDE DEF m
<1>7. QED
  BY <1>2, <1>4, <1>5, <1>6, SendPreserves

\* A con_req is sent for the controller, or a con_resp when the candidates of
\* the link are complete.
LEMMA RequestPreserves ==
    ASSUME HandshakeInv, NEW k \in Nodes, AskPeer(k) \/ AllocationDone(k)
    PROVE  HandshakeInv'
<1>1. Other(k) \in Nodes /\ Other(Other(k)) = k
  BY Peers
<1>2. /\ UNCHANGED <<config, session, known, ctrl, links>> /\ gone' = gone /\ owed' = owed
      /\ gone \in [Nodes -> SUBSET Nat] /\ owed \in [Nodes -> SUBSET Nat]
      /\ link \in [Nodes -> Links \cup {NoLink}]
  BY DEF HandshakeInv, Typed, AskPeer, AllocationDone, presence
<1>3. \E type \in ConTypes : \E id \in LinkIds \cup {0} : wire' = SendToPeer(k, type, id)
  <2>1. CASE AskPeer(k)
    BY <2>1 DEF AskPeer, ConTypes
  <2>2. CASE AllocationDone(k)
    <3>1. link[k].id \in LinkIds
      BY <1>2, <2>2 DEF AllocationDone, Links
    <3>2. QED
      BY <2>2, <3>1 DEF AllocationDone, ConTypes
  <2>3. QED
    BY <2>1, <2>2
<1>4. PICK type \in ConTypes, id \in LinkIds \cup {0} : wire' = SendToPeer(k, type, id)
  BY <1>3
<1>5. link' = link \/ (link[k] \in Links /\ link' = [link EXCEPT ![k].announced = TRUE])
  BY <1>2 DEF AskPeer, AllocationDone
<1>6. link' \in [Nodes -> Links \cup {NoLink}]
  <2>1. CASE link' = link
    BY <1>2, <2>1
  <2>2. CASE link[k] \in Links /\ link' = [link EXCEPT ![k].announced = TRUE]
    <3>1. [link[k] EXCEPT !.announced = TRUE] \in Links
      BY <2>2 DEF Links
    <3>2. QED
      BY <1>2, <2>2, <3>1
  <2>3. QED
    BY <1>5, <2>1, <2>2
<1>7. \A n \in Nodes :
          \/ link'[n] = link[n]
          \/ /\ link[n] # NoLink /\ link'[n] # NoLink
             /\ link'[n].controls = link[n].controls
             /\ link'[n].active = link[n].active
             /\ link'[n].dtls = link[n].dtls
  <2>1. CASE link' = link
    BY <2>1
  <2>2. CASE link[k] \in Links /\ link' = [link EXCEPT ![k].announced = TRUE]
    <3>1. /\ link'[k] \in Links /\ link'[k].controls = link[k].controls
          /\ link'[k].active = link[k].active /\ link'[k].dtls = link[k].dtls
      BY <1>2, <2>2 DEF Links
    <3>2. link[k] # NoLink /\ link'[k] # NoLink
      BY <2>2, <3>1, LinkRecord
    <3>3. \A n \in Nodes \ {k} : link'[n] = link[n]
      BY <1>2, <2>2
    <3>4. QED
      BY <3>1, <3>2, <3>3
  <2>3. QED
    BY <1>5, <2>1, <2>2
<1> DEFINE m == [type |-> type, from |-> session[k].jid,
                 fpr |-> setup[k] = "cert", link |-> id]
<1>8. CASE Open(k) /\ jid[k] # 0
  <2>1. wire' = Route(Other(k), jid[k], <<m>>)
    BY <1>4, <1>8 DEF SendToPeer
  <2>2. m \in Valid(Other(k))
    BY <1>1, <1>8, Request
  <2> HIDE DEF m
  <2>3. \A n \in Nodes : gone'[n] \subseteq gone[n] /\ owed'[n] \subseteq owed[n]
    BY <1>2
  <2>4. QED
    BY <1>1, <1>2, <1>6, <1>7, <2>1, <2>2, <2>3, SendPreserves
<1>9. CASE ~(Open(k) /\ jid[k] # 0)
  <2>1. wire' = wire
    BY <1>4, <1>9 DEF SendToPeer
  <2>2. /\ Typed /\ \A n \in Nodes : SessionOf(n) /\ StanzasOf(n) /\ LinkOf(n)
        /\ UNCHANGED <<setup, endpoint, session, gone, owed, jid, friend, wire, ctrl, links>>
    BY <1>2, <2>1 DEF HandshakeInv, config, known
  <2>3. Typed'
    BY <1>6, <2>2 DEF Typed
  <2>4. Onward
    BY <2>2 DEF Onward, Typed
  <2>5. \A n \in Nodes : SessionOf(n)' /\ StanzasOf(n)'
    BY <2>2, <2>3, <2>4, SessionKept, StanzasKept
  <2>6. \A n \in Nodes : LinkOf(n)'
    BY <1>7, <2>2, <2>3, <2>4, LinkKept
  <2>7. QED
    BY <2>3, <2>5, <2>6 DEF HandshakeInv
<1>10. QED
  BY <1>8, <1>9

-----------------------------------------------------------------------------
(* The invariant and what follows from it.                                 *)

\* Each action of either node preserves the invariant.
LEMMA StepHandshake == HandshakeInv /\ [HandshakeNext]_hvars => HandshakeInv'
<1> SUFFICES ASSUME HandshakeInv, [HandshakeNext]_hvars PROVE HandshakeInv'
  OBVIOUS
<1>1. ASSUME NEW n \in Nodes, NEW cert \in BOOLEAN, SetLocalIp(n, cert) PROVE HandshakeInv'
  BY <1>1, SetUpPreserves
<1>2. ASSUME NEW n \in Nodes, SetCbEndpoint(n) PROVE HandshakeInv'
  BY <1>2, SetUpPreserves
<1>3. ASSUME NEW n \in Nodes, SignOn(n) PROVE HandshakeInv'
  BY <1>3, SignOnPreserves
<1>4. ASSUME NEW n \in Nodes, Notice(n) PROVE HandshakeInv'
  BY <1>4, LossPreserves
<1>5. ASSUME NEW n \in Nodes, ResendPresence(n) PROVE HandshakeInv'
  BY <1>5, PresencePreserves
<1>6. ASSUME NEW n \in Nodes, ProcessStart(n) PROVE HandshakeInv'
  BY <1>6, ProcessStartPreserves
<1>7. ASSUME NEW n \in Nodes, ReportsGone(n) PROVE HandshakeInv'
  BY <1>7, PresencePreserves
<1>8. ASSUME NEW n \in Nodes, Break(n) PROVE HandshakeInv'
  BY <1>8, LossPreserves
<1>9. ASSUME NEW n \in Nodes, AskPeer(n) PROVE HandshakeInv'
  BY <1>9, RequestPreserves
<1>10. ASSUME NEW n \in Nodes, Answer(n) PROVE HandshakeInv'
  BY <1>10, AnswerPreserves
<1>11. ASSUME NEW n \in Nodes, AllocationDone(n) PROVE HandshakeInv'
  BY <1>11, RequestPreserves
<1>12. ASSUME NEW n \in Nodes, TrimLink(n) PROVE HandshakeInv'
  BY <1>12, TrimLinkPreserves
<1>13. ASSUME NEW n \in Nodes, Greet(n) PROVE HandshakeInv'
  BY <1>13, GreetPreserves
<1>14. ASSUME NEW n \in Nodes, CreateLink(n) PROVE HandshakeInv'
  BY <1>14, CreateLinkPreserves
<1>15. ASSUME UNCHANGED hvars PROVE HandshakeInv'
  <2>1. UNCHANGED <<setup, endpoint, session, gone, owed, jid, friend, wire, ctrl, link, links>>
    BY <1>15 DEF hvars, config, presence, known
  <2>2. Typed'
    BY <2>1 DEF HandshakeInv, Typed
  <2>3. \A n \in Nodes : SessionOf(n)' /\ LinkOf(n)'
    BY <2>1 DEF HandshakeInv, SessionOf, LinkOf, Settled
  <2>4. \A n \in Nodes : StanzasOf(n)'
    BY <2>1 DEF HandshakeInv, StanzasOf, Valid, Calls
  <2>5. QED
    BY <2>2, <2>3, <2>4 DEF HandshakeInv
<1>16. QED
  BY <1>1, <1>2, <1>3, <1>4, <1>5, <1>6, <1>7, <1>8, <1>9, <1>10, <1>11, <1>12, <1>13, <1>14, <1>15
     DEF HandshakeNext

\* The invariant holds whatever the two nodes, their controllers and the server
\* do, and whatever the network loses.
THEOREM HandshakeInvariant == HandshakeSpec => []HandshakeInv
BY InitHandshake, StepHandshake, PTL DEF HandshakeSpec

\* Every JID that is entered in g_uid_map is one that the peer has had, and the
\* bounds on sessions and links are never exceeded.
THEOREM HandshakeTypeCorrect == HandshakeSpec => []HandshakeTypeOK
<1>1. HandshakeInv => HandshakeTypeOK
  <2> SUFFICES ASSUME HandshakeInv PROVE HandshakeTypeOK
    OBVIOUS
  <2>1. Typed /\ \A n \in Nodes : SessionOf(n) /\ LinkOf(n)
    BY DEF HandshakeInv
  <2>2. ASSUME NEW n \in Nodes
        PROVE  /\ session[n].jid \in Jids \cup {0}
                 /\ gone[n] \in SUBSET Jids /\ owed[n] \in SUBSET Jids
               /\ jid[n] \in 0..session[Other(n)].jid /\ links[n] \in LinkIds \cup {0}
    <3>1. /\ session[n].jid \in Nat /\ session[n].jid <= MaxSessions[n]
          /\ gone[n] \subseteq 1..session[n].jid
          /\ links[n] \in Nat /\ links[n] <= MaxLinks[n]
      BY <2>1 DEF Typed, SessionOf, LinkOf
    <3>2. /\ MaxSessions[n] \in Nat /\ MaxLinks[n] \in Nat
          /\ \A k \in 1..MaxSessions[n] : k \in Jids
          /\ \A k \in 1..MaxLinks[n] : k \in LinkIds
      BY Bounds
    <3>3. session[n].jid \in Jids \cup {0} /\ links[n] \in LinkIds \cup {0}
      BY <3>1, <3>2
    <3>4. gone[n] \in SUBSET Jids
      BY <3>1, <3>2
    <3>5. jid[n] \in 0..session[Other(n)].jid
      <4>1. Other(n) \in Nodes
        BY Peers
      <4>2. jid[n] \in Nat /\ session[Other(n)].jid \in Nat /\ jid[n] <= session[Other(n)].jid
        BY <2>1, <4>1 DEF Typed, SessionOf
      <4>3. QED
        BY <4>2
    <3>6. owed[n] \in SUBSET Jids
      <4>1. /\ Other(n) \in Nodes /\ owed[n] \subseteq 1..session[Other(n)].jid
            /\ session[Other(n)].jid \in Nat
            /\ session[Other(n)].jid <= MaxSessions[Other(n)]
        BY <2>1, Peers DEF Typed, SessionOf
      <4>2. QED
        BY <4>1, Bounds
    <3>7. QED
      BY <3>3, <3>4, <3>5, <3>6
  <2>3. session \in [Nodes -> [jid: Jids \cup {0}, status: {"off", "open", "broken", "closed"}]]
    BY <2>1, <2>2 DEF Typed
  <2>4. gone \in [Nodes -> SUBSET Jids] /\ owed \in [Nodes -> SUBSET Jids]
        /\ links \in [Nodes -> LinkIds \cup {0}]
    BY <2>1, <2>2 DEF Typed
  <2>5. \A n \in Nodes : wire[n] \in Seq(Stanzas) /\ ctrl[n] \in Seq(Stanzas)
    BY <2>1 DEF Typed
  <2>6. QED
    BY <2>1, <2>2, <2>3, <2>4, <2>5 DEF Typed, HandshakeTypeOK
<1>2. QED
  BY <1>1, HandshakeInvariant, PTL

\* Two ends of a link never both control, never both wait for the other's
\* hello, and agree on whether there is DTLS.
THEOREM EndsAlwaysAgree == HandshakeSpec => []EndsAgree
<1>1. HandshakeInv => EndsAgree
  <2> SUFFICES ASSUME HandshakeInv, link[1] # NoLink, link[2] # NoLink
               PROVE  /\ link[1].controls # link[2].controls
                      /\ link[1].active # link[2].active
                      /\ link[1].dtls = link[2].dtls
    BY DEF EndsAgree
  <2>1. 1 \in Nodes /\ 2 \in Nodes /\ Other(1) = 2 /\ Other(2) = 1
    BY DEF Nodes, Other
  <2>2. Settled(1, link[1]) /\ Settled(2, link[2])
    BY <2>1 DEF HandshakeInv, LinkOf
  <2>3. /\ link[1].controls = (2 < 1) /\ link[2].controls = (1 < 2)
        /\ link[1].active = (2 > 1) /\ link[2].active = (1 > 2)
    BY <2>1, <2>2 DEF Settled
  <2>4. link[1].controls # link[2].controls /\ link[1].active # link[2].active
    BY <2>3
  <2>5. /\ link[1].dtls = (setup[1] = "cert" /\ setup[2] = "cert")
        /\ link[2].dtls = (setup[2] = "cert" /\ setup[1] = "cert")
    BY <2>1, <2>2, Zenon DEF Settled
  <2>6. link[1].dtls = link[2].dtls
    BY <2>5, Zenon
  <2>7. QED
    BY <2>4, <2>6
<1>2. QED
  BY <1>1, HandshakeInvariant, PTL
=============================================================================
