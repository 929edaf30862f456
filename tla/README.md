# A TLA+ model of ipop-tincan

`ipop-tincan` is the data plane of an IPOP virtual network: it carries the IP
frames of a tap device over P2P links that libjingle sets up with ICE, at the
command of a controller in another process, and it signals with the peers over
XMPP. This directory holds TLA+ modules that model its own logic, TLC
configurations that check them on small instances, and proofs for TLAPS.
File names without a directory are those of `src/src/`.

## The system

| part | state | operations | talks to |
|---|---|---|---|
| `TinCanConnectionManager`, link tables (tincanconnectionmanager.cc) | `tincan_id_`, `identity_`, `trim_enabled_`, `uid_map_`, `transport_map_`, `short_uid_map_`, `ip_map_`, one `PeerState` per link | `Setup`, `CreateTransport`, `CreateConnections`, `DestroyTransport`, the handlers of the transports' signals, the two `Invoke`d functions | libjingle by signals; the controller and the peers through `PeerSignalSender` |
| `TinCanConnectionManager`, packet path | `g_send_queue`, `g_recv_queue`, `forward_addr_` | `DoPacketSend`, `DoPacketRecv`, `SendToTap`, `HandleQueueSignal_w`, `HandlePacket`, `OnReadPacket` | ipop-tap through function pointers, the channels, the controller's socket |
| `ControllerAccess` (controlleraccess.cc) | `remote_addr_`, options | one UDP handler that dispatches IP packets, ICC messages and JSON requests | calls the manager and `XmppNetwork` |
| `XmppNetwork` (xmppnetwork.cc) | `pump_`, the session's tasks, `xmpp_state_`, `on_msg_counter_`, `presence_time_` | `Login`, `Connect`, `OnSignOn`, `OnStateChange`, the watchdog `OnMessage` | libjingle's `XmppPump` and `XmppClient` |
| `TinCanTask` (xmppnetwork.cc) | a queue of stanzas, `g_uid_map` | `SendToPeer`, `HandleStanza`, `ProcessStart` | `XmppNetwork`, the manager (`HandlePeer`) |
| `TinCanXmppSocket` (tincanxmppsocket.cc) | `state_`, `buffer_` | connect, read, write, close, start TLS | libjingle's socket |
| `PeerSignalSender` (tincanconnectionmanager.h) | a map of two services | `SendToPeer` | controller (0), XMPP (1) |
| `wqueue` (wqueue.h) | a list, a mutex, a condition variable | `add`, `remove` | the threads below |
| start-up (tincan.cc) | - | `main`, `get_free_network_ip` | starts the threads |

Four threads share the process. **L**, `link_setup_thread`, is the main thread:
requests, transport signals, XMPP and the watchdog are messages of its queue.
**W**, `packet_handling_thread`, owns `short_uid_map_` and the channels; L
reaches it by a synchronous `Invoke`, and W never invokes L. `send_thread` and
`recv_thread` belong to ipop-tap and see only the two queues.

What is hard here, and what the properties are about:

* L changes three tables of which W reads one, without locks; the order of
  `DestroyTransport` is all that protects W from a freed transport
  (tincanconnectionmanager.cc:580-586).
* signals of a transport wait in L's queue while links come and go and
  addresses are reused; their handlers index the tables with `operator[]`.
* W removes from a queue with a blocking `remove`: a signal without a frame
  would block W, then L, then everything.
* `con_resp` and `con_stat` are built from copies that messages keep up to date.
* sockets and tasks of an XMPP session have two owners, and the watchdog's
  messages are posted in two places.
* the socket sends by parts, starts TLS while the engine goes on writing, and
  tells nobody that the connection is lost, that a `Send` has failed or that TLS
  could not be started.
* two nodes learn each other's JID from stanzas that may be lost, or belong to
  a session that is over; con_req and con_resp are sent once, and links are made
  before any presence has come.

`PROJECT.json` lists these hazards one by one, each at its line, with the
properties that would notice them going wrong.

## Modules

| module | models | kind |
|---|---|---|
| `LinkManager` | link tables, signals and the library beneath them, on L and W | component |
| `TransportLifecycle` | what the tables promise W about an address | abstract specification of `LinkManager` |
| `PacketPath` | the packet path; EXTENDS `LinkManager`, whose steps interleave with it | composition |
| `XmppNetwork` | session and watchdog | component |
| `XmppSocket` | `TinCanXmppSocket`; EXTENDS `XmppNetwork`, with whose steps it is composed | composition |
| `Handshake` | two nodes, the stanzas between them, their controllers and their link | composition of what the components promise |
| `FreeNetwork` | `get_free_network_ip` | pure algorithm |
| `WQueue` | `add` and `remove` statement by statement | component |
| `AtomicQueue` | the queue `PacketPath` takes for granted | abstract specification of `WQueue` |
| `LinkManagerProofs` | theorems about `LinkManager` | proofs |
| `AnnouncementProofs` | theorem about the con_resp of `LinkManager`; EXTENDS `LinkManagerProofs` | proofs |
| `PacketPathProofs` | theorems about `PacketPath`; EXTENDS `AnnouncementProofs` | proofs |
| `XmppProofs` | theorems about `XmppNetwork` and `XmppSocket` | proofs |
| `WQueueProofs` | theorems about `WQueue` | proofs |
| `HandshakeProofs` | theorems about `Handshake` | proofs |
| `MCLinkManager`, `MCPacketPath`, `MCHandshake` | values for the constants | instances for TLC |

A definition called `Name_Fault` is the definition `Name` with a bug that the
code could have had; it occurs in no specification and is there so that each
property can be seen to fail.

### LinkManager

`uid_map`, `transport_map`, `short_uid_map` are the three tables, `alive` is the
set of transports that exist, `l` says how far L has got in a create or destroy
operation, `pending[t]` are the messages transport `t` has posted to L, and
`resp[t]`, `stat[t]` the last con_resp and con_stat sent for it. `lib[t]` is what
libjingle keeps. A transport is named by its address, which can be allocated
again once it is destroyed.

| code | actions |
|---|---|
| `Setup` | `Setup` (`ok` is false if no certificate could be made) |
| CREATE_LINK | `CreateTransport`, then `InsertTransportMap_w` on W, then `FinishCreate`, which includes `CreateConnections`; `RetryLink` if `CreateTransport` returns false |
| TRIM_LINK | `DestroyTransport`, `DeleteTransportMap_w` on W, `EraseLink`, `DestroyPeerState` |
| SET_TRIMPOLICY | `SetTrim` |
| GET_STATE | `StateToJson` is the status reported for a peer; `GetState` and, on W, `GetChannelStats_w` if it is online and its statistics are asked for |
| signals handled on L | `OnRequestSignaling`, `OnCandidatesReady`, `OnCandidatesAllocationDone`, `OnRWChangeState` |
| slot called on W | `HandleConnectionSignal` |
| libjingle | `GatherCandidate`, `AllocationDone`, `ChannelState` |

Candidates are model values; a con_resp is its addressee, overlay, fingerprint
and set of candidates; an identifier is a number, ordered as the strings are
(the ICE roles depend on that order only). `WellFormed` are the candidates that
split into twelve fields. A table entry that is absent has the value `NoPeer`,
`NoUid` or `NoTransport`.

What libjingle does is taken from how the code uses it: a transport posts its
signals to L in order and its destructor removes what it has posted; the
candidates ready are handed over together, with one message while some are
waiting; L's `readable`, `writable` are copied from the channel when a message
about it is handled, and the slot runs only if the copy changes.

### PacketPath

`send_queue`, `posted`, `w` are `g_send_queue`, the number of MSG_QUEUESIGNAL
messages for W, and W's place in `HandleQueueSignal_w`; `tap` and `icc` say
whether `send_thread` or L is between the two statements of `DoPacketSend`.
`fate[f]` records what became of a frame and `recv_queue` what waits for
`recv_thread`, as the source it claims and the peer whose channel it came by.
W's function is four steps (`TakeSignal`, `Remove`, `FindTransport` or
`ForwardUnrouted`, `SendFound`) because L and `send_thread` run in between; the
functions that L invokes wait for `w = Free`, as they do in the code.

`NoRoute` has only the lookup: the comparison beside it
(tincanconnectionmanager.cc:314) sets three characters against twenty and never
succeeds. `TagsFor` may be any byte for a frame whose tests both fail.

### XmppNetwork

A `scoped_ptr` is `"null"`, `"current"` (an object of the present client) or
`"old"` (one that was deleted with an earlier client); `twice` records a
deletion of what a client deletes too. Time is counted in intervals of 15 s:
`due` and `later` are the watchdog's messages that are due now and after the next
`Tick`. Each branch of `OnMessage` is an action. `Closes` assumes that a
disconnected client reports STATE_CLOSED before `DoDisconnect` returns.

### XmppSocket

`state` and `buffer` are `state_` and `buffer_`; `conn` is the connection below
the socket, `"failed"` if `StartSSL` refused. The stream is cut into numbered
pieces, two for each `Write`, of which a `Send` takes any number; `read` is what
the server has read, each piece in clear or under TLS. `pending` is what the last
`Send` leaves to come: a write event if it would block, nothing (`"error"`) if it
failed for good, which the code only logs. `OnWriteEvent` is the loop over the
buffer, `Write` appends to whatever is still there.

The composition replaces "the client makes progress" of `XmppNetwork` by the
events that cause it: `OnConnectEvent` (the engine opens the stream),
`RequestTls`, `StartTls`, `OnConnectEventTls`, `SignedOn` (the session opens and
presence is sent). During the login the engine waits for answers, so that the
buffer is empty when it writes, but for the second stream header, which it writes
without waiting for TLS and without knowing whether `StartSSL` failed. After the
sign-on `SendStanza` (messages, pings) and `ResendPresence` of the watchdog write
at any time (`Output`), also onto unsent bytes. `Watchdog` is `OnMessage`, with
what its branches do to the socket; `OnCloseEvent` changes nothing in
`XmppNetwork`, as its handler there only logs. That the SSL adapter takes nothing
while it negotiates is how libjingle's behaves, and the reason for the flush in
`OnConnectEvent`.

### Handshake

One node of each uid. `jid` is `g_uid_map`, `friend` is `presence_time_`,
`session` the XMPP session with the number that its JID ends in, `link` the entry
for the peer in `uid_map_`.

| code | actions |
|---|---|
| SET_LOCAL_IP, SET_CB_ENDPOINT | `SetLocalIp`, `SetCbEndpoint` |
| REGISTER_SVC and reconnection | `SignOn`; `Notice` is the watchdog, `ResendPresence` its presence |
| `HandleStanza`, `ProcessStart`, `SetTime` | `ProcessStart` with `Learned` and `Timed` |
| `SendToPeer` of `ControllerAccess` / of `XmppNetwork` and `TinCanTask` | `CallBack` / `SendToPeer` |
| a request that is no method (con_req) | `AskPeer` |
| CREATE_LINK in answer to a callback | `Answer`, with `NewLink` or `Answered` |
| CREATE_LINK unasked | `CreateLink` |
| the end of gathering, TRIM_LINK | `AllocationDone`, `TrimLink` |
| XMPP server, network | `Route`, `Greet`, `ReportsGone`, `Break` |

Stanzas to a node arrive in the order sent, as in an XMPP stream; `Break` loses
those on the way, and the end of a session is reported whenever the server
likes. A new session announces itself to the peer (`SignOn`); the peer's own
presence reaches it by `Greet`, a step that the server owes no one: a con_req of
the peer may come first (`owed` are the sessions it has not told of). A controller
asks while it has no link, passes the fingerprint and the candidates of a callback
on to CREATE_LINK over overlay 1 with `sec` set, creates a link of its own accord
once both nodes have been set up, and trims when it likes. The fingerprint that it
passes unasked it has from elsewhere, and it is the peer's. Inside a node the steps of `LinkManager` are taken at once;
its run shows that a con_resp is complete and that tables are never half changed.

### FreeNetwork

One step per interface. A network is its second number, as the seven characters
that the code compares tell no more of an address in 172; below 10 the text is cut
short by the code and equals no other, which takes 22 clashes.

### WQueue

Each statement of `add` and `remove` is an action of the thread whose place is
`adding[p]` or `removing[c]`; `CallAdd` and `CallRemove` are the calls, and
`m_mutex` names the holder. A waiter may wake for no reason, as POSIX allows. An
item enters the abstract queue with `Push` and leaves it with `Pop`.

## Runs

| run | instance | states | shows |
|---|---|---|---|
| `link_tables` | 3 uids, 3 addresses, distinct prefixes | 62 thousand | the tables under every interleaving, and that they implement `TransportLifecycle` with its liveness |
| `link_announce` | 2 uids, 1 address, 2 overlays, 3 candidates of which 1 on the tap | 23 thousand | the con_resp is complete and is sent |
| `link_status` | 2 uids, 1 address, both flags change freely, 4 candidate lists, relays | 310 thousand | the con_stat is true, is reported, and agrees with GET_STATE |
| `link_relay` | as `link_status` | violation | finding 1 |
| `packet_path` | 3 uids of which 2 share a prefix, 2 addresses, 1 frame, `g_recv_queue` up to 1 | 880 thousand | W never follows a dead or foreign pointer, and no link delivers under the source of another one |
| `packet_live` | 2 uids, 1 address, 3 frames of 2 producers, 1 too short | 170 thousand | W never blocks, every frame is handled, every Invoke returns |
| `packet_tag` | as `packet_live`, with another MAC address | violation | finding 2 |
| `xmpp_session` | `XmppSocket`, a resend every 8 intervals, as in the code; streams of up to 16 pieces | 17 thousand | the watchdog, ownership, presence; the stream, written to at any time, and that a loss or failure of its socket is noticed |
| `xmpp_timers` | `XmppNetwork` alone | violation | finding 3 |
| `wqueue` | 2 producers, 2 consumers, 2 items, a list up to 3 | 14 thousand | the class implements `AtomicQueue` with its liveness, and loses no wakeup |
| `handshake` | two sessions and two links of node 2, one of node 1 | 403 thousand | two ends agree on their roles and on DTLS, find each other, and complete a link |
| `free_network` | up to 3 interfaces in 3 networks | violation | finding 4 |

Each run has what its question needs and no more. Three uids and three
addresses let one link be created or destroyed while two others exist and an
address changes hands; for the packet path two of three peers share a prefix, so
that routes are taken over, and erased by the destruction of another link, beside
a link that has nothing to do with it. In `wqueue` two consumers are more than
either queue of the program has.
One address is enough for announcements and status, whose handlers touch one
transport. In `handshake` one node that is replaced beside one that stays is what
gives an entry of `g_uid_map` for a session that is over, reported as such before
or after the new one; a link that is trimmed and made again beside one that stays
gives candidates of a link that is gone. One stanza and one callback are under way
to a node, which already crosses them in both directions. With two links for both
nodes (`MaxLinks <- TwoTwo`, 1.1 million states) the invariants hold as well.

Sixteen pieces of a stream are six for the login, two for the presence of the
sign-on and four more writes: unsent bytes can be written onto several times, and
go out by halves. Once that many are written the client writes no more and the
rest of the behaviour continues.

The bounds that are not sets of constants are `MaxRecv` (on
`g_recv_queue`), `MaxLen` (producers of `WQueue` begin to add while the list is
shorter), `MaxSessions`, `MaxLinks`, `MaxStanzas`, `MaxCallbacks`,
`MaxInterfaces`, `MaxPieces` (above), and that each frame is sent once. Messages about a flag are
posted at most once while one waits, which loses nothing: a second one would find
nothing new. Deadlock is checked in every run but `free_network`, a function that
ends.

The passing runs check the properties for every mutation listed in
`PROJECT.json` as well: each property fails for at least one plausible bug.

### Fairness

`LinkManager`: L finishes what it begins and W answers an Invoke (weak
fairness); a posted signal is handled although requests keep coming (strong
fairness), because a libjingle thread dispatches its queue in order and looks at
its sockets only when the queue is empty. The controller, the peers and the
network owe nothing: gathering need not end, channels need not come up.
`PacketPath`: every thread goes on (weak), and W gets to an Invoke between two
packets (strong), because `Thread::Get` serves pending Invokes before each
message. `WQueue`: a thread inside `add` or `remove` goes on, and gets a mutex
that is free again and again (strong). `XmppSocket`: due messages are
dispatched, time passes, and a ping times out over a lost connection, or while
it waits behind bytes that nothing will send; the server owes nothing, not even
that a `Send` that would block ends. `Handshake`: a connected node reads its
stanzas, a controller answers its callbacks (weak), a connected node resends its
presence and gathering ends (strong, because `Room` is a bound of the model and
no state of the code). Nobody owes a session, a question or a link, and the
server owes no presence but those that a node sends: `PeerFound` and
`HandshakeCompletes` state what follows once they are there.

## Findings

1. `HandleConnectionSignal` (tincanconnectionmanager.cc:186-197) is said to run
   "after a connection is already online". It is connected when a link comes
   online and never disconnected, so that with trimming enabled it prunes the
   relay connection of a link that has gone offline again.
2. `HandlePacket` (329-339) leaves the type byte of a forwarded frame
   uninitialised if its MAC address has the five ICC bytes and another sixth.
3. After a reconnection the XMPP watchdog has two messages pending
   (xmppnetwork.cc:161-180, 252-265): the state is checked twice per interval and
   the presence is sent every minute. `WatchdogArmed` shows that it never grows
   beyond two.
4. `get_free_network_ip` passes the interfaces once (tincan.cc:80-95): stepping
   away from one it may end in the network of another that it has passed. The
   comment in `main` says that it changes the address if the network is taken; a
   TODO at line 78 knows that it should loop again.

## Proofs

Every invariant that a passing run checks is proved, for every value of the
constants under the named assumptions. Four of the specifications are
proved to refine another one. All inductive invariants were checked by TLC on the instances
above before they were proved.

| module | inductive invariant | properties proved from it | refinements |
|---|---|---|---|
| `LinkManagerProofs` | `IInv`, `StatusInv` | the invariants of `LinkManager` but the next | `LifecycleImplemented` |
| `AnnouncementProofs` | `AnnounceInv` beside `IInv` | `AnnouncementComplete` | |
| `PacketPathProofs` | `PathInv` beside `IInv` | `PathTypeOK`, `SignalsMatchQueue`, `WorkerNeverBlocks`, `FoundTransportUsable`, `DeliveredFromOwner` | `PathImplementsTables`, `PathImplementsLifecycle` |
| `XmppProofs` | `XmppInv`, `SocketInv` | `XmppTypeOK`, `NothingDeletedTwice`, `SendUsesLiveTask`, `WatchdogArmed`, `PresenceFresh`; `SocketTypeOK`, `StreamIntact`, `UnsentWillWake` | `SocketImplementsXmpp` |
| `WQueueProofs` | `QueueInv` | `QueueTypeOK`, `NoLostWakeup`, mutual exclusion | `QueueImplemented` |
| `HandshakeProofs` | `HandshakeInv` | `HandshakeTypeOK`, `EndsAgree` | |

### Assumptions

In `LinkManager` uids are positive numbers (0 is "absent"), each has a prefix,
and the "absent" values are not entries. `FramesAssumption` gives each frame one
producer, a prefix and a kind of MAC address; `PresenceAssumption` and
`BoundsAssumption` make the interval and the bounds positive; `PiecesAssumption`
leaves room for the pieces that every login writes. `ThreadsAssumption`
says that the threads of a process are finitely many: `NoLostWakeup` counts them.
Only the theorems about `RoutesComplete`, `DeleteFindsRoute` and
`TransportLifecycle` suppose distinct prefixes (`Injective`), which the code does
not ensure; the properties have that condition too, and `RoutesNeverDangle` and
everything about the packet path does without.

### The tables (`LinkManagerProofs`)

`IInv` is the type invariant and `TablesInverse` (the two tables of L agree at
every moment, not only between operations), `AliveExact` (a transport lives while
the tables name it, or is being destroyed), `LinkInProgress` (the operation is
about a link in the tables), `RoutesSound` (a route leads to a link with that
prefix, and never to one not yet published or about to be erased),
`RoutesPresent` (with distinct prefixes only the link in progress may lack its
route), `DeadAreSilent` (nothing is posted for a dead address) and
`DtlsIdentityAlive`. None of the checked invariants is inductive alone: that no
route dangles after `DestroyPeerState` needs that `DeleteTransportMap_w` removed
it, which is remembered only by `RoutesSound` with the value of `l`, and that
rests on `TablesInverse`. `StatusOf`, added for `StatusTruthful` and
`ReportsAgree`, says that L's copy of a flag differs from the channel's only while
a message about it waits, and what was sent last for each copy of the flags. The
lemma `LifeIsStage`, for `LifecycleImplemented`, reads the stage of an address off
the place of L.

### Announcements (`AnnouncementProofs`)

That the con_resp is complete when the end of the allocation has been handled
depends on the order of L's queue: candidates are taken over by one message and
sent by a later one. `AnnounceInv` says of each transport that candidates which
are ready have a message waiting, that behind each such message an end of the
allocation waits once the allocation is done (`Followed`), that the link's list is
what has been gathered, without what is still ready and without the tap's, and
that an address without a transport has gathered nothing, which is what a new
link of a reused address starts from. `CandidatesHanded` and `RequestAnnounce` are
the two ways in which a con_resp is sent.

### The packet path (`PacketPathProofs`)

`PathImplementsTables` shows that no step of a frame writes what `LinkManager`
models, and its steps are those of `Next` or none; so all that was proved of the
tables holds under traffic (`TablesKeepPromises`), and `TransportLifecycle` is
implemented too. `PathInv` adds `RouteHeld`: while W is between its look-up and
its use of the transport, the route that it read is still in the table, since
what would change it waits for W. With `RoutesSound` that gives
`FoundTransportUsable`. `SignalsMatchQueue` is inductive as it stands, and
`WorkerNeverBlocks` follows from it.

### XMPP (`XmppProofs`)

`PointersFollow` ties each pointer to the state of the session, from which
`NothingDeletedTwice` and `SendUsesLiveTask` follow. `PresenceInTime` is what
makes `PresenceFresh` inductive: the intervals without a presence, the one that
must pass before a message is due, and the messages still missing until the
counter wraps never add up to more than `PresenceTicks`; it holds whatever the
counter was when the session opened, since two pending messages only make it
faster. For the socket, `StreamCut` says that what the server has read and what
is buffered are the stream cut in two, each piece in the layer due to it, and
`StreamPhase` how much has been written in each state; without `StreamPhase`, TLS
could begin while clear pieces wait. `UnsentWillWake` is preserved beside them, as
every `Send` leaves bytes only with a reason. All three hold for streams of any
length, whatever is written onto unsent bytes and whenever a `Send` fails. `SocketImplementsXmpp` carries the
first part over (`SessionsKeepPromises`).

### The queue (`WQueueProofs`)

`MutexHeld` says that the thread between lock and unlock is the one that
`m_mutex` names. `NoLostWakeup` is inductive with it; its step for
`pthread_cond_signal` moves one thread from one of the counted sets to the other.
`QueueImplemented` maps the statements that change the list to `Push` and `Pop`
and every other one to a stutter.

### Two nodes (`HandshakeProofs`)

`EndsAgree` is about two links made at different times from what each node knew
then. It follows from `StanzasOf` (what is under way to a node carries the
fingerprint that its peer has, and a JID that the peer has had) and `LinkOf` (a
link has the roles and the security that the two identifiers and certificates
determine). `CreateLink` makes a link before any stanza; it fits because both nodes
have been set up by then, and neither changes its certificate.

### Left to TLC

The liveness properties (`LinkAnnounced`, `OnlineReported`, `EveryFrameHandled`,
`InvokesReturn`, `SessionReplaced`, `LossNoticed`, `PeerFound`,
`HandshakeCompletes`) and the fairness of `ImplementsLifecycle` and
`ImplementsQueue`: they need `ENABLED`, of which the installed provers know
nothing. For the same reason the refinement theorems are about specifications
without fairness. The four properties that are violated are findings and have no
theorem. `FreeNetwork` has no property that holds.

## Not modelled

SetRelay, `ip_map_` and the requests about logging, echo and the tap's options
change nothing the other parts read. `forward_addr_` is written on L and read on W without
synchronisation; the model has no address to tear. `OnNetworksChanged` feeds
libjingle's network list. In `Handshake` a con_resp without a candidate and
stanzas of other resources are left out, and the age of a presence, which
`presence_time_` holds and only the report prints. Reading from
`TinCanXmppSocket` passes on what is below it, and the end tag that the engine
writes when it disconnects a session is left out. A candidate list is opaque: its
twelve fields are separated by colons, and a field that holds one itself (an
interface called `eth0:1`) would be read shifted. libjingle and ipop-tap appear
only as actions of the components that use them, `main` as their initial states.

A full state report lists the peers from which a presence has come, so that a link
made by a con_req or by CREATE_LINK before that is missing from it until the next
presence, which a connected peer resends every two minutes (`PeerFound`); no
comment promises more. A link is not always completed: a candidate list names no link, so that one of an
earlier link of the peer that arrives late is taken for good
(tincanconnectionmanager.cc:549), and what a session loses is not sent again.
`HandshakeCompletes` therefore starts from `Calm`, where nothing of earlier links
or sessions is under way and nobody will interfere, and asks for one con_req.

## Plan

Modelled and checked: all modules above; proved: every safety property of the
passing runs. What may still be worth proving:

1. `FreeNetwork`: what its one pass does ensure (the result differs from the
   network of the interface looked at last, and follows from the number of clashes).
2. That `PacketPath` with its atomic queues needs no more of `wqueue` than
   `AtomicQueue` gives: an instance of `AtomicQueue` for each of its two queues.
3. Action properties, where TLC agrees: what a route may change to when a prefix
   is shared, and when the JID that a node keeps for its peer may go back to that
   of an earlier session.
