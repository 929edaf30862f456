----------------------------- MODULE XmppNetwork ------------------------------
(***************************************************************************)
(* XmppNetwork: one XMPP session at a time and the watchdog that replaces  *)
(* it.  Everything runs on L; what is left to chance is when the client of *)
(* libjingle reports a state, when a task of it fails, and when a message  *)
(* of the watchdog is due.                                                 *)
(*                                                                         *)
(* The client deletes its socket and its tasks, so a scoped_ptr of         *)
(* XmppNetwork that still holds one must release it, never reset it.       *)
(* Stanzas are not modelled.  As in LinkManager, Name_Fault is Name with a *)
(* bug.                                                                    *)
(***************************************************************************)
EXTENDS Naturals

\* kPresenceInterval in units of kInterval.
CONSTANT PresenceTicks

ASSUME PresenceAssumption == PresenceTicks \in Nat \ {0}

Engine == {"none", "start", "opening", "open", "closed"}

\* What a scoped_ptr holds: nothing, an object of the present client, or one
\* that was deleted with an earlier client.
Pointers == {"null", "current", "old"}

VARIABLES
    client,         \* "none" before Login; "gone" once it has disconnected
    xmpp_state,
    child_error,    \* AnyChildError() of the client
    xmpp_socket, presence_out, tincan_task, ping_task,
    twice,          \* a scoped_ptr has deleted what a client deletes as well
    due,            \* messages to OnMessage that are due
    later,          \* those that are due after kInterval
    counter,        \* on_msg_counter_, in units of kInterval
    silent          \* intervals since the session last sent its presence

tasks == <<presence_out, tincan_task, ping_task>>
pointers == <<xmpp_socket, tasks, twice>>
session == <<client, xmpp_state, child_error, pointers>>
timers == <<due, later, counter>>
xvars == <<session, timers, silent>>

XmppTypeOK ==
    /\ client \in {"none", "running", "gone"}
    /\ xmpp_state \in Engine
    /\ child_error \in BOOLEAN
    /\ {xmpp_socket, presence_out, tincan_task, ping_task} \subseteq Pointers
    /\ twice \in BOOLEAN
    /\ due \in 0..2 /\ later \in 0..2
    /\ counter \in 0..(PresenceTicks - 1)
    /\ silent \in 0..(PresenceTicks + 1)

XmppInit ==
    /\ client = "none"
    /\ xmpp_state = "none"
    /\ child_error = FALSE
    /\ xmpp_socket = "null"
    /\ presence_out = "null" /\ tincan_task = "null" /\ ping_task = "null"
    /\ twice = FALSE
    /\ due = 0 /\ later = 0 /\ counter = 0
    /\ silent = 0

-----------------------------------------------------------------------------
Age(p) == IF p = "current" THEN "old" ELSE p

ReleaseTasks_KeepsPing(released) ==
    /\ presence_out' = IF released THEN "null" ELSE Age(presence_out)
    /\ tincan_task' = IF released THEN "null" ELSE Age(tincan_task)
    /\ ping_task' = Age(ping_task)

\* The pointers to tasks across Connect, which replaces their client: null if
\* OnMessage has released them.
ReleaseTasks(released) ==
    /\ presence_out' = IF released THEN "null" ELSE Age(presence_out)
    /\ tincan_task' = IF released THEN "null" ELSE Age(tincan_task)
    /\ ping_task' = IF released THEN "null" ELSE Age(ping_task)

\* The messages left after Connect: Clear removes them all, one is posted, and
\* then those that the caller posts.
Restart_KeepsTimers(posted) ==
    /\ due' = IF due = 0 THEN 0 ELSE due - 1
    /\ later' = later + 1 + posted
    /\ counter' = posted % PresenceTicks

Restart(posted) ==
    /\ due' = 0
    /\ later' = 1 + posted
    /\ counter' = posted % PresenceTicks

\* held: the socket pointer was not released.
Connect(held, released, posted) ==
    /\ client' = "running"
    /\ xmpp_state' = "none"
    /\ child_error' = FALSE
    /\ twice' = (twice \/ held)
    /\ xmpp_socket' = "current"
    /\ ReleaseTasks(released)
    /\ Restart(posted)
    /\ silent' = 0

\* REGISTER_SVC: only while there is no pump, and there is one ever after.
Login ==
    /\ client = "none"
    /\ Connect(xmpp_socket # "null", FALSE, 0)

OnSignOn ==
    /\ presence_out' = "current" /\ tincan_task' = "current" /\ ping_task' = "current"
    /\ twice' = (twice \/ {presence_out, tincan_task, ping_task} # {"null"})
    /\ silent' = 0
    /\ UNCHANGED xmpp_socket

OnStateChange_IgnoresClosed(state) ==
    /\ xmpp_state' = IF state = "closed" THEN xmpp_state ELSE state
    /\ IF state = "open" THEN OnSignOn ELSE UNCHANGED <<pointers, silent>>

OnStateChange(state) ==
    /\ xmpp_state' = state
    /\ IF state = "open" THEN OnSignOn ELSE UNCHANGED <<pointers, silent>>

-----------------------------------------------------------------------------
(* The client of libjingle.                                                *)

Progress ==
    /\ client = "running"
    /\ \E step \in {<<"none", "start">>, <<"none", "opening">>,
                    <<"start", "opening">>, <<"opening", "open">>} :
           xmpp_state = step[1] /\ OnStateChange(step[2])
    /\ UNCHANGED <<client, child_error, timers>>

\* The end of the session, reported before the call that causes it returns.
Closes ==
    /\ client = "running"
    /\ client' = "gone"
    /\ OnStateChange("closed")
    /\ UNCHANGED child_error

ServerCloses == Closes /\ UNCHANGED timers

\* The ping is not answered, or another task gives up.
TaskFails ==
    /\ client = "running"
    /\ xmpp_state = "open"
    /\ child_error' = TRUE
    /\ UNCHANGED <<client, xmpp_state, pointers, timers, silent>>

-----------------------------------------------------------------------------
(* OnMessage, one action per branch; every branch posts the next message.  *)

Dispatched == due > 0 /\ client # "none"

Rearm_OnlyOpen ==
    /\ due' = due - 1
    /\ later' = IF xmpp_state = "open" THEN later + 1 ELSE later
    /\ counter' = (counter + 1) % PresenceTicks

Rearm_Slow ==
    /\ due' = due - 1
    /\ later' = later + 1
    /\ counter' = (counter + 1) % (PresenceTicks + 2)

Rearm ==
    /\ due' = due - 1
    /\ later' = later + 1
    /\ counter' = (counter + 1) % PresenceTicks

DoDisconnect_OnlyLogin ==
    /\ Dispatched
    /\ xmpp_state \in {"start", "opening"}
    /\ Closes
    /\ Rearm

DoDisconnect ==
    /\ Dispatched
    /\ xmpp_state \in {"start", "opening"} \/ (child_error /\ xmpp_state # "closed")
    /\ Closes
    /\ Rearm

ReconnectUnstarted ==
    /\ Dispatched
    /\ xmpp_state = "none"
    /\ ~child_error
    /\ Connect(FALSE, FALSE, 1)

ReconnectClosed ==
    /\ Dispatched
    /\ xmpp_state = "closed"
    /\ Connect(FALSE, TRUE, 1)

Healthy == Dispatched /\ xmpp_state = "open" /\ ~child_error

\* The pointer is released before it is set to the new task.
ResendPresence ==
    /\ Healthy
    /\ counter = 0
    /\ presence_out' = "current"
    /\ silent' = 0
    /\ Rearm
    /\ UNCHANGED <<client, xmpp_state, child_error, xmpp_socket, tincan_task,
                   ping_task, twice>>

NothingToDo ==
    /\ Healthy
    /\ counter # 0
    /\ Rearm
    /\ UNCHANGED <<session, silent>>

OnMessage ==
    \/ DoDisconnect
    \/ ReconnectUnstarted
    \/ ReconnectClosed
    \/ ResendPresence
    \/ NothingToDo

\* kInterval passes.  L dispatches what is due in less than that.  Messages
\* posted within one OnMessage become due together.
Tick ==
    /\ due = 0
    /\ later > 0
    /\ due' = later
    /\ later' = 0
    /\ silent' = IF silent > PresenceTicks THEN silent ELSE silent + 1
    /\ UNCHANGED <<session, counter>>

XmppNext == Login \/ Progress \/ ServerCloses \/ TaskFails \/ OnMessage \/ Tick

XmppSpec == XmppInit /\ [][XmppNext]_xvars

\* Time passes and L dispatches its messages; the server owes nothing.
XmppFairSpec == XmppSpec /\ WF_xvars(OnMessage) /\ WF_xvars(Tick)

-----------------------------------------------------------------------------
\* No scoped_ptr deletes a socket or a task that a client deletes as well,
\* whatever the order in which sessions fail, time out and are replaced.
NothingDeletedTwice == ~twice

\* XmppNetwork::SendToPeer tests two things before it uses the task: together
\* they ensure that the task is one of the client that is connected now.
SendUsesLiveTask ==
    xmpp_state = "open" /\ tincan_task # "null" =>
        tincan_task = "current" /\ client = "running"

\* From Login on the watchdog never stops, and reconnecting does not multiply
\* it: Connect and its caller both post a message, but Connect clears the rest.
WatchdogArmed == client # "none" => due + later \in 1..2

\* While the session is open the presence is sent at least every two minutes.
PresenceFresh == xmpp_state = "open" => silent <= PresenceTicks

\* A session that does not open, is closed, or has a failed task is replaced.
SessionReplaced ==
    client # "none" /\ (xmpp_state # "open" \/ child_error)
        ~> xmpp_state = "none" \/ (xmpp_state = "open" /\ ~child_error)

\* By its comment kInterval is how often OnMessage checks the XMPP state: once
\* per interval.
CheckedOncePerInterval == due + later <= 1
===============================================================================
