----------------------------- MODULE FreeNetwork ------------------------------
(***************************************************************************)
(* get_free_network_ip, run once at start-up: the address reported until   *)
(* SET_LOCAL_IP is 172.31.0.100, or one in a lower network of 172 if an    *)
(* interface is in that one.  A network is its second number; 0 stands for *)
(* every network outside of 172.                                           *)
(***************************************************************************)
EXTENDS Integers, SequencesExt

CONSTANTS
    Networks,       \* those that interfaces may be in
    MaxInterfaces   \* bound: interfaces of the host

VARIABLES
    interfaces,     \* the networks of the interfaces, in the order of getifaddrs
    ifa,            \* the interface that is looked at next
    ip_addr         \* the network of the address

fvars == <<interfaces, ifa, ip_addr>>

FreeInit ==
    /\ interfaces \in SeqOf(Networks, MaxInterfaces)
    /\ ifa = 1
    /\ ip_addr = 31

\* Seven characters are compared: two digits and the dots around them.  With one
\* digit the text ends before its second dot and equals no other.
Clash(network) == network = ip_addr /\ ip_addr > 9

\* One pass: what has been looked at is not looked at again.
NextInterface ==
    /\ ifa <= Len(interfaces)
    /\ ip_addr' = IF Clash(interfaces[ifa]) THEN ip_addr - 1 ELSE ip_addr
    /\ ifa' = ifa + 1
    /\ UNCHANGED interfaces

FreeSpec == FreeInit /\ [][NextInterface]_fvars

\* By its comment in main this "checks to see if network is available, changes
\* IP if not": in the end no interface is in the network.
NetworkAvailable ==
    ifa > Len(interfaces) => ip_addr \notin ToSet(interfaces)
===============================================================================
