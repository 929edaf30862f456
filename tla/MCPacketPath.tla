---------------------------- MODULE MCPacketPath -----------------------------
(***************************************************************************)
(* Instances of PacketPath for TLC: frames f1, f2 from the tap and f3 from *)
(* the controller.  f1 and f3 are for prefix s1, that of two peers or of   *)
(* all; f2 is for s2.                                                      *)
(***************************************************************************)
EXTENDS PacketPath

CONSTANTS t1, t2, s1, s2, f1, f2, f3

\* Peers 1 and 2 share the prefix s1; only peer 3, if there is one, has s2.
SharedPrefix == [u \in Uids |-> IF u = 3 THEN s2 ELSE s1]
Destinations == [f \in Frames |-> IF f = f2 THEN s2 ELSE s1]

NoCandidates == {{}}
OneWritable == {<<t1, "write">>}

IccOnly == [f \in Frames |-> IF f = f1 THEN "plain" ELSE "icc_packet"]
OtherMac == [f \in Frames |-> IF f = f1 THEN "plain" ELSE "icc_other"]
=============================================================================
