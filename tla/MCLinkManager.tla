---------------------------- MODULE MCLinkManager ----------------------------
(***************************************************************************)
(* Instances of LinkManager for TLC.  Identifiers are 1, 2, 3 in the order *)
(* of the strings; the names of the prefixes do not matter.                *)
(***************************************************************************)
EXTENDS LinkManager

CONSTANTS t1, t2, t3, c1, c2, tap, s1, s2, s3, w1, w2, bad

\* Every identifier has a prefix of its own.
DistinctPrefixes == [u \in Uids |-> IF u = 1 THEN s1 ELSE IF u = 2 THEN s2 ELSE s3]

BothFlags == {<<t1, "read">>, <<t1, "write">>}

NoCandidates == {{}}
SomeCandidates == {{}, {bad}, {w1, bad}, {w2}}
=============================================================================
