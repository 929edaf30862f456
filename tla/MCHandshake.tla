---------------------------- MODULE MCHandshake -----------------------------
(* Bounds of Handshake that differ between the nodes, for TLC.             *)
EXTENDS Handshake
OneTwo == <<1, 2>>
TwoTwo == <<2, 2>>
=============================================================================
