--------------------------- MODULE MCPeerNetwork ---------------------------
(***************************************************************************)
(* Two nodes of a LAN and the bootstrap node they share.                   *)
(***************************************************************************)
EXTENDS PeerNetwork

CONSTANTS a, b, s

MCBoot == [n \in Nodes |-> IF n = a THEN {s} ELSE {}]
=============================================================================
