---------------------------- MODULE MCCreditSync ----------------------------
(***************************************************************************)
(* Two nodes of one owner, the clock of one a little ahead.  Only a earns, *)
(* so that a's summaries differ and b's do not.                            *)
(***************************************************************************)
EXTENDS CreditSync

CONSTANTS a, b, own

MCOwnerOf == [n \in Nodes |-> own]
MCReach == [n \in Nodes |-> Nodes \ {n}]
MCAhead == [n \in Nodes |-> IF n = a THEN 1 ELSE 0]
MCMaxEarned == [n \in Nodes |-> IF n = a THEN 1 ELSE 0]

\* The ids of the managers: those of the hosts, or none at all.
MCHostIds == [n \in Nodes |-> n]
MCNoIds == [n \in Nodes |-> None]
=============================================================================
