--------------------------- MODULE MCCreditLedger ---------------------------
(* Two processes; no more than eight units are earned or spent. *)
EXTENDS CreditLedger, TLC

CONSTANTS p, q

MCAmounts == {-1, 0, 1, 3}
=============================================================================
