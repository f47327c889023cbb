------------------------- MODULE MCSchedulerContract -------------------------
(* Two domains, one with two URLs, and one task that adds URLs. *)
EXTENDS SchedulerContract, TLC

CONSTANTS a1, a2, b1, da, db, p

MCUrls == {a1, a2, b1}
MCDomains == {da, db}
MCDomainOf == (a1 :> da) @@ (a2 :> da) @@ (b1 :> db)

=============================================================================
