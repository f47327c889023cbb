--------------------------- MODULE MCKeywordIndex ---------------------------
(* Two batches at once of node a, which has two documents about k1, the   *)
(* first one about k2 as well, and one batch of node b with one document. *)
EXTENDS KeywordIndex, TLC

CONSTANTS a, b, a1, a2, b1, k1, k2

MCNode == a1 :> a @@ a2 :> a @@ b1 :> b
MCWords == a :> <<{k1, k2}, {k1}>> @@ b :> <<{k1}>>
MCSymmetry == Permutations({a1, a2})
=============================================================================
