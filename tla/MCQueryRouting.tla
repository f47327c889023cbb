--------------------------- MODULE MCQueryRouting ---------------------------
(***************************************************************************)
(* One search at a time over four peers, twice as many as it asks.         *)
(***************************************************************************)
EXTENDS QueryRouting

CONSTANTS a, b, c, d, q

\* a slows down beyond its timeout and gets faster again, b comes and goes, c is slow and
\* d never answers.
MCMoods ==
  [p \in Peers |-> CASE p = a -> {1, 3} [] p = b -> {0, 1} [] p = c -> {2} [] OTHER -> {0}]

MCFinds == {{}, {a, b, c}, {a, b, c, d}}
=============================================================================
