----------------------------- MODULE CreditScore -----------------------------
(***************************************************************************)
(* The arithmetic of the credit ledger (src/infomesh/credits/ledger.py):   *)
(* contribution_score with its 60 % cap on LLM credits, the tiers and the  *)
(* search cost of each.  Credits are counted in a unit in which all        *)
(* amounts are integers; a score is counted in halves of it, so that       *)
(* 0.60 / (1 - 0.60) = 3 / 2 needs no fraction.  The rounding of Python    *)
(* floats is left out.                                                     *)
(***************************************************************************)
EXTENDS Integers

CONSTANTS
  Tier2At,   \* score at which tier 2 begins, in halves
  Tier3At,   \* score at which tier 3 begins
  Cost1,     \* search cost of tier 1
  Cost2,
  Cost3

ASSUME ScoreAssumption ==
  /\ {Tier2At, Tier3At, Cost1, Cost2, Cost3} \subseteq Nat
  /\ Tier2At < Tier3At
  /\ Cost1 >= Cost2 /\ Cost2 >= Cost3 /\ Cost3 > 0

\* LLM credits are more than 60 % of the total: llm / (other + llm) > 3 / 5.
CapNotTaken(other, llm) == FALSE          \* fault: LLM credits count in full
AboveCap(other, llm) == 5 * llm > 3 * (other + llm)

\* The part of the score that LLM credits make up, and contribution_score, in
\* halves.
LlmPartDropped(other, llm) ==             \* fault: above the cap none count
  IF AboveCap(other, llm) THEN 0 ELSE 2 * llm
LlmPart(other, llm) == IF AboveCap(other, llm) THEN 3 * other ELSE 2 * llm
Score(other, llm) == 2 * other + LlmPart(other, llm)

\* _score_to_tier and _tier_search_cost.
SearchCost(score) ==
  IF score >= Tier3At THEN Cost3
  ELSE IF score >= Tier2At THEN Cost2
  ELSE Cost1
=============================================================================
