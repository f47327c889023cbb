---------------------------- MODULE CreditLedger ----------------------------
(***************************************************************************)
(* The credit ledger of a node (src/infomesh/credits/ledger.py) as the     *)
(* processes that share its database use it: the serve process records     *)
(* what it contributes (record_action), an MCP server process charges each *)
(* search (deduct_search_cost in mcp/handlers.py: search_allowance, then   *)
(* spend).                                                                 *)
(*                                                                         *)
(* Each SQL statement or transaction is a step: spend is one transaction,  *)
(* but record_action and credit_state read the balance in one and clear    *)
(* the grace period in others.  Within a process the calls do not wait for *)
(* anything, so a process is in one of them at a time.                     *)
(*                                                                         *)
(* grace is time.time() - grace_start, None for NULL; ages saturate past   *)
(* GRACE_PERIOD_HOURS, the only value they are compared with.              *)
(***************************************************************************)
EXTENDS CreditScore

CONSTANTS
  Procs,       \* the processes with a connection to the database
  Amounts,     \* what record_action is asked to credit
  GraceHours,  \* GRACE_PERIOD_HOURS
  MayCrash,    \* whether a process may be killed
  MaxTotal,    \* bound: no more than this is earned or spent
  None

ASSUME LedgerAssumption ==
  /\ Amounts \subseteq Int
  /\ {GraceHours, MaxTotal} \subseteq Nat
  /\ MayCrash \in BOOLEAN
  /\ None \notin Nat

VARIABLES
  other, llm,  \* sums of credit_entries: LLM actions, all others
  spent,       \* sum of credit_spending
  grace,       \* age of credit_grace.grace_start
  task,        \* task[p]: where process p is in its call
  dry,         \* hours since the balance was last positive
  overtaken    \* a step relied on a check of the balance that a step of another
               \* process had overtaken, and the grace period was not put in
               \* order since

vars == <<other, llm, spent, grace, task, dry, overtaken>>

-----------------------------------------------------------------------------
Expired == GraceHours + 1
Hours == 0 .. Expired

TaskPc == {"idle", "check", "look", "wipe", "judge", "price", "spend"}
Why == {"earn", "search", "again"}

\* why: record_action, credit_state from search_allowance, and once more from
\* grace_remaining_hours.
Task == [pc : TaskPc, why : Why, factor : 1 .. 2, cost : Nat]
Idle == [pc |-> "idle", why |-> "earn", factor |-> 1, cost |-> 0]

Begun(why) == [pc |-> "check", why |-> why, factor |-> 1, cost |-> 0]

Balance == other + llm - spent

Init ==
  /\ other = 0 /\ llm = 0 /\ spent = 0
  /\ grace = None
  /\ task = [p \in Procs |-> Idle]
  /\ dry = 0
  /\ overtaken = FALSE

Goto(p, pc) == task' = [task EXCEPT ![p].pc = pc]

\* The history variable: dry restarts whenever the balance is positive.
Watch(h) == dry' = IF other' + llm' - spent' > 0 THEN 0 ELSE h

AcceptedAny(n) == TRUE            \* fault: no check of the quantity
Accepted(n) == n > 0

\* record_action: refused with ValueError, or the entry is committed.
Earn(p) ==
  /\ task[p].pc = "idle"
  /\ \E n \in Amounts :
       /\ Accepted(n)
       /\ \/ other' = other + n /\ UNCHANGED llm
          \/ llm' = llm + n /\ UNCHANGED other
  /\ other' + llm' <= MaxTotal
  /\ task' = [task EXCEPT ![p] = Begun("earn")]
  /\ UNCHANGED <<spent, grace, overtaken>>
  /\ Watch(dry)

\* deduct_search_cost begins.
Search(p) ==
  /\ task[p].pc = "idle"
  /\ task' = [task EXCEPT ![p] = Begun("search")]
  /\ UNCHANGED <<other, llm, spent, grace, dry, overtaken>>

\* Where a call goes once the grace period is dealt with.
After(why) ==
  CASE why = "earn" -> "idle"
    [] why = "search" -> "price"
    [] why = "again" -> "spend"

\* The SELECT of balance() > 0.
Check(p) ==
  /\ task[p].pc = "check"
  /\ Goto(p, IF Balance > 0 THEN "look"
             ELSE IF task[p].why = "search" THEN "judge"
             ELSE After(task[p].why))
  /\ UNCHANGED <<other, llm, spent, grace, dry, overtaken>>

\* The SELECT and the UPDATE of _clear_grace.
Look(p) ==
  /\ task[p].pc = "look"
  /\ Goto(p, IF grace = None THEN After(task[p].why) ELSE "wipe")
  /\ UNCHANGED <<other, llm, spent, grace, dry, overtaken>>

Wiped(g) == None

\* Right when the balance is still positive, and overtaken otherwise.
Wipe(p) ==
  /\ task[p].pc = "wipe"
  /\ grace' = Wiped(grace)
  /\ overtaken' = (Balance <= 0)
  /\ Goto(p, After(task[p].why))
  /\ UNCHANGED <<other, llm, spent, dry>>

\* credit_state of a balance that is not positive: DEBT once the grace period
\* is over, GRACE before, NORMAL when it never began.
InDebtEarly(g) == g # None /\ g >= GraceHours      \* fault: off by one
InDebt(g) == g # None /\ g > GraceHours

Judge(p) ==
  /\ task[p].pc = "judge"
  /\ task' = [task EXCEPT ![p].pc = "price", ![p].factor = IF InDebt(grace) THEN 2 ELSE 1]
  /\ overtaken' = (overtaken \/ Balance > 0)
  /\ UNCHANGED <<other, llm, spent, grace, dry>>

\* search_cost(), doubled in debt; then grace_remaining_hours asks for the
\* state again.
Price(p) ==
  /\ task[p].pc = "price"
  /\ task' = [task EXCEPT ![p] = [pc |-> "check", why |-> "again", factor |-> @.factor,
                                  cost |-> @.factor * SearchCost(Score(other, llm))]]
  /\ UNCHANGED <<other, llm, spent, grace, dry, overtaken>>

\* The grace period after a deduction leaves the balance b.
GraceStays(b, g) == g                                   \* fault: never starts
GraceAfter(b, g) == IF b <= 0 /\ g = None THEN 0 ELSE g

\* spend: one transaction.
Spend(p) ==
  /\ task[p].pc = "spend"
  /\ spent + task[p].cost <= MaxTotal
  /\ spent' = spent + task[p].cost
  /\ grace' = GraceAfter(other + llm - spent', grace)
  /\ task' = [task EXCEPT ![p] = Idle]
  /\ overtaken' = (overtaken \/ (Balance > 0 /\ grace # None))
  /\ UNCHANGED <<other, llm>>
  /\ Watch(dry)

\* One hour.
Elapse ==
  /\ \A p \in Procs : task[p].pc = "idle"
  /\ grace' = IF grace \in 0 .. GraceHours THEN grace + 1 ELSE grace
  /\ UNCHANGED <<other, llm, spent, task, overtaken>>
  /\ Watch(IF dry < Expired THEN dry + 1 ELSE dry)

\* A process is killed inside a call; its next one starts afresh.
Crash(p) ==
  /\ MayCrash
  /\ task' = [task EXCEPT ![p] = Idle]
  /\ UNCHANGED <<other, llm, spent, grace, dry, overtaken>>

Next ==
  \/ \E p \in Procs :
       \/ Earn(p) \/ Search(p) \/ Check(p) \/ Look(p) \/ Wipe(p)
       \/ Judge(p) \/ Price(p) \/ Spend(p) \/ Crash(p)
  \/ Elapse

Spec == Init /\ [][Next]_vars

-----------------------------------------------------------------------------
TypeOK ==
  /\ {other, llm, spent} \subseteq Nat
  /\ grace \in Hours \cup {None}
  /\ task \in [Procs -> Task]
  /\ dry \in Hours
  /\ overtaken \in BOOLEAN

\* Whoever owes credits has a grace period that began, however many processes
\* charge the node and whichever are killed: a balance below zero never counts
\* as NORMAL.  The one exception is a process that clears the grace period on a
\* check of the balance that another one's search has overtaken.
OverdrawnHasGrace == Balance < 0 => grace # None \/ overtaken

\* LLM credits never make up more than 60 % of the contribution score.
LlmShareCapped == 5 * LlmPart(other, llm) <= 3 * Score(other, llm)

\* No contribution makes searching dearer, not even an LLM contribution that
\* brings the share of LLM credits over the cap.
NeverDearer ==
  [][SearchCost(Score(other', llm')) <= SearchCost(Score(other, llm))]_vars

\* The doubled price is asked only after the balance has not been positive for
\* more than GRACE_PERIOD_HOURS, with the same exception: a search that is
\* charged between another process's contribution and its clearing of the grace
\* period, or after its clearing was killed, goes on with the old period.
NoPenaltyInGrace ==
  [][\A p \in Procs :
       (task'[p].factor = 2 /\ task[p].factor = 1) => dry > GraceHours \/ overtaken']_vars
=============================================================================
