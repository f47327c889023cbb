------------------------ MODULE CreditLedger_proofs ------------------------
(***************************************************************************)
(* What holds of the credit ledger for every amount, threshold, cost and   *)
(* length of the grace period.                                             *)
(***************************************************************************)
EXTENDS CreditLedger, TLAPS

-----------------------------------------------------------------------------
(* The score. *)

\* The score and its LLM part are natural numbers.
LEMMA ScoreType ==
  ASSUME NEW o \in Nat, NEW l \in Nat
  PROVE  /\ LlmPart(o, l) \in Nat
         /\ Score(o, l) \in Nat
BY DEF Score, LlmPart, AboveCap

\* So is the cost of a search.
LEMMA CostType ==
  ASSUME NEW s \in Nat
  PROVE  SearchCost(s) \in Nat
BY ScoreAssumption DEF SearchCost

\* Whatever was contributed, LLM credits make up at most 60 % of the score
\* (contribution_score).
THEOREM LlmShare ==
  ASSUME NEW o \in Nat, NEW l \in Nat
  PROVE  5 * LlmPart(o, l) <= 3 * Score(o, l)
BY DEF Score, LlmPart, AboveCap

\* contribution_score never falls when a contribution of either kind is added.
LEMMA ScoreMonotone ==
  ASSUME NEW o \in Nat, NEW l \in Nat, NEW o2 \in Nat, NEW l2 \in Nat,
         o <= o2, l <= l2
  PROVE  Score(o, l) <= Score(o2, l2)
<1>1. Score(o, l) <= Score(o2, l)
  BY DEF Score, LlmPart, AboveCap
<1>2. Score(o2, l) <= Score(o2, l2)
  BY DEF Score, LlmPart, AboveCap
<1> QED BY <1>1, <1>2, ScoreType

\* A higher score never makes a search dearer (_score_to_tier).
LEMMA CostAntitone ==
  ASSUME NEW s \in Nat, NEW s2 \in Nat, s <= s2
  PROVE  SearchCost(s2) <= SearchCost(s)
BY ScoreAssumption DEF SearchCost

-----------------------------------------------------------------------------
(* Type correctness. *)

\* The totals are natural numbers, the age of the grace period is one the
\* ledger can tell apart, and every process is somewhere in one of its calls.
THEOREM TypeCorrect == Spec => []TypeOK
<1>1. Init => TypeOK
  <2>1. Init => /\ {other, llm, spent} \subseteq Nat
                /\ grace \in Hours \cup {None}
                /\ task \in [Procs -> Task]
                /\ dry \in Hours
    BY LedgerAssumption DEF Init, Idle, Task, TaskPc, Why, Hours, Expired
  <2>2. Init => overtaken \in BOOLEAN
    BY DEF Init
  <2> QED BY <2>1, <2>2 DEF TypeOK
<1>2. TypeOK /\ [Next]_vars => TypeOK'
  <2> SUFFICES ASSUME TypeOK, [Next]_vars PROVE TypeOK'
    OBVIOUS
  <2> USE LedgerAssumption DEF TypeOK, Task, TaskPc, Why, Idle
  <2>0. other \in Nat /\ llm \in Nat /\ spent \in Nat
    OBVIOUS
  <2>1. ASSUME NEW p \in Procs, Earn(p) PROVE TypeOK'
    <3>1. other' \in Nat /\ llm' \in Nat
      BY <2>1, <2>0 DEF Earn, Accepted
    <3>2. dry' \in Hours
      BY <2>1, <2>0 DEF Earn, Watch, Hours, Expired
    <3> QED BY <2>1, <3>1, <3>2 DEF Earn, Begun
  <2>2. ASSUME NEW p \in Procs, Search(p) PROVE TypeOK'
    BY <2>2 DEF Search, Begun
  <2>3. ASSUME NEW p \in Procs, Check(p) PROVE TypeOK'
    BY <2>3 DEF Check, Goto, After
  <2>4. ASSUME NEW p \in Procs, Look(p) PROVE TypeOK'
    BY <2>4 DEF Look, Goto, After
  <2>5. ASSUME NEW p \in Procs, Wipe(p) PROVE TypeOK'
    BY <2>5 DEF Wipe, Wiped, Goto, After
  <2>6. ASSUME NEW p \in Procs, Judge(p) PROVE TypeOK'
    <3> DEFINE f == IF InDebt(grace) THEN 2 ELSE 1
    <3>1. f \in 1 .. 2
      OBVIOUS
    <3>2. [task[p] EXCEPT !.pc = "price", !.factor = f] \in Task
      BY <3>1
    <3>3. task' = [task EXCEPT ![p] = [task[p] EXCEPT !.pc = "price", !.factor = f]]
      BY <2>6 DEF Judge
    <3> HIDE DEF Task, f
    <3> QED BY <2>6, <3>2, <3>3 DEF Judge
  <2>7. ASSUME NEW p \in Procs, Price(p) PROVE TypeOK'
    <3>1. SearchCost(Score(other, llm)) \in Nat
      BY <2>0, ScoreType, CostType
    <3>2. task[p].factor * SearchCost(Score(other, llm)) \in Nat
      BY <3>1
    <3> QED BY <2>7, <3>2 DEF Price
  <2>8. ASSUME NEW p \in Procs, Spend(p) PROVE TypeOK'
    <3>1. spent' \in Nat
      BY <2>8, <2>0 DEF Spend
    <3>2. grace' \in Hours \cup {None}
      BY <2>8 DEF Spend, GraceAfter, Hours, Expired
    <3>3. dry' \in Hours
      BY <2>8, <2>0 DEF Spend, Watch, Hours, Expired
    <3> QED BY <2>8, <3>1, <3>2, <3>3 DEF Spend
  <2>9. ASSUME NEW p \in Procs, Crash(p) PROVE TypeOK'
    BY <2>9 DEF Crash
  <2>10. ASSUME Elapse PROVE TypeOK'
    BY <2>10 DEF Elapse, Watch, Hours, Expired
  <2>11. ASSUME UNCHANGED vars PROVE TypeOK'
    BY <2>11 DEF vars
  <2> QED
    BY <2>1, <2>2, <2>3, <2>4, <2>5, <2>6, <2>7, <2>8, <2>9, <2>10, <2>11 DEF Next
<1> QED BY <1>1, <1>2, PTL DEF Spec

-----------------------------------------------------------------------------
(* What no interleaving of any number of processes can break. *)

\* In every reachable state the LLM share of the score is capped.
THEOREM ShareCapped == Spec => []LlmShareCapped
<1>1. TypeOK => LlmShareCapped
  BY LlmShare DEF TypeOK, LlmShareCapped
<1> QED BY <1>1, TypeCorrect, PTL

\* No step of any process makes searching dearer for the tier it is in.
THEOREM ContributionPays == Spec => NeverDearer
<1>1. TypeOK /\ TypeOK' /\ [Next]_vars
        => [SearchCost(Score(other', llm')) <= SearchCost(Score(other, llm))]_vars
  <2> SUFFICES ASSUME TypeOK, TypeOK', [Next]_vars
               PROVE  SearchCost(Score(other', llm')) <= SearchCost(Score(other, llm))
    OBVIOUS
  <2>0. /\ other \in Nat /\ llm \in Nat
        /\ other' \in Nat /\ llm' \in Nat
    BY DEF TypeOK
  <2>1. other <= other' /\ llm <= llm'
    <3>1. ASSUME NEW p \in Procs, Earn(p) PROVE other <= other' /\ llm <= llm'
      BY <3>1, <2>0, LedgerAssumption DEF Earn, Accepted
    <3>2. ASSUME UNCHANGED <<other, llm>> PROVE other <= other' /\ llm <= llm'
      BY <3>2, <2>0
    <3> QED
      BY <3>1, <3>2 DEF Next, vars, Search, Check, Look, Wipe, Judge, Price, Spend,
                        Crash, Elapse
  <2>2. Score(other, llm) <= Score(other', llm')
    BY <2>0, <2>1, ScoreMonotone
  <2> QED BY <2>0, <2>2, ScoreType, CostAntitone
<1> QED BY <1>1, TypeCorrect, PTL DEF Spec, NeverDearer

\* The grace period, for any number of processes: whoever owes has one, and it is
\* no older than the time for which the balance has not been positive, unless a
\* step relied on a check that was overtaken.  A deduction from a positive
\* balance begins the period anew or finds an old one, and is then such a step.
AgeInv ==
  /\ OverdrawnHasGrace
  /\ Balance <= 0 => grace = None \/ grace <= dry \/ overtaken

LEMMA Numbers ==
  ASSUME TypeOK, TypeOK'
  PROVE  /\ other \in Nat /\ llm \in Nat /\ spent \in Nat
         /\ other' \in Nat /\ llm' \in Nat /\ spent' \in Nat
         /\ Balance \in Int /\ Balance' \in Int
         /\ dry \in Nat /\ dry' \in Nat
         /\ grace \in Nat \cup {None} /\ grace' \in Nat \cup {None}
         /\ None \notin Nat
         /\ task \in [Procs -> Task]
         /\ overtaken \in BOOLEAN
BY LedgerAssumption DEF TypeOK, Hours, Expired, Balance

\* A contribution raises the balance, and the time it has not been positive
\* starts over if it is now.
LEMMA EarnRaises ==
  ASSUME TypeOK, TypeOK', NEW p \in Procs, Earn(p)
  PROVE  /\ Balance < Balance' /\ UNCHANGED <<grace, overtaken>>
         /\ dry' = IF Balance' > 0 THEN 0 ELSE dry
         /\ task' = [task EXCEPT ![p] = Begun("earn")]
<1>1. PICK n \in Amounts : /\ Accepted(n)
                          /\ \/ other' = other + n /\ UNCHANGED llm
                             \/ llm' = llm + n /\ UNCHANGED other
  BY DEF Earn
<1>2. n \in Int /\ n > 0
  BY <1>1, LedgerAssumption DEF Accepted
<1>3. UNCHANGED <<spent, grace, overtaken>> /\ task' = [task EXCEPT ![p] = Begun("earn")]
  BY DEF Earn
<1>4. Balance < Balance'
  <2>1. /\ other \in Int /\ llm \in Int /\ spent \in Int
        /\ other' \in Int /\ llm' \in Int /\ spent' = spent
    BY <1>3, Numbers
  <2>2. CASE other' = other + n /\ llm' = llm
    BY <1>2, <2>1, <2>2 DEF Balance
  <2>3. CASE llm' = llm + n /\ other' = other
    BY <1>2, <2>1, <2>3 DEF Balance
  <2> QED BY <1>1, <2>2, <2>3
<1>5. dry' = IF Balance' > 0 THEN 0 ELSE dry
  BY DEF Earn, Watch, Balance
<1> QED BY <1>3, <1>4, <1>5

\* A deduction lowers it, and begins a grace period when none runs and it is used
\* up.
LEMMA SpendLowers ==
  ASSUME TypeOK, TypeOK', NEW p \in Procs, Spend(p)
  PROVE  /\ Balance' <= Balance
         /\ grace' = IF Balance' <= 0 /\ grace = None THEN 0 ELSE grace
         /\ dry' = IF Balance' > 0 THEN 0 ELSE dry
         /\ overtaken' = (overtaken \/ (Balance > 0 /\ grace # None))
         /\ task' = [task EXCEPT ![p] = Idle]
<1>1. task[p].cost \in Nat
  BY Numbers DEF Task
<1>2. UNCHANGED <<other, llm>> /\ spent' = spent + task[p].cost
  BY DEF Spend
<1>3. Balance' <= Balance
  BY <1>1, <1>2, Numbers DEF Balance
<1> QED BY <1>3 DEF Spend, GraceAfter, Watch, Balance

LEMMA AgeStep ==
  ASSUME TypeOK, TypeOK', AgeInv, [Next]_vars
  PROVE  AgeInv'
<1> USE DEF AgeInv, OverdrawnHasGrace
<1>0. /\ Balance \in Int /\ Balance' \in Int /\ dry \in Nat /\ dry' \in Nat
      /\ grace \in Nat \cup {None} /\ grace' \in Nat \cup {None} /\ None \notin Nat
      /\ overtaken \in BOOLEAN
  BY Numbers
<1>1. ASSUME NEW p \in Procs, Earn(p) PROVE AgeInv'
  <2>1. /\ Balance < Balance' /\ UNCHANGED <<grace, overtaken>>
        /\ dry' = IF Balance' > 0 THEN 0 ELSE dry
    BY <1>1, EarnRaises
  <2> QED BY <1>0, <2>1
<1>2. ASSUME NEW p \in Procs, Spend(p) PROVE AgeInv'
  <2>1. /\ Balance' <= Balance
        /\ grace' = IF Balance' <= 0 /\ grace = None THEN 0 ELSE grace
        /\ dry' = IF Balance' > 0 THEN 0 ELSE dry
        /\ overtaken' = (overtaken \/ (Balance > 0 /\ grace # None))
    BY <1>2, SpendLowers
  <2>2. CASE Balance' > 0
    BY <1>0, <2>2
  <2>3. CASE Balance' <= 0 /\ grace = None
    <3>1. grace' = 0
      BY <2>1, <2>3
    <3> QED BY <1>0, <2>3, <3>1
  <2>4. CASE Balance' <= 0 /\ grace # None
    <3>1. grace' = grace /\ dry' = dry
      BY <1>0, <2>1, <2>4
    <3>2. CASE Balance > 0
      BY <1>0, <2>1, <2>4, <3>2
    <3>3. CASE Balance <= 0
      BY <1>0, <2>1, <2>4, <3>1, <3>3
    <3> QED BY <1>0, <3>2, <3>3
  <2> QED BY <1>0, <2>2, <2>3, <2>4
<1>3. ASSUME NEW p \in Procs, Wipe(p) PROVE AgeInv'
  <2>1. Balance' = Balance /\ grace' = None
    BY <1>3 DEF Wipe, Wiped, Balance
  <2>2. Balance <= 0 => overtaken'
    BY <1>3 DEF Wipe
  <2> QED BY <1>0, <2>1, <2>2
<1>4. ASSUME NEW p \in Procs, Judge(p) PROVE AgeInv'
  <2>1. Balance' = Balance /\ UNCHANGED <<grace, dry>> /\ (overtaken => overtaken')
    BY <1>4 DEF Judge, Balance
  <2> QED BY <1>0, <2>1
<1>5. CASE Elapse
  <2>1. /\ Balance' = Balance /\ UNCHANGED overtaken
        /\ grace' = IF grace \in 0 .. GraceHours THEN grace + 1 ELSE grace
        /\ dry' = IF Balance' > 0 THEN 0 ELSE IF dry < Expired THEN dry + 1 ELSE dry
    BY <1>5 DEF Elapse, Watch, Balance
  <2>2. /\ GraceHours \in Nat /\ Expired = GraceHours + 1 /\ dry <= Expired
        /\ grace # None => grace <= Expired
    BY LedgerAssumption DEF Expired, TypeOK, Hours
  <2>3. grace # None <=> grace' # None
    BY <1>0, <2>1, LedgerAssumption
  <2>4. ASSUME Balance' <= 0, grace # None, ~overtaken PROVE grace' <= dry'
    <3>1. grace \in Nat /\ grace <= dry
      BY <1>0, <2>1, <2>4
    <3>2. dry' = IF dry < Expired THEN dry + 1 ELSE dry
      BY <1>0, <2>1, <2>4
    <3> QED BY <1>0, <2>1, <2>2, <3>1, <3>2
  <2> HIDE DEF Expired
  <2> QED BY <1>0, <2>1, <2>3, <2>4
<1>6. ASSUME UNCHANGED <<other, llm, spent, grace, dry, overtaken>> PROVE AgeInv'
  BY <1>6 DEF Balance
<1> QED
  BY <1>1, <1>2, <1>3, <1>4, <1>5, <1>6
  DEF Next, vars, Search, Check, Look, Price, Crash

LEMMA AgeCorrect == Spec => [](TypeOK /\ AgeInv)
<1>1. Init => AgeInv
  BY DEF Init, AgeInv, OverdrawnHasGrace, Balance
<1>2. TypeOK /\ TypeOK' /\ AgeInv /\ [Next]_vars => AgeInv'
  BY AgeStep
<1> QED BY <1>1, <1>2, TypeCorrect, PTL DEF Spec

\* However many processes share the ledger and whichever of them are killed, a
\* balance below zero has a grace period that began, unless one was cleared on a
\* check that a search of another process had overtaken (spend, _clear_grace).
THEOREM Overdrawn == Spec => []OverdrawnHasGrace
<1>1. AgeInv => OverdrawnHasGrace
  BY DEF AgeInv
<1> QED BY <1>1, AgeCorrect, PTL

\* Then too the doubled price is asked only after the balance has not been
\* positive for longer than the grace period, unless a step relied on a check
\* that was overtaken (credit_state, search_allowance).
THEOREM NoEarlyPenalty == Spec => NoPenaltyInGrace
<1>1. TypeOK /\ AgeInv /\ [Next]_vars
        => [\A p \in Procs : (task'[p].factor = 2 /\ task[p].factor = 1)
                               => dry > GraceHours \/ overtaken']_vars
  <2> SUFFICES ASSUME TypeOK, AgeInv, [Next]_vars, NEW p \in Procs,
                      task'[p].factor = 2, task[p].factor = 1, ~overtaken'
               PROVE  dry > GraceHours
    OBVIOUS
  <2>0. /\ task \in [Procs -> Task] /\ dry \in Nat /\ Balance \in Int
        /\ grace \in Nat \cup {None} /\ GraceHours \in Nat
    BY LedgerAssumption DEF TypeOK, Balance, Hours, Expired
  <2>1. Judge(p)
    <3>1. ASSUME NEW q \in Procs, Judge(q) PROVE p = q
      BY <2>0, <3>1 DEF Judge
    <3>2. ASSUME NEW q \in Procs, Price(q) PROVE FALSE
      BY <2>0, <3>2 DEF Price, Task
    <3>3. ASSUME NEW q \in Procs, \/ Check(q) \/ Look(q) \/ Wipe(q) PROVE FALSE
      BY <2>0, <3>3 DEF Check, Look, Wipe, Goto, Task
    <3>4. ASSUME NEW q \in Procs, \/ Earn(q) \/ Search(q) \/ Spend(q) \/ Crash(q) PROVE FALSE
      BY <2>0, <3>4 DEF Earn, Search, Spend, Crash, Begun, Idle
    <3>5. ASSUME Elapse \/ UNCHANGED vars PROVE FALSE
      BY <3>5 DEF Elapse, vars
    <3> QED BY <3>1, <3>2, <3>3, <3>4, <3>5 DEF Next
  <2>2. ~overtaken /\ ~(Balance > 0)
    BY <2>1, Zenon DEF Judge
  <2>4. InDebt(grace)
    BY <2>0, <2>1 DEF Judge
  <2>3. grace <= dry
    BY <2>0, <2>2, <2>4 DEF AgeInv, InDebt
  <2> QED BY <2>0, <2>3, <2>4 DEF InDebt
<1> QED BY <1>1, AgeCorrect, PTL DEF Spec, NoPenaltyInGrace

-----------------------------------------------------------------------------
(* One process alone, even if it is killed and started again at any point, *)
(* is never overtaken: the balance is positive from the check to the reset *)
(* of the grace period, and a deduction from a positive balance finds the  *)
(* grace period cleared, because the search that makes it has asked for    *)
(* the state before.                                                       *)

\* The grace period was dealt with earlier in the call.
Cleared(t) == t.pc \in {"price", "spend"} \/ (t.pc = "check" /\ t.why = "again")

SoloInv(p) ==
  /\ ~overtaken
  /\ task[p].pc \in {"look", "wipe"} => Balance > 0
  /\ task[p].pc = "judge" => Balance <= 0 /\ task[p].why = "search"
  /\ Balance > 0 /\ Cleared(task[p]) => grace = None

\* The invariant holds before the first call.
LEMMA SoloInit ==
  ASSUME NEW p \in Procs
  PROVE  Init => SoloInv(p)
BY DEF Init, SoloInv, Balance, Idle, Cleared

\* No step of the only process, and no hour, breaks it.
LEMMA SoloStep ==
  ASSUME NEW p \in Procs, Procs = {p},
         TypeOK, TypeOK', SoloInv(p), [Next]_vars
  PROVE  SoloInv(p)'
<1> USE DEF SoloInv, Cleared
<1>0. /\ Balance \in Int /\ Balance' \in Int
      /\ grace \in Nat \cup {None} /\ grace' \in Nat \cup {None}
      /\ None \notin Nat
      /\ task \in [Procs -> Task]
  BY Numbers
<1>1. ASSUME Earn(p) PROVE SoloInv(p)'
  <2>1. UNCHANGED <<grace, overtaken>> /\ task'[p] = Begun("earn")
    BY <1>0, <1>1, EarnRaises
  <2>2. ~Cleared(task'[p]) /\ task'[p].pc = "check"
    BY <2>1 DEF Begun
  <2> QED BY <2>1, <2>2
<1>2. ASSUME UNCHANGED <<other, llm, spent>> PROVE Balance' = Balance
  BY <1>2 DEF Balance
<1>3. ASSUME Search(p) PROVE SoloInv(p)'
  BY <1>0, <1>2, <1>3 DEF Search, Begun
<1>4. ASSUME Check(p) PROVE SoloInv(p)'
  BY <1>0, <1>2, <1>4 DEF Check, Goto, After, Task, Why, TaskPc
<1>5. ASSUME Look(p) PROVE SoloInv(p)'
  BY <1>0, <1>2, <1>5 DEF Look, Goto, After, Task, Why, TaskPc
<1>6. ASSUME Wipe(p) PROVE SoloInv(p)'
  <2>1. Balance > 0 /\ ~(Balance <= 0)
    BY <1>0, <1>6 DEF Wipe
  <2>2. ~overtaken'
    BY <1>6, <2>1, Zenon DEF Wipe
  <2>3. UNCHANGED <<other, llm, spent>> /\ grace' = None /\ Goto(p, After(task[p].why))
    BY <1>6 DEF Wipe, Wiped
  <2> QED BY <1>0, <1>2, <2>1, <2>2, <2>3 DEF Goto, After, Task, Why, TaskPc
<1>7. ASSUME Judge(p) PROVE SoloInv(p)'
  <2>1. ~(Balance > 0)
    BY <1>0, <1>7 DEF Judge
  <2>2. ~overtaken'
    BY <1>7, <2>1, Zenon DEF Judge
  <2>3. UNCHANGED <<other, llm, spent, grace>> /\ task'[p].pc = "price"
    BY <1>0, <1>7 DEF Judge, Task
  <2> QED BY <1>0, <1>2, <2>1, <2>2, <2>3
<1>8. ASSUME Price(p) PROVE SoloInv(p)'
  BY <1>0, <1>2, <1>8 DEF Price
<1>9. ASSUME Spend(p) PROVE SoloInv(p)'
  <2>1. /\ overtaken' = (overtaken \/ (Balance > 0 /\ grace # None))
        /\ task'[p] = Idle
    BY <1>0, <1>9, SpendLowers
  <2>2. task[p].pc = "spend"
    BY <1>9 DEF Spend
  <2>3. Idle.pc = "idle"
    BY DEF Idle
  <2> QED BY <2>1, <2>2, <2>3
<1>10. ASSUME Crash(p) PROVE SoloInv(p)'
  BY <1>0, <1>2, <1>10 DEF Crash, Idle
<1>11. ASSUME Elapse PROVE SoloInv(p)'
  BY <1>0, <1>2, <1>11, LedgerAssumption DEF Elapse
<1>12. ASSUME UNCHANGED vars PROVE SoloInv(p)'
  BY <1>2, <1>12 DEF vars
<1> QED
  BY <1>1, <1>3, <1>4, <1>5, <1>6, <1>7, <1>8, <1>9, <1>10, <1>11, <1>12 DEF Next

\* With one process, a balance below zero always has a grace period that began,
\* and none is older than the time for which the balance has not been positive,
\* however often the process is killed (spend, record_action, credit_state): no
\* step is overtaken, and the exception of OverdrawnHasGrace and
\* NoPenaltyInGrace never applies.
THEOREM SoloInOrder ==
  ASSUME NEW p \in Procs, Procs = {p}
  PROVE  Spec => []( /\ ~overtaken
                     /\ Balance < 0 => grace # None
                     /\ Balance <= 0 => grace = None \/ grace <= dry )
<1>1. Init => SoloInv(p)
  BY SoloInit
<1>2. TypeOK /\ TypeOK' /\ SoloInv(p) /\ [Next]_vars => SoloInv(p)'
  BY SoloStep
<1>3. SoloInv(p) /\ AgeInv
        => ( /\ ~overtaken
             /\ Balance < 0 => grace # None
             /\ Balance <= 0 => grace = None \/ grace <= dry )
  BY DEF SoloInv, AgeInv, OverdrawnHasGrace
<1> QED BY <1>1, <1>2, <1>3, TypeCorrect, AgeCorrect, PTL DEF Spec
=============================================================================
