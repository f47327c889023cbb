------------------------ MODULE KeywordIndex_proofs ------------------------
(* What MCKeywordIndex checks on a small instance, for every value of the  *)
(* constants.                                                              *)
EXTENDS KeywordIndex, FiniteSetTheorems, TLAPS

(* The assumption on the constants, as the proofs use it.                  *)
LEMMA Constants ==
  /\ Node \in [Slots -> Nodes]
  /\ \A n \in Nodes : /\ Docs(n) \subseteq Nat
                      /\ Words[n] \in [Docs(n) -> SUBSET Keywords]
  /\ NoKeyword \notin Keywords
  /\ MaxPointers \in Nat /\ MaxPublishes \in Nat \ {0}
<1>1. \A n \in Nodes : Docs(n) \subseteq Nat
  BY KeywordIndexAssumption, FS_CardinalityType DEF KeywordIndexAssumption
<1>2. QED
  BY <1>1, KeywordIndexAssumption DEF KeywordIndexAssumption

USE Constants

(* What the loop of publish_batch leaves of the slot s: nothing, or a      *)
(* keyword of the batch that is within the rate.                           *)
Went(s, batch, todo, count, u) ==
  \/ u = Idle
  \/ /\ u \in Task
     /\ u.pc = "get" /\ u.batch = batch /\ u.kw \in todo
     /\ MayPublish(count, u.kw)

(* NextKeyword changes one slot, to one of these (distributed.py:331).     *)
LEMMA NextKeywordWent ==
  ASSUME NEW s \in Slots, NEW batch \in SUBSET Docs(Node[s]),
         NEW todo \in SUBSET Keywords, NEW count,
         NextKeyword(s, batch, todo, count)
  PROVE  \E u \in Task : /\ task' = [task EXCEPT ![s] = u]
                         /\ Went(s, batch, todo, count, u)
<1>0. batch \in SUBSET Nat
  OBVIOUS
<1>1. Idle \in Task
  BY DEF Idle, Task, TaskPc
<1>2. CASE task' = [task EXCEPT ![s] = Idle]
  BY <1>1, <1>2 DEF Went
<1>3. CASE ~ (task' = [task EXCEPT ![s] = Idle])
  <2>1. PICK k \in todo, over \in SUBSET todo :
          /\ MayPublish(count, k)
          /\ task' = [task EXCEPT ![s] =
               [Idle EXCEPT !.pc = "get", !.batch = batch, !.kw = k,
                            !.todo = todo \ (over \cup {k})]]
    BY <1>3 DEF NextKeyword
  <2>2. DEFINE u == [Idle EXCEPT !.pc = "get", !.batch = batch, !.kw = k,
                                 !.todo = todo \ (over \cup {k})]
  <2>3. u \in Task /\ u.pc = "get" /\ u.batch = batch /\ u.kw = k
    BY <1>0 DEF Idle, Task, TaskPc
  <2>4. QED
    BY <2>1, <2>3 DEF Went
<1>4. QED
  BY <1>2, <1>3

(* The pointers a node publishes are its own.                              *)
LEMMA PointersOfType ==
  ASSUME NEW n \in Nodes, NEW batch \in SUBSET Docs(n), NEW k \in Keywords
  PROVE  PointersOf(n, batch, k) \in SUBSET Pointers
BY DEF PointersOf, Pointers

(* A batch is of documents of the node, whose keywords are keywords.       *)
LEMMA BatchType ==
  ASSUME NEW n \in Nodes, NEW batch \in Batches(n)
  PROVE  batch \in SUBSET Docs(n) /\ KeywordsOf(n, batch) \in SUBSET Keywords
BY DEF Batches, KeywordsOf

-----------------------------------------------------------------------------
(* Type correctness, for any number of nodes, batches and keywords.        *)
THEOREM TypeCorrect == Spec => []TypeOK
<1>1. Init => TypeOK
  BY DEF Init, TypeOK, Task, TaskPc, Idle
<1>2. TypeOK /\ [Next]_vars => TypeOK'
  <2> SUFFICES ASSUME TypeOK, [Next]_vars PROVE TypeOK'
    OBVIOUS
  <2> USE DEF TypeOK
  <2>0. ASSUME NEW s \in Slots, NEW batch \in SUBSET Docs(Node[s]),
               NEW todo \in SUBSET Keywords, NEW count,
               NextKeyword(s, batch, todo, count)
        PROVE  /\ task' \in [Slots -> Task]
               /\ \A r \in Slots :
                    /\ task'[r].pc = "idle" <=> task'[r].kw = NoKeyword
                    /\ task'[r].batch \subseteq Docs(Node[r])
    <3>1. PICK u \in Task : /\ task' = [task EXCEPT ![s] = u]
                            /\ Went(s, batch, todo, count, u)
      BY <2>0, NextKeywordWent
    <3>2. /\ u.pc = "idle" <=> u.kw = NoKeyword
          /\ u.batch \subseteq Docs(Node[s])
      BY <3>1 DEF Went, Idle
    <3>3. QED
      BY <3>1, <3>2
  <2>1. ASSUME NEW s \in Slots, NEW batch \in Batches(Node[s]), Start(s, batch)
        PROVE  TypeOK'
    <3>1. /\ batch \in SUBSET Docs(Node[s])
          /\ KeywordsOf(Node[s], batch) \in SUBSET Keywords
      BY <2>1, BatchType
    <3>2. /\ NextKeyword(s, batch, KeywordsOf(Node[s], batch), fresh[Node[s]])
          /\ UNCHANGED <<dht, fresh, acked>>
      BY <2>1 DEF Start
    <3>3. QED
      BY <2>0, <3>1, <3>2
  <2>2. ASSUME NEW s \in Slots, NEW found \in BOOLEAN, Read(s, found)
        PROVE  TypeOK'
    <3> DEFINE t == task[s]
               existing == IF found THEN dht[t.kw] ELSE {}
               new == PointersOf(Node[s], t.batch, t.kw)
               overflows == Cardinality(existing \cup new) > MaxPointers
    <3>1. t \in Task /\ t.pc = "get" /\ t.kw \in Keywords
      BY <2>2 DEF Read, Task
    <3>2. PICK entry \in Merges(existing, new) :
            task' = [task EXCEPT ![s] =
              [t EXCEPT !.pc = "put", !.entry = entry,
                        !.loses = ~found \/ overflows]]
      BY <2>2 DEF Read
    <3>3. entry \subseteq Pointers
      BY <3>1, <3>2, PointersOfType DEF Merges
    <3>4. [t EXCEPT !.pc = "put", !.entry = entry,
                    !.loses = ~found \/ overflows] \in Task
      BY <3>1, <3>3 DEF Task, TaskPc
    <3>5. UNCHANGED <<dht, fresh, acked>>
      BY <2>2 DEF Read
    <3>6. QED
      BY <3>1, <3>2, <3>4, <3>5 DEF Task
  <2>3. ASSUME NEW s \in Slots, Reach(s)
        PROVE  TypeOK'
    <3> DEFINE t == task[s]
               Hit(u) == u.kw = t.kw /\ (u.pc = "put" \/ (u.pc = "sent" /\ t.loses))
               New(r) == IF r = s THEN [t EXCEPT !.pc = "sent", !.loses = FALSE]
                         ELSE [task[r] EXCEPT !.loses = @ \/ Hit(task[r])]
    <3>1. t \in Task /\ t.pc = "put" /\ t.kw \in Keywords /\ t.entry \subseteq Pointers
      BY <2>3 DEF Reach, Task
    <3>2. task' = [r \in Slots |-> New(r)]
      BY <2>3 DEF Reach
    <3>3. ASSUME NEW r \in Slots
          PROVE  /\ New(r) \in Task
                 /\ New(r).pc = "idle" <=> New(r).kw = NoKeyword
                 /\ New(r).batch \subseteq Docs(Node[r])
      <4>1. task[r] \in Task /\ task[r].loses \in BOOLEAN
        BY DEF Task
      <4>2. (task[r].loses \/ Hit(task[r])) \in BOOLEAN
        OBVIOUS
      <4> HIDE DEF Hit
      <4>3. QED
        BY <3>1, <4>1, <4>2 DEF Task, TaskPc
    <3>4. /\ task' \in [Slots -> Task]
          /\ \A r \in Slots :
               /\ task'[r].pc = "idle" <=> task'[r].kw = NoKeyword
               /\ task'[r].batch \subseteq Docs(Node[r])
      <4> HIDE DEF New
      <4>1. QED
        BY <3>2, <3>3
    <3>5. /\ dht' \in [Keywords -> SUBSET Pointers]
          /\ acked' \in [Keywords -> SUBSET Pointers]
          /\ fresh' = fresh
      BY <2>3, <3>1 DEF Reach
    <3>6. QED
      BY <3>4, <3>5
  <2>4. ASSUME NEW s \in Slots, Published(s)
        PROVE  TypeOK'
    <3> DEFINE t == task[s]
    <3>1. /\ t.kw \in Keywords /\ t.batch \in SUBSET Docs(Node[s])
          /\ t.todo \in SUBSET Keywords
      BY <2>4 DEF Published, Task
    <3>2. PointersOf(Node[s], t.batch, t.kw) \in SUBSET Pointers
      BY <3>1, PointersOfType
    <3>3. /\ fresh' \in [Nodes -> [Keywords -> Nat]]
          /\ acked' \in [Keywords -> SUBSET Pointers]
          /\ dht' = dht
      BY <2>4, <3>1, <3>2 DEF Published
    <3>4. QED
      BY <2>0, <2>4, <3>1, <3>3 DEF Published
  <2>5. ASSUME NEW s \in Slots, PutRaises(s)
        PROVE  TypeOK'
    <3>1. task[s].batch \in SUBSET Docs(Node[s]) /\ task[s].todo \in SUBSET Keywords
      BY DEF Task
    <3>2. QED
      BY <2>0, <2>5, <3>1 DEF PutRaises
  <2>6. ASSUME NEW n \in Nodes, NEW k \in Keywords, Expire(n, k)
        PROVE  TypeOK'
    BY <2>6 DEF Expire
  <2>7. ASSUME NEW n \in Nodes, Restart(n)
        PROVE  TypeOK'
    BY <2>7 DEF Restart, Task, TaskPc, Idle
  <2>8. CASE UNCHANGED vars
    BY <2>8 DEF vars
  <2>9. ASSUME NEW s \in Slots, MergeRaises(s)
        PROVE  TypeOK'
    BY <2>9 DEF MergeRaises, Task, TaskPc, Idle
  <2>10. QED
    BY <2>1, <2>2, <2>3, <2>4, <2>5, <2>6, <2>7, <2>8, <2>9 DEF Next, BatchStep
<1>3. QED
  BY <1>1, <1>2, PTL DEF Spec

-----------------------------------------------------------------------------
(* A node's slots are finitely many, hence its publishing batches.         *)
LEMMA PublishingFinite ==
  ASSUME NEW n \in Nodes, NEW k \in Keywords
  PROVE  /\ IsFiniteSet(Publishing(n, k)) /\ IsFiniteSet(SlotsOf(n))
         /\ Cardinality(Publishing(n, k)) \in Nat
         /\ Cardinality(SlotsOf(n)) \in Nat
         /\ Cardinality(Publishing(n, k)) <= Cardinality(SlotsOf(n))
<1>1. IsFiniteSet(Slots)
  BY KeywordIndexAssumption DEF KeywordIndexAssumption
<1>2. SlotsOf(n) \subseteq Slots /\ Publishing(n, k) \subseteq SlotsOf(n)
  BY DEF SlotsOf, Publishing
<1>3. QED
  BY <1>1, <1>2, FS_Subset, FS_CardinalityType

(* The rate of one node and keyword, and what disturbs it: a batch that    *)
(* goes on to another keyword after its publish counted by one (more = 1)  *)
(* or did not count (more = 0).                                            *)
RateOf(n, k) ==
  fresh[n][k] + Cardinality(Publishing(n, k))
    <= MaxPublishes + Cardinality(SlotsOf(n)) - 1

LEMMA GoingOnKeepsRate ==
  ASSUME TypeOK, RateNearlyKept, NEW s \in Slots,
         NEW batch \in SUBSET Docs(Node[s]), NEW todo \in SUBSET Keywords,
         fresh' \in [Nodes -> [Keywords -> Nat]],
         NextKeyword(s, batch, todo, fresh'[Node[s]]),
         \A n \in Nodes, k \in Keywords :
           fresh'[n][k] # fresh[n][k] =>
             /\ n = Node[s] /\ k = task[s].kw
             /\ fresh'[n][k] = fresh[n][k] + 1
  PROVE  RateNearlyKept'
<1> SUFFICES ASSUME NEW n \in Nodes, NEW k \in Keywords PROVE RateOf(n, k)'
  BY DEF RateNearlyKept, RateOf
<1> DEFINE F == fresh[n][k]
           P == Publishing(n, k)
           S == Cardinality(SlotsOf(n))
<1>1. PICK u \in Task : /\ task' = [task EXCEPT ![s] = u]
                        /\ Went(s, batch, todo, fresh'[Node[s]], u)
  BY NextKeywordWent
<1>2. /\ F \in Nat /\ F' \in Nat /\ S \in Nat
      /\ Cardinality(P) \in Nat /\ IsFiniteSet(P) /\ IsFiniteSet(SlotsOf(n))
      /\ F + Cardinality(P) <= MaxPublishes + S - 1
  BY PublishingFinite DEF TypeOK, RateNearlyKept
<1>3. P' = {r \in SlotsOf(n) : task'[r].kw = k}
  BY DEF Publishing, SlotsOf
<1>4. /\ IsFiniteSet(P') /\ Cardinality(P') \in Nat /\ Cardinality(P') <= S
  <2>1. P' \subseteq SlotsOf(n)
    BY <1>3
  <2>2. QED
    BY <1>2, <2>1, FS_Subset, FS_CardinalityType
<1>5. task \in [Slots -> Task] /\ task'[s] = u
  BY <1>1 DEF TypeOK
<1>6. CASE n = Node[s] /\ u.kw = k
  <2>1. u # Idle
    BY <1>6 DEF Idle
  <2>2. F' < MaxPublishes
    BY <1>1, <1>6, <2>1 DEF Went, MayPublish
  <2>3. F' + Cardinality(P') <= MaxPublishes + S - 1
    BY <1>2, <1>4, <2>2
  <2>4. S' = S
    BY DEF SlotsOf
  <2>5. QED
    BY <2>3, <2>4 DEF RateOf
<1>7. CASE ~(n = Node[s] /\ u.kw = k)
  <2>1. P' = P \ {s}
    BY <1>1, <1>3, <1>5, <1>7 DEF Publishing, SlotsOf
  <2>2. Cardinality(P') = IF s \in P THEN Cardinality(P) - 1 ELSE Cardinality(P)
    BY <1>2, <2>1, FS_RemoveElement
  <2>3. F' # F => s \in P /\ F' = F + 1
    BY DEF Publishing, SlotsOf
  <2>4. F' + Cardinality(P') <= F + Cardinality(P)
    BY <1>2, <2>2, <2>3
  <2>5. F' + Cardinality(P') <= MaxPublishes + S - 1
    BY <1>2, <1>4, <2>4
  <2>6. S' = S
    BY DEF SlotsOf
  <2>7. QED
    BY <2>5, <2>6 DEF RateOf
<1>8. QED
  BY <1>6, <1>7

(* Where no slot takes up a keyword and no count grows, the rate holds on. *)
LEMMA FewerKeepRate ==
  ASSUME TypeOK, RateNearlyKept,
         \A n \in Nodes, k \in Keywords :
           /\ fresh'[n][k] \in Nat /\ fresh'[n][k] <= fresh[n][k]
           /\ Publishing(n, k)' \subseteq Publishing(n, k)
  PROVE  RateNearlyKept'
<1> SUFFICES ASSUME NEW n \in Nodes, NEW k \in Keywords PROVE RateOf(n, k)'
  BY DEF RateNearlyKept, RateOf
<1>1. /\ Cardinality(Publishing(n, k))' <= Cardinality(Publishing(n, k))
      /\ Cardinality(Publishing(n, k))' \in Nat
  BY PublishingFinite, FS_Subset, FS_CardinalityType
<1>2. Cardinality(SlotsOf(n))' = Cardinality(SlotsOf(n))
  BY DEF SlotsOf
<1>3. fresh[n][k] \in Nat /\ RateOf(n, k)
  BY DEF TypeOK, RateNearlyKept, RateOf
<1>4. QED
  BY <1>1, <1>2, <1>3, PublishingFinite DEF RateOf

(* A node publishes a keyword at most MaxPublishes times within an hour,   *)
(* and once more for every further batch it runs at the same time.         *)
THEOREM RateIsNearlyKept == Spec => []RateNearlyKept
<1>1. Init => RateNearlyKept
  <2> SUFFICES ASSUME Init, NEW n \in Nodes, NEW k \in Keywords PROVE RateOf(n, k)
    BY DEF RateNearlyKept, RateOf
  <2>1. Publishing(n, k) = {}
    BY DEF Init, Idle, Publishing, SlotsOf
  <2>2. Cardinality(Publishing(n, k)) = 0 /\ fresh[n][k] = 0
    BY <2>1, FS_EmptySet DEF Init
  <2>3. QED
    BY <2>2, PublishingFinite DEF RateOf
<1>2. TypeOK /\ TypeOK' /\ RateNearlyKept /\ [Next]_vars => RateNearlyKept'
  <2> SUFFICES ASSUME TypeOK, TypeOK', RateNearlyKept, [Next]_vars
               PROVE  RateNearlyKept'
    OBVIOUS
  <2>0. /\ task \in [Slots -> Task]
        /\ fresh \in [Nodes -> [Keywords -> Nat]]
        /\ fresh' \in [Nodes -> [Keywords -> Nat]]
    BY DEF TypeOK
  <2>a. ASSUME fresh' = fresh, \A s \in Slots : task'[s].kw = task[s].kw
        PROVE  RateNearlyKept'
    BY <2>0, <2>a, FewerKeepRate DEF Publishing, SlotsOf
  <2>1. ASSUME NEW s \in Slots, NEW batch \in Batches(Node[s]), Start(s, batch)
        PROVE  RateNearlyKept'
    <3>1. /\ batch \in SUBSET Docs(Node[s])
          /\ KeywordsOf(Node[s], batch) \in SUBSET Keywords
      BY <2>1, BatchType
    <3>2. /\ NextKeyword(s, batch, KeywordsOf(Node[s], batch), fresh'[Node[s]])
          /\ fresh' = fresh
      BY <2>1 DEF Start
    <3>3. QED
      BY <2>0, <3>1, <3>2, GoingOnKeepsRate
  <2>2. ASSUME NEW s \in Slots, NEW found \in BOOLEAN, Read(s, found)
        PROVE  RateNearlyKept'
    BY <2>0, <2>a, <2>2 DEF Read, Task
  <2>3. ASSUME NEW s \in Slots, Reach(s)
        PROVE  RateNearlyKept'
    BY <2>0, <2>a, <2>3 DEF Reach, Task
  <2>4. ASSUME NEW s \in Slots, Published(s)
        PROVE  RateNearlyKept'
    <3>1. /\ task[s].batch \in SUBSET Docs(Node[s])
          /\ task[s].todo \in SUBSET Keywords
          /\ task[s].kw \in Keywords
      BY <2>4 DEF TypeOK, Task, Published
    <3>2. /\ NextKeyword(s, task[s].batch, task[s].todo, fresh'[Node[s]])
          /\ fresh' = [fresh EXCEPT ![Node[s]][task[s].kw] = @ + 1]
      BY <2>4 DEF Published
    <3>3. \A n \in Nodes, k \in Keywords :
            fresh'[n][k] # fresh[n][k] =>
              /\ n = Node[s] /\ k = task[s].kw
              /\ fresh'[n][k] = fresh[n][k] + 1
      BY <2>0, <3>1, <3>2
    <3>4. QED
      BY <2>0, <3>1, <3>2, <3>3, GoingOnKeepsRate
  <2>5. ASSUME NEW s \in Slots, PutRaises(s)
        PROVE  RateNearlyKept'
    <3>1. /\ task[s].batch \in SUBSET Docs(Node[s])
          /\ task[s].todo \in SUBSET Keywords
      BY DEF TypeOK, Task
    <3>2. /\ NextKeyword(s, task[s].batch, task[s].todo, fresh'[Node[s]])
          /\ fresh' = fresh
      BY <2>5 DEF PutRaises
    <3>3. QED
      BY <2>0, <3>1, <3>2, GoingOnKeepsRate
  <2>6. ASSUME NEW n \in Nodes, NEW k \in Keywords, Expire(n, k)
        PROVE  RateNearlyKept'
    <3>1. \A m \in Nodes, j \in Keywords : fresh'[m][j] <= fresh[m][j]
      BY <2>0, <2>6 DEF Expire
    <3>2. task' = task
      BY <2>6 DEF Expire
    <3>3. QED
      BY <2>0, <3>1, <3>2, FewerKeepRate DEF Publishing, SlotsOf
  <2>7. ASSUME NEW n \in Nodes, Restart(n)
        PROVE  RateNearlyKept'
    <3>1. \A m \in Nodes, j \in Keywords : fresh'[m][j] <= fresh[m][j]
      BY <2>0, <2>7 DEF Restart
    <3>2. \A s \in Slots : task'[s].kw \in {task[s].kw, NoKeyword}
      BY <2>7 DEF Restart, Idle
    <3>3. QED
      BY <2>0, <3>1, <3>2, FewerKeepRate DEF Publishing, SlotsOf
  <2>8. CASE UNCHANGED vars
    BY <2>a, <2>8 DEF vars
  <2>9. ASSUME NEW s \in Slots, MergeRaises(s)
        PROVE  RateNearlyKept'
    <3>1. \A r \in Slots : task'[r].kw \in {task[r].kw, NoKeyword}
      BY <2>0, <2>9 DEF MergeRaises, Idle
    <3>2. fresh' = fresh
      BY <2>9 DEF MergeRaises
    <3>3. QED
      BY <2>0, <3>1, <3>2, FewerKeepRate DEF Publishing, SlotsOf
  <2>10. QED
    BY <2>1, <2>2, <2>3, <2>4, <2>5, <2>6, <2>7, <2>8, <2>9 DEF Next, BatchStep
<1>3. QED
  BY <1>1, <1>2, TypeCorrect, PTL DEF Spec

-----------------------------------------------------------------------------
(* Pointers that fit an entry and have its keyword.                        *)
Fits(k, pointers) ==
  /\ Cardinality(pointers) <= MaxPointers
  /\ \A p \in pointers : k \in Words[p[1]][p[2]]

(* The inductive invariant of EntriesSound: what will be written fits too. *)
WritesFit ==
  /\ \A k \in Keywords : Fits(k, dht[k])
  /\ \A s \in Slots : task[s].pc = "put" => Fits(task[s].kw, task[s].entry)

(* Merging pointers that have the keyword gives an entry that fits         *)
(* (dht.py:383).                                                           *)
LEMMA MergeFits ==
  ASSUME NEW n \in Nodes, NEW batch \in SUBSET Docs(n), NEW k \in Keywords,
         NEW existing, \A p \in existing : k \in Words[p[1]][p[2]],
         NEW entry \in Merges(existing, PointersOf(n, batch, k))
  PROVE  Fits(k, entry)
<1>1. \A p \in PointersOf(n, batch, k) : k \in Words[p[1]][p[2]]
  BY DEF PointersOf
<1>2. entry \subseteq existing \cup PointersOf(n, batch, k)
  BY DEF Merges
<1>3. Cardinality(entry) <= MaxPointers
  <2> DEFINE all == existing \cup PointersOf(n, batch, k)
  <2>1. \/ entry = all /\ Cardinality(all) <= MaxPointers
        \/ Cardinality(entry) = MaxPointers
    BY DEF Merges
  <2> HIDE DEF all
  <2>2. QED
    BY <2>1
<1>4. QED
  BY <1>1, <1>2, <1>3 DEF Fits

(* No entry ever outgrows the limit or has a pointer without its keyword.  *)
THEOREM EntriesAreSound == Spec => []EntriesSound
<1>1. Init => WritesFit
  <2>1. \A k \in Keywords : Fits(k, {})
    BY FS_EmptySet DEF Fits
  <2>2. QED
    BY <2>1 DEF Init, WritesFit, Idle
<1>2. TypeOK /\ WritesFit /\ [Next]_vars => WritesFit'
  <2> SUFFICES ASSUME TypeOK, WritesFit, [Next]_vars PROVE WritesFit'
    OBVIOUS
  <2>0. task \in [Slots -> Task] /\ dht \in [Keywords -> SUBSET Pointers]
    BY DEF TypeOK
  <2>a. ASSUME dht' = dht,
               \A s \in Slots : task'[s].pc = "put" => task'[s] = task[s]
        PROVE  WritesFit'
    BY <2>a DEF WritesFit
  <2>b. ASSUME NEW s \in Slots, NEW batch \in SUBSET Docs(Node[s]),
               NEW todo \in SUBSET Keywords, NEW count,
               NextKeyword(s, batch, todo, count), dht' = dht
        PROVE  WritesFit'
    <3>1. PICK u \in Task : /\ task' = [task EXCEPT ![s] = u]
                            /\ Went(s, batch, todo, count, u)
      BY <2>b, NextKeywordWent
    <3>2. u.pc # "put"
      BY <3>1 DEF Went, Idle
    <3>3. QED
      BY <2>0, <2>a, <2>b, <3>1, <3>2
  <2>1. ASSUME NEW s \in Slots, NEW batch \in Batches(Node[s]), Start(s, batch)
        PROVE  WritesFit'
    BY <2>b, <2>1, BatchType DEF Start
  <2>2. ASSUME NEW s \in Slots, NEW found \in BOOLEAN, Read(s, found)
        PROVE  WritesFit'
    <3> DEFINE t == task[s]
               existing == IF found THEN dht[t.kw] ELSE {}
               new == PointersOf(Node[s], t.batch, t.kw)
               overflows == Cardinality(existing \cup new) > MaxPointers
    <3>1. t \in Task /\ t.kw \in Keywords /\ t.batch \in SUBSET Docs(Node[s])
      BY <2>2 DEF Read, TypeOK, Task
    <3>2. PICK entry \in Merges(existing, new) :
            task' = [task EXCEPT ![s] =
              [t EXCEPT !.pc = "put", !.entry = entry,
                        !.loses = ~found \/ overflows]]
      BY <2>2 DEF Read
    <3>3. \A p \in existing : t.kw \in Words[p[1]][p[2]]
      BY <3>1 DEF WritesFit, Fits
    <3>4. Fits(t.kw, entry)
      BY <3>1, <3>2, <3>3, MergeFits
    <3>5. task'[s].entry = entry /\ task'[s].kw = t.kw
      BY <2>0, <3>1, <3>2 DEF Task
    <3>6. \A r \in Slots \ {s} : task'[r] = task[r]
      BY <2>0, <3>2
    <3>7. dht' = dht
      BY <2>2 DEF Read
    <3>8. QED
      BY <3>4, <3>5, <3>6, <3>7 DEF WritesFit
  <2>3. ASSUME NEW s \in Slots, Reach(s)
        PROVE  WritesFit'
    <3>1. /\ task[s].pc = "put"
          /\ dht' = [dht EXCEPT ![task[s].kw] = task[s].entry]
      BY <2>3 DEF Reach
    <3>2. \A r \in Slots : task'[r].pc = "put" =>
            /\ task[r].pc = "put"
            /\ task'[r].kw = task[r].kw /\ task'[r].entry = task[r].entry
      BY <2>0, <2>3 DEF Reach, Task
    <3>3. \A k \in Keywords : Fits(k, dht'[k])
      BY <2>0, <3>1 DEF WritesFit
    <3>4. QED
      BY <3>2, <3>3 DEF WritesFit
  <2>4. ASSUME NEW s \in Slots, Published(s)
        PROVE  WritesFit'
    <3>1. task[s].batch \in SUBSET Docs(Node[s]) /\ task[s].todo \in SUBSET Keywords
      BY DEF TypeOK, Task
    <3>2. QED
      BY <2>b, <2>4, <3>1 DEF Published
  <2>5. ASSUME NEW s \in Slots, PutRaises(s)
        PROVE  WritesFit'
    <3>1. task[s].batch \in SUBSET Docs(Node[s]) /\ task[s].todo \in SUBSET Keywords
      BY DEF TypeOK, Task
    <3>2. QED
      BY <2>b, <2>5, <3>1 DEF PutRaises
  <2>6. ASSUME NEW n \in Nodes, NEW k \in Keywords, Expire(n, k)
        PROVE  WritesFit'
    BY <2>a, <2>6 DEF Expire
  <2>7. ASSUME NEW n \in Nodes, Restart(n)
        PROVE  WritesFit'
    BY <2>a, <2>7 DEF Restart, Idle
  <2>8. CASE UNCHANGED vars
    BY <2>a, <2>8 DEF vars
  <2>9. ASSUME NEW s \in Slots, MergeRaises(s)
        PROVE  WritesFit'
    BY <2>0, <2>a, <2>9 DEF MergeRaises, Idle
  <2>10. QED
    BY <2>1, <2>2, <2>3, <2>4, <2>5, <2>6, <2>7, <2>8, <2>9 DEF Next, BatchStep
<1>3. WritesFit => EntriesSound
  BY DEF WritesFit, EntriesSound, Fits
<1>4. QED
  BY <1>1, <1>2, <1>3, TypeCorrect, PTL DEF Spec

-----------------------------------------------------------------------------
Own(s) == PointersOf(Node[s], task[s].batch, task[s].kw)

(* The inductive invariant of PublishedIsKept: a write that is not known   *)
(* to lose covers the entry and brings its own pointers, and one that has  *)
(* taken effect and is not known to be undone is still there.              *)
WritesKeep ==
  /\ PublishedIsKept
  /\ \A s \in Slots :
       /\ task[s].pc = "put" =>
            /\ Own(s) \subseteq task[s].entry
            /\ task[s].loses \/ dht[task[s].kw] \subseteq task[s].entry
       /\ task[s].pc = "sent" =>
            task[s].loses \/ Own(s) \subseteq dht[task[s].kw]

(* What publish_keyword has reported published is in the entry until a     *)
(* write from an old or a failed read, or into a full entry, takes effect. *)
THEOREM PublishedStays == Spec => []PublishedIsKept
<1>1. Init => WritesKeep
  BY DEF Init, WritesKeep, PublishedIsKept, Idle
<1>2. TypeOK /\ WritesKeep /\ [Next]_vars => WritesKeep'
  <2> SUFFICES ASSUME TypeOK, WritesKeep, [Next]_vars PROVE WritesKeep'
    OBVIOUS
  <2>0. /\ task \in [Slots -> Task] /\ dht \in [Keywords -> SUBSET Pointers]
        /\ acked \in [Keywords -> SUBSET Pointers]
    BY DEF TypeOK
  <2>a. ASSUME dht' = dht, PublishedIsKept',
               \A s \in Slots : \/ task'[s].pc \in {"idle", "get"}
                                \/ task'[s] = task[s]
        PROVE  WritesKeep'
    BY <2>a DEF WritesKeep, Own
  <2>b. ASSUME NEW s \in Slots, NEW batch \in SUBSET Docs(Node[s]),
               NEW todo \in SUBSET Keywords, NEW count,
               NextKeyword(s, batch, todo, count), dht' = dht, PublishedIsKept'
        PROVE  WritesKeep'
    <3>1. PICK u \in Task : /\ task' = [task EXCEPT ![s] = u]
                            /\ Went(s, batch, todo, count, u)
      BY <2>b, NextKeywordWent
    <3>2. u.pc \in {"idle", "get"}
      BY <3>1 DEF Went, Idle
    <3>3. QED
      BY <2>0, <2>a, <2>b, <3>1, <3>2
  <2>c. UNCHANGED <<dht, acked>> => PublishedIsKept'
    BY DEF WritesKeep, PublishedIsKept
  <2>1. ASSUME NEW s \in Slots, NEW batch \in Batches(Node[s]), Start(s, batch)
        PROVE  WritesKeep'
    BY <2>b, <2>c, <2>1, BatchType DEF Start
  <2>2. ASSUME NEW s \in Slots, NEW found \in BOOLEAN, Read(s, found)
        PROVE  WritesKeep'
    <3> DEFINE t == task[s]
               existing == IF found THEN dht[t.kw] ELSE {}
               new == PointersOf(Node[s], t.batch, t.kw)
               overflows == Cardinality(existing \cup new) > MaxPointers
    <3>1. PICK entry \in Merges(existing, new) :
            task' = [task EXCEPT ![s] =
              [t EXCEPT !.pc = "put", !.entry = entry,
                        !.loses = ~found \/ overflows]]
      BY <2>2 DEF Read
    <3>2. /\ task'[s].pc = "put" /\ task'[s].kw = t.kw /\ task'[s].batch = t.batch
          /\ task'[s].entry = entry
          /\ task'[s].loses = (~found \/ overflows)
      BY <2>0, <3>1 DEF Task
    <3>3. Own(s)' \subseteq entry
      BY <3>1, <3>2 DEF Own, Merges
    <3>a. ASSUME ~task'[s].loses PROVE dht[t.kw] \subseteq entry
      <4>1. found /\ ~overflows
        BY <3>2, <3>a
      <4>2. entry = existing \cup new \/ overflows
        BY <3>1 DEF Merges
      <4>3. QED
        BY <4>1, <4>2
    <3>4. \A r \in Slots \ {s} : task'[r] = task[r]
      BY <2>0, <3>1
    <3>5. UNCHANGED <<dht, acked>>
      BY <2>2 DEF Read
    <3>6. PublishedIsKept'
      BY <2>c, <3>5
    <3>7. QED
      BY <3>2, <3>3, <3>a, <3>4, <3>5, <3>6 DEF WritesKeep, Own
  <2>3. ASSUME NEW s \in Slots, Reach(s)
        PROVE  WritesKeep'
    <3> DEFINE t == task[s]
    <3>1. /\ t.pc = "put" /\ t.kw \in Keywords
          /\ dht' = [dht EXCEPT ![t.kw] = t.entry]
          /\ acked' = IF t.loses THEN [acked EXCEPT ![t.kw] = {}] ELSE acked
      BY <2>3 DEF Reach, TypeOK, Task
    <3>2. /\ Own(s) \subseteq t.entry
          /\ t.loses \/ dht[t.kw] \subseteq t.entry
      BY <3>1 DEF WritesKeep
    <3>3. PublishedIsKept'
      BY <2>0, <3>1, <3>2 DEF WritesKeep, PublishedIsKept
    <3>4. task'[s].pc = "sent" /\ Own(s)' \subseteq dht'[task'[s].kw]
      <4>1. task'[s] = [t EXCEPT !.pc = "sent", !.loses = FALSE]
        BY <2>3 DEF Reach
      <4>2. /\ task'[s].pc = "sent" /\ task'[s].kw = t.kw
            /\ task'[s].batch = t.batch
        BY <2>0, <4>1 DEF Task
      <4>3. QED
        BY <2>0, <3>1, <3>2, <4>2 DEF Own
    <3>5. ASSUME NEW r \in Slots \ {s}
          PROVE  /\ task'[r].pc = task[r].pc /\ task'[r].kw = task[r].kw
                 /\ task'[r].batch = task[r].batch
                 /\ task'[r].entry = task[r].entry
                 /\ task'[r].loses =
                      (\/ task[r].loses
                       \/ /\ task[r].kw = t.kw
                          /\ \/ task[r].pc = "put"
                             \/ task[r].pc = "sent" /\ t.loses)
      <4>1. task[r] \in Task
        BY <2>0
      <4>2. task'[r] = [task[r] EXCEPT !.loses =
                 (\/ task[r].loses
                  \/ /\ task[r].kw = t.kw
                     /\ \/ task[r].pc = "put"
                        \/ task[r].pc = "sent" /\ t.loses)]
        BY <2>3 DEF Reach
      <4>3. QED
        BY <4>1, <4>2 DEF Task
    <3>6. ASSUME NEW r \in Slots \ {s}, task[r].pc = "put"
          PROVE  /\ Own(r)' \subseteq task'[r].entry
                 /\ task'[r].loses \/ dht'[task'[r].kw] \subseteq task'[r].entry
      <4>1. Own(r)' = Own(r) /\ task'[r].entry = task[r].entry
        BY <3>5 DEF Own
      <4>2. /\ Own(r) \subseteq task[r].entry
            /\ task[r].loses \/ dht[task[r].kw] \subseteq task[r].entry
        BY <3>6 DEF WritesKeep
      <4>3. CASE task[r].kw = t.kw
        <5>1. task'[r].loses
          BY <3>5, <3>6, <4>3
        <5>2. QED
          BY <4>1, <4>2, <5>1
      <4>4. CASE task[r].kw # t.kw
        <5>1. dht'[task[r].kw] = dht[task[r].kw]
          BY <2>0, <3>1, <3>6, <4>4 DEF TypeOK, Task
        <5>2. task[r].loses => task'[r].loses
          BY <3>5
        <5>3. task'[r].kw = task[r].kw
          BY <3>5
        <5>4. QED
          BY <4>1, <4>2, <5>1, <5>2, <5>3
      <4>5. QED
        BY <4>3, <4>4
    <3>7. ASSUME NEW r \in Slots \ {s}, task[r].pc = "sent"
          PROVE  task'[r].loses \/ Own(r)' \subseteq dht'[task'[r].kw]
      <4>1. Own(r)' = Own(r) /\ task'[r].kw = task[r].kw
        BY <3>5 DEF Own
      <4>2. task[r].loses \/ Own(r) \subseteq dht[task[r].kw]
        BY <3>7 DEF WritesKeep
      <4>3. CASE task[r].loses \/ (task[r].kw = t.kw /\ t.loses)
        BY <3>5, <3>7, <4>3
      <4>4. CASE ~task[r].loses /\ ~(task[r].kw = t.kw /\ t.loses)
        <5>1. dht[task[r].kw] \subseteq dht'[task[r].kw]
          BY <2>0, <3>1, <3>2, <4>4
        <5>2. QED
          BY <4>1, <4>2, <4>4, <5>1
      <4>5. QED
        BY <4>3, <4>4
    <3>8. QED
      BY <3>3, <3>4, <3>5, <3>6, <3>7 DEF WritesKeep
  <2>4. ASSUME NEW s \in Slots, Published(s)
        PROVE  WritesKeep'
    <3> DEFINE t == task[s]
    <3>1. /\ t.batch \in SUBSET Docs(Node[s]) /\ t.todo \in SUBSET Keywords
          /\ t.pc = "sent"
          /\ acked' = IF t.loses THEN acked
                      ELSE [acked EXCEPT ![t.kw] = @ \cup Own(s)]
          /\ dht' = dht
      BY <2>4 DEF Published, TypeOK, Task, Own
    <3>2. PublishedIsKept'
      BY <2>0, <3>1 DEF WritesKeep, PublishedIsKept
    <3>3. QED
      BY <2>b, <2>4, <3>1, <3>2 DEF Published
  <2>5. ASSUME NEW s \in Slots, PutRaises(s)
        PROVE  WritesKeep'
    <3>1. task[s].batch \in SUBSET Docs(Node[s]) /\ task[s].todo \in SUBSET Keywords
      BY DEF TypeOK, Task
    <3>2. QED
      BY <2>b, <2>c, <2>5, <3>1 DEF PutRaises
  <2>6. ASSUME NEW n \in Nodes, NEW k \in Keywords, Expire(n, k)
        PROVE  WritesKeep'
    BY <2>a, <2>c, <2>6 DEF Expire
  <2>7. ASSUME NEW n \in Nodes, Restart(n)
        PROVE  WritesKeep'
    BY <2>a, <2>c, <2>7 DEF Restart, Idle
  <2>8. CASE UNCHANGED vars
    BY <2>a, <2>c, <2>8 DEF vars
  <2>9. ASSUME NEW s \in Slots, MergeRaises(s)
        PROVE  WritesKeep'
    BY <2>0, <2>a, <2>c, <2>9 DEF MergeRaises, Idle
  <2>10. QED
    BY <2>1, <2>2, <2>3, <2>4, <2>5, <2>6, <2>7, <2>8, <2>9 DEF Next, BatchStep
<1>3. WritesKeep => PublishedIsKept
  BY DEF WritesKeep
<1>4. QED
  BY <1>1, <1>2, <1>3, TypeCorrect, PTL DEF Spec

=============================================================================
