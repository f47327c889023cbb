--------------------------- MODULE Crawler_proofs ---------------------------
(***************************************************************************)
(* What holds of the crawler, from the inside out: what the Scheduler      *)
(* promises to a client that keeps to its interface, for any set of URLs   *)
(* and domains, any delays, limits and thresholds (SchedulerContract);     *)
(* what holds of crawling, deduplication and indexing for any number of    *)
(* overlapping crawls, any web and any kills, whatever the scheduler does; *)
(* then, with what the scheduler does, types, the pending counts, and the  *)
(* delays and losses of the serve loop (CrawlLoop); last, what holds of    *)
(* the tool calls, which run this crawler (ToolCalls).                     *)
(***************************************************************************)
EXTENDS ToolCalls, SchedulerContract,
        FiniteSetTheorems, FunctionTheorems, SequenceTheorems, TLAPS

-----------------------------------------------------------------------------
(* The table of domains and the task in get_url. *)

\* A fresh entry, the one the table has after an eviction, and the one a
\* domain has while get_url is away are all states of a domain.
LEMMA EvictType ==
  ASSUME NEW table \in [Domains -> DomainState], NEW S
  PROVE  Evict(table, S) \in [Domains -> DomainState]
BY SchedulerAssumption DEF Evict, NewDomain, DomainState, LongAgo

\* A table in which one time or one count is new is a table.
LEMMA TableType ==
  ASSUME NEW table \in [Domains -> DomainState], NEW d \in Domains, NEW n \in Nat
  PROVE  /\ [table EXCEPT ![d].since = 0] \in [Domains -> DomainState]
         /\ [table EXCEPT ![d].pending = n] \in [Domains -> DomainState]
         /\ n <= MaxCrawlDelay => [table EXCEPT ![d].delay = n] \in [Domains -> DomainState]
<1>1. table[d] \in DomainState
  OBVIOUS
<1>2. /\ [table[d] EXCEPT !.since = 0] \in DomainState
      /\ [table[d] EXCEPT !.pending = n] \in DomainState
      /\ n <= MaxCrawlDelay => [table[d] EXCEPT !.delay = n] \in DomainState
  BY <1>1, SchedulerAssumption DEF DomainState, LongAgo
<1> HIDE DEF DomainState
<1> QED BY <1>2

\* What is put in the queue stays behind what was there.
LEMMA EnqueueType ==
  ASSUME NEW q \in Seq(Item), NEW item \in Item
  PROVE  /\ Enqueue(q, item) \in Seq(Item)
         /\ Len(Enqueue(q, item)) = Len(q) + 1
         /\ \A i \in 1 .. Len(q) : Enqueue(q, item)[i] = q[i]
         /\ Enqueue(q, item)[Len(q) + 1] = item
BY DEF Enqueue

\* Losing its domain's entry changes nothing but the orphan flag of the task.
LEMMA OrphanedType ==
  ASSUME NEW g \in GetState, NEW S
  PROVE  /\ Orphaned(g, S) \in GetState
         /\ Orphaned(g, S).pc = g.pc
         /\ Orphaned(g, S).item = g.item
         /\ Orphaned(g, S).wait = g.wait
BY DEF Orphaned, GetState

\* No task is in get_url.
LEMMA NoGetType == NoGet \in GetState
BY DEF NoGet, GetState, GetterPc

\* Every item has a domain.
LEMMA DomType ==
  ASSUME NEW item \in Item
  PROVE  Dom(item) \in Domains /\ item # None
BY SchedulerAssumption DEF Item, Dom

\* Only entries without pending URLs and without a recent request are evicted.
LEMMA StaleIs ==
  ASSUME NEW table, NEW keys, NEW threshold, NEW d \in Stale(table, keys, threshold)
  PROVE  d \in keys /\ table[d].pending = 0 /\ table[d].since > StaleAfter
BY DEF Stale

\* The delay in force is one a domain that may be evicted has outlasted.
LEMMA DelayType ==
  ASSUME domains \in [Domains -> DomainState], NEW d \in Domains
  PROVE  Delay(d) \in 0 .. StaleAfter
<1>1. domains[d].delay = None \/ domains[d].delay \in 0 .. MaxCrawlDelay
  BY DEF DomainState
<1> QED BY <1>1, SchedulerAssumption DEF Delay

-----------------------------------------------------------------------------
(* Type correctness. *)

\* get_url holds an item exactly while it waits with one.
GetterShape ==
  /\ getter.pc \in {"idle", "getting", "limited"} => getter.item = None
  /\ getter.pc \in {"sleeping", "putback"} => getter.item # None

\* One turn of get_url, from the politeness wait to the return or the put
\* back, leaves a scheduler of the right shape.
LEMMA TurnType ==
  ASSUME SchedTypeOK, NEW item \in Item, NEW keys \in SUBSET Domains,
         NEW rest \in Seq(Item), NEW orphan \in BOOLEAN,
         Turn(item, keys, rest, orphan)
  PROVE  SchedTypeOK'
<1> USE DEF SchedTypeOK
<1>1. CountNow \in Nat /\ AgeNow \in 0 .. Hour
  BY SchedulerAssumption DEF CountNow, AgeNow
<1>2. CASE Return(item, keys, rest, orphan)
  <2> DEFINE swept == IF HourOver THEN Stale(domains, keys, MaxTrackedDomains) ELSE {}
             table == Evict(domains, swept)
             held == ~orphan /\ Dom(item) \notin swept
  <2>1. table \in [Domains -> DomainState]
    BY EvictType
  <2>2. domains' = IF held THEN [table EXCEPT ![Dom(item)].since = 0] ELSE table
    BY <1>2 DEF Return
  <2>3. domains' \in [Domains -> DomainState]
    <3> HIDE DEF table, held
    <3> QED BY <2>1, <2>2, DomType, TableType
  <2>4. tracked' \subseteq Domains /\ getter' \in GetState
    BY <1>2, NoGetType DEF Return
  <2>5. hourlyCount' \in Nat /\ hourAge' \in 0 .. Hour
    BY <1>1, <1>2 DEF Return
  <2> QED BY <2>3, <2>4, <2>5, <1>2 DEF Return
<1>3. CASE PutBack(item, keys, rest)
  <2>1. domains' \in [Domains -> DomainState]
    BY <1>3, EvictType DEF PutBack
  <2>2. Larger(Hour - AgeNow, 1) \in Nat
    BY <1>1, SchedulerAssumption DEF Larger
  <2>3. getter' \in GetState
    BY <1>3, <2>2 DEF PutBack, NoGet, GetState, GetterPc
  <2>4. queue' \in Seq(Item)
    BY <1>3, EnqueueType DEF PutBack
  <2> QED BY <2>1, <2>3, <2>4, <1>1, <1>3 DEF PutBack
<1> QED BY <1>2, <1>3 DEF Turn

\* add_url leaves a scheduler of the right shape.
LEMMA AddUrlType ==
  ASSUME SchedTypeOK, NEW c \in Callers, NEW item \in Item, AddUrl(c, item)
  PROVE  SchedTypeOK'
<1> USE DEF SchedTypeOK
<1> DEFINE swept == SweptBeforeAdd
           table == Evict(domains, swept)
<1>1. table \in [Domains -> DomainState] /\ Dom(item) \in Domains
  BY EvictType, DomType
<1>2. Orphaned(getter, swept) \in GetState
  BY OrphanedType
<1>3. CASE RejectUrl(c, item)
  BY <1>1, <1>2, <1>3 DEF RejectUrl, schedVars
<1>4. CASE AcceptUrl(c, item)
  <2>1. domains' = [table EXCEPT ![Dom(item)].pending = @ + 1]
    BY <1>4 DEF AcceptUrl
  <2>2. domains' \in [Domains -> DomainState]
    <3>1. table[Dom(item)].pending + 1 \in Nat
      BY <1>1 DEF DomainState
    <3> HIDE DEF table
    <3> QED BY <2>1, <1>1, <3>1, TableType
  <2>3. queue' \in Seq(Item) /\ blocked' \in [Callers -> Item \cup {None}]
    BY <1>4, EnqueueType DEF AcceptUrl
  <2> QED BY <1>1, <1>2, <1>4, <2>2, <2>3 DEF AcceptUrl
<1> QED BY <1>3, <1>4 DEF AddUrl

\* Every step inside get_url, too.
LEMMA GetStepType ==
  ASSUME SchedTypeOK, GetterShape, GetStep
  PROVE  SchedTypeOK'
<1> USE DEF SchedTypeOK
<1>1. CASE Dequeue
  <2> DEFINE item == Head(queue)
             d == Dom(item)
  <2>1. queue # <<>> /\ item \in Item /\ Tail(queue) \in Seq(Item)
    BY <1>1 DEF Dequeue
  <2>2. d \in Domains
    BY <2>1, DomType
  <2>3. CASE domains[d].since >= Delay(d)
    <3>1. Turn(item, tracked \cup {d}, Tail(queue), FALSE)
      BY <1>1, <2>3 DEF Dequeue
    <3> HIDE DEF item
    <3> QED BY <3>1, <2>1, <2>2, TurnType
  <2>4. CASE ~(domains[d].since >= Delay(d))
    <3>1. Delay(d) - domains[d].since \in Nat
      BY <2>2, <2>4, DelayType, SchedulerAssumption DEF DomainState, LongAgo
    <3>2. getter' = [pc |-> "sleeping", item |-> item,
                     wait |-> Delay(d) - domains[d].since, orphan |-> FALSE]
      BY <1>1, <2>4 DEF Dequeue
    <3>3. getter' \in GetState
      BY <2>1, <3>1, <3>2 DEF GetState, GetterPc
    <3> QED BY <1>1, <2>1, <2>2, <2>4, <3>3 DEF Dequeue
  <2> QED BY <2>3, <2>4
<1>2. CASE Wake
  <2>1. getter.item \in Item /\ getter.orphan \in BOOLEAN
    BY <1>2 DEF Wake, GetState, GetterShape
  <2> QED BY <1>2, <2>1, TurnType DEF Wake
<1>3. CASE FinishPutBack
  <2>1. getter.item \in Item
    BY <1>3 DEF FinishPutBack, GetState, GetterShape
  <2>2. getter' \in GetState
    BY <1>3 DEF FinishPutBack, GetState, GetterPc
  <2> QED BY <1>3, <2>1, <2>2, EnqueueType DEF FinishPutBack
<1>4. CASE ResumeAfterLimit
  <2>1. getter' \in GetState
    BY <1>4 DEF ResumeAfterLimit, GetState, GetterPc
  <2> QED BY <1>4, <2>1 DEF ResumeAfterLimit
<1> QED BY <1>1, <1>2, <1>3, <1>4 DEF GetStep

\* mark_done leaves a scheduler of the right shape.
LEMMA MarkDoneType ==
  ASSUME SchedTypeOK, NEW u \in Urls, NEW n \in Nat, MarkDone(u, n)
  PROVE  SchedTypeOK'
<1> USE DEF SchedTypeOK
<1> DEFINE d == DomainOf[u]
           table == [domains EXCEPT ![d].pending = Decreased(@, n)]
           swept == Stale(table, tracked, PruneThreshold)
<1>1. d \in Domains
  BY SchedulerAssumption
<1>2. Decreased(domains[d].pending, n) \in Nat
  BY <1>1 DEF Decreased, Larger, DomainState
<1>3. table \in [Domains -> DomainState]
  BY <1>1, <1>2, TableType
<1>4. CASE d \in tracked
  <2>1. /\ domains' = Evict(table, swept)
        /\ tracked' = tracked \ swept
        /\ getter' = Orphaned(getter, swept)
        /\ UNCHANGED <<queue, blocked, urlsPerHour, hourlyCount, hourAge>>
    BY <1>4 DEF MarkDone
  <2> HIDE DEF table, swept
  <2> QED BY <1>3, <2>1, EvictType, OrphanedType
<1>5. CASE d \notin tracked
  BY <1>5 DEF MarkDone
<1> QED BY <1>4, <1>5

\* So does the passing of time.
LEMMA TickType ==
  ASSUME SchedTypeOK, Tick
  PROVE  SchedTypeOK'
<1> USE DEF SchedTypeOK
<1> DEFINE older(d) == [domains[d] EXCEPT !.since = IF @ < LongAgo THEN @ + 1 ELSE @]
<1>1. domains' \in [Domains -> DomainState]
  <2>1. ASSUME NEW d \in Domains PROVE older(d) \in DomainState
    <3>1. domains[d] \in DomainState /\ LongAgo \in Nat
      BY SchedulerAssumption DEF LongAgo
    <3>2. older(d).since \in 0 .. LongAgo
      BY <3>1 DEF DomainState
    <3>3. older(d) = [domains[d] EXCEPT !.since = older(d).since]
      BY <3>1 DEF DomainState
    <3> HIDE DEF older
    <3> QED BY <3>1, <3>2, <3>3 DEF DomainState
  <2>2. domains' = [d \in Domains |-> older(d)]
    BY DEF Tick
  <2> HIDE DEF older
  <2> QED BY <2>1, <2>2
<1>2. getter' \in GetState
  BY DEF Tick, GetState, Larger
<1>3. hourAge' \in 0 .. Hour
  BY SchedulerAssumption DEF Tick
<1> QED BY <1>1, <1>2, <1>3 DEF Tick

\* Nor does a turn of get_url hold an item it should not hold.
LEMMA TurnShape ==
  ASSUME NEW item \in Item, NEW keys, NEW rest, NEW orphan \in BOOLEAN,
         Turn(item, keys, rest, orphan)
  PROVE  GetterShape'
<1>1. CASE Return(item, keys, rest, orphan)
  BY <1>1 DEF Return, NoGet, GetterShape
<1>2. CASE PutBack(item, keys, rest) /\ Len(rest) < QueueSize
  BY <1>2 DEF PutBack, NoGet, GetterShape
<1>3. CASE PutBack(item, keys, rest) /\ ~(Len(rest) < QueueSize)
  <2>1. getter'.pc = "putback" /\ getter'.item = item
    BY <1>3 DEF PutBack, NoGet
  <2> QED BY <2>1, DomType DEF GetterShape
<1> QED BY <1>1, <1>2, <1>3 DEF Turn

\* No step of get_url does.
LEMMA GetStepShape ==
  ASSUME SchedTypeOK, GetterShape, GetStep
  PROVE  GetterShape'
<1>1. CASE Dequeue
  <2> DEFINE item == Head(queue)
             keys == tracked \cup {Dom(item)}
             rest == Tail(queue)
  <2>1. item \in Item /\ item # None
    BY <1>1, DomType DEF Dequeue, SchedTypeOK
  <2>2. CASE domains[Dom(item)].since >= Delay(Dom(item))
    <3>1. Turn(item, keys, rest, FALSE)
      BY <1>1, <2>2 DEF Dequeue
    <3> HIDE DEF item, keys, rest
    <3> QED BY <2>1, <3>1, TurnShape
  <2>3. CASE ~(domains[Dom(item)].since >= Delay(Dom(item)))
    <3>1. getter' = [pc |-> "sleeping", item |-> item,
                     wait |-> Delay(Dom(item)) - domains[Dom(item)].since,
                     orphan |-> FALSE]
      BY <1>1, <2>3 DEF Dequeue
    <3>2. getter'.pc = "sleeping" /\ getter'.item = item
      BY <3>1
    <3> HIDE DEF item
    <3> QED BY <2>1, <3>2 DEF GetterShape
  <2> QED BY <2>2, <2>3
<1>2. CASE Wake
  <2>1. getter.item \in Item
    BY <1>2 DEF Wake, GetterShape, SchedTypeOK, GetState
  <2>2. getter.orphan \in BOOLEAN
    BY DEF SchedTypeOK, GetState
  <2> QED BY <1>2, <2>1, <2>2, TurnShape DEF Wake
<1>3. CASE FinishPutBack
  BY <1>3 DEF FinishPutBack, GetterShape, SchedTypeOK, GetState
<1>4. CASE ResumeAfterLimit
  BY <1>4 DEF ResumeAfterLimit, GetterShape, SchedTypeOK, GetState
<1> QED BY <1>1, <1>2, <1>3, <1>4 DEF GetStep

\* The scheduler's state and the client's bookkeeping are of the right shape,
\* and get_url holds an item exactly while it waits with one.
LEMMA ShapeInit == ContractInit => ContractTypeOK /\ GetterShape
<1> SUFFICES ASSUME ContractInit PROVE ContractTypeOK /\ GetterShape
  OBVIOUS
<1>1. NewDomain \in DomainState
  BY SchedulerAssumption DEF NewDomain, DomainState, LongAgo
<1>2. SchedTypeOK
  BY <1>1, NoGetType, SchedulerAssumption DEF ContractInit, SchedInit, SchedTypeOK
<1>3. idleFor \in [Domains -> 0 .. LongAgo]
  BY SchedulerAssumption DEF ContractInit, LongAgo
<1> QED BY <1>2, <1>3 DEF ContractInit, SchedInit, ContractTypeOK, GetterShape, NoGet

\* Every step keeps the types and the shape of the task in get_url.
LEMMA ShapeStep ==
  ContractTypeOK /\ GetterShape /\ [ContractNext]_contractVars
    => ContractTypeOK' /\ GetterShape'
<1> SUFFICES ASSUME ContractTypeOK, GetterShape, [ContractNext]_contractVars
             PROVE  ContractTypeOK' /\ GetterShape'
  OBVIOUS
<1> USE DEF ContractTypeOK
<1>1. CASE Add
  <2>1. PICK c \in Callers, item \in Item : AddUrl(c, item)
    BY <1>1 DEF Add
  <2>2. SchedTypeOK'
    BY <2>1, AddUrlType
  <2>3. getter'.pc = getter.pc /\ getter'.item = getter.item
    BY <2>1, OrphanedType DEF AddUrl, RejectUrl, AcceptUrl, schedVars, SchedTypeOK
  <2> QED BY <1>1, <2>2, <2>3 DEF Add, GetterShape
<1>2. CASE Resume
  <2>1. PICK c \in Callers : FinishPut(c)
    BY <1>2 DEF Resume
  <2>2. blocked[c] \in Item
    BY <2>1 DEF FinishPut, SchedTypeOK
  <2>3. queue' \in Seq(Item) /\ blocked' \in [Callers -> Item \cup {None}]
    BY <2>1, <2>2, EnqueueType DEF FinishPut, SchedTypeOK
  <2> QED BY <1>2, <2>1, <2>3 DEF Resume, FinishPut, SchedTypeOK, GetterShape
<1>3. CASE StartGet
  <2>1. getter' = [NoGet EXCEPT !.pc = "getting"]
    BY <1>3 DEF StartGet, GetUrl
  <2>2. getter' \in GetState /\ getter'.pc = "getting" /\ getter'.item = None
    BY <2>1 DEF NoGet, GetState, GetterPc
  <2> QED BY <1>3, <2>2 DEF StartGet, GetUrl, SchedTypeOK, GetterShape
<1>4. CASE RunGet
  <2>1. SchedTypeOK'
    BY <1>4, GetStepType DEF RunGet
  <2>2. GetterShape'
    BY <1>4, GetStepShape DEF RunGet
  <2>3. inflight' \in [Domains -> Nat] /\ idleFor' \in [Domains -> 0 .. LongAgo]
        /\ last' \in Item \cup {None}
    <3>1. 0 \in 0 .. LongAgo
      BY SchedulerAssumption DEF LongAgo
    <3> QED BY <1>4, <3>1 DEF RunGet
  <2> QED BY <2>1, <2>2, <2>3
<1>5. ASSUME NEW u \in Urls, Finish(u) PROVE ContractTypeOK' /\ GetterShape'
  <2>1. SchedTypeOK'
    BY <1>5, MarkDoneType DEF Finish
  <2>2. getter'.pc = getter.pc /\ getter'.item = getter.item
    BY <1>5, OrphanedType DEF Finish, MarkDone, SchedTypeOK
  <2>3. inflight' \in [Domains -> Nat]
    <3>1. DomainOf[u] \in Domains
      BY SchedulerAssumption
    <3>2. inflight[DomainOf[u]] - 1 \in Nat
      BY <1>5, <3>1 DEF Finish
    <3>3. inflight' = [inflight EXCEPT ![DomainOf[u]] = inflight[DomainOf[u]] - 1]
      BY <1>5 DEF Finish
    <3> QED BY <3>1, <3>2, <3>3
  <2> QED BY <1>5, <2>1, <2>2, <2>3 DEF Finish, GetterShape
<1>6. CASE LearnDelay
  <2>1. PICK d \in Domains, x \in CrawlDelays : SetCrawlDelay(d, x)
    BY <1>6 DEF LearnDelay
  <2>2. Cap(x) \in Nat /\ Cap(x) <= MaxCrawlDelay
    BY SchedulerAssumption DEF Cap, Smaller
  <2>3. domains' \in [Domains -> DomainState]
    BY <2>1, <2>2, TableType DEF SetCrawlDelay, SchedTypeOK
  <2> QED BY <1>6, <2>1, <2>3 DEF LearnDelay, SetCrawlDelay, SchedTypeOK, GetterShape
<1>7. CASE ChangeRate
  BY <1>7 DEF ChangeRate, SetUrlsPerHour, SchedTypeOK, GetterShape
<1>8. CASE ContractElapse
  <2>1. SchedTypeOK'
    BY <1>8, TickType DEF ContractElapse
  <2>2. getter'.pc = getter.pc /\ getter'.item = getter.item
    BY <1>8 DEF ContractElapse, Tick, SchedTypeOK, GetState
  <2>3. idleFor' \in [Domains -> 0 .. LongAgo]
    BY <1>8, SchedulerAssumption DEF ContractElapse, LongAgo, Smaller
  <2> QED BY <1>8, <2>1, <2>2, <2>3 DEF ContractElapse, GetterShape
<1>9. CASE UNCHANGED contractVars
  BY <1>9 DEF contractVars, schedVars, SchedTypeOK, GetterShape
<1> QED
  BY <1>1, <1>2, <1>3, <1>4, <1>5, <1>6, <1>7, <1>8, <1>9 DEF ContractNext

\* The scheduler's state is of the right shape in every reachable state.
THEOREM ContractTypeCorrect == ContractSpec => []ContractTypeOK
<1> QED BY ShapeInit, ShapeStep, PTL DEF ContractSpec

-----------------------------------------------------------------------------
(* Counting the URLs of a domain. *)

Of(q, d) == {i \in DOMAIN q : Dom(q[i]) = d}
Blocked(b, d) == {c \in Callers : b[c] # None /\ Dom(b[c]) = d}
One(item, d) == IF Dom(item) = d THEN 1 ELSE 0

\* A domain has finitely many URLs in the queue.
LEMMA OfFinite ==
  ASSUME NEW q \in Seq(Item), NEW d
  PROVE  IsFiniteSet(Of(q, d)) /\ Cardinality(Of(q, d)) \in Nat
<1>1. Len(q) \in Nat /\ Of(q, d) \in SUBSET (1 .. Len(q))
  BY DEF Of
<1>2. IsFiniteSet(1 .. Len(q))
  BY <1>1, FS_Interval
<1> QED BY <1>1, <1>2, FS_Subset, FS_CardinalityType

\* What is put in the queue is one more URL of its domain.
LEMMA OfEnqueue ==
  ASSUME NEW q \in Seq(Item), NEW item \in Item, NEW d
  PROVE  Cardinality(Of(Enqueue(q, item), d)) = Cardinality(Of(q, d)) + One(item, d)
<1> DEFINE n == Len(q) + 1
           longer == Enqueue(q, item)
<1>1. /\ Len(q) \in Nat
      /\ DOMAIN q = 1 .. Len(q)
      /\ DOMAIN longer = 1 .. n
      /\ longer[n] = item
      /\ \A i \in 1 .. Len(q) : longer[i] = q[i]
  <2>1. longer \in Seq(Item) /\ Len(longer) = n
    BY EnqueueType
  <2>2. DOMAIN longer = 1 .. Len(longer)
    BY <2>1, LenProperties
  <2>3. longer[n] = item /\ \A i \in 1 .. Len(q) : longer[i] = q[i]
    BY EnqueueType
  <2>4. Len(q) \in Nat /\ DOMAIN q = 1 .. Len(q)
    OBVIOUS
  <2> HIDE DEF longer
  <2> QED BY <2>1, <2>2, <2>3, <2>4
<1> HIDE DEF longer
<1>2. n \notin Of(q, d)
  BY <1>1 DEF Of
<1>3. CASE Dom(item) = d
  <2>1. Of(longer, d) = Of(q, d) \cup {n}
    BY <1>1, <1>3 DEF Of
  <2> HIDE DEF n
  <2> QED BY <1>2, <1>3, <2>1, OfFinite, FS_AddElement DEF One, longer
<1>4. CASE Dom(item) # d
  <2>1. Of(longer, d) = Of(q, d)
    BY <1>1, <1>4 DEF Of
  <2> QED BY <1>4, <2>1, OfFinite DEF One, longer
<1> QED BY <1>3, <1>4

\* The first URL of the queue is one of its domain, and so are those behind it.
LEMMA OfTail ==
  ASSUME NEW q \in Seq(Item), q # <<>>, NEW d
  PROVE  Cardinality(Of(q, d)) = Cardinality(Of(Tail(q), d)) + One(Head(q), d)
<1> DEFINE t == Tail(q)
           S == Of(q, d) \ {1}
           next == [i \in Of(t, d) |-> i + 1]
<1>1. /\ Len(q) \in Nat \ {0}
      /\ DOMAIN q = 1 .. Len(q)
      /\ t \in Seq(Item)
      /\ DOMAIN t = 1 .. Len(q) - 1
      /\ \A i \in 1 .. Len(q) - 1 : t[i] = q[i + 1]
      /\ Head(q) = q[1]
  OBVIOUS
<1> HIDE DEF t
<1>2. \A i \in Of(t, d) : i \in Nat /\ i + 1 \in S
  BY <1>1 DEF Of
<1>3. next \in [Of(t, d) -> S]
  BY <1>2
<1>4. \A i, j \in Of(t, d) : next[i] = next[j] => i = j
  BY <1>2
<1>5. \A s \in S : \E i \in Of(t, d) : next[i] = s
  <2> SUFFICES ASSUME NEW s \in S PROVE \E i \in Of(t, d) : next[i] = s
    OBVIOUS
  <2>1. s \in 2 .. Len(q) /\ Dom(q[s]) = d
    BY <1>1 DEF Of
  <2>2. s - 1 \in Of(t, d)
    BY <1>1, <2>1 DEF Of
  <2> QED BY <2>1, <2>2
<1>6. ExistsBijection(Of(t, d), S)
  <2> HIDE DEF next, S
  <2>1. next \in Bijection(Of(t, d), S)
    BY <1>3, <1>4, <1>5, Fun_IsBij
  <2> QED BY <2>1 DEF ExistsBijection
<1>7. Cardinality(S) = Cardinality(Of(t, d))
  <2>1. IsFiniteSet(Of(t, d))
    BY <1>1, OfFinite
  <2> HIDE DEF S
  <2> QED BY <1>6, <2>1, FS_Bijection
<1>8. 1 \in Of(q, d) <=> Dom(Head(q)) = d
  BY <1>1 DEF Of
<1>9. Cardinality(S) = IF 1 \in Of(q, d) THEN Cardinality(Of(q, d)) - 1
                       ELSE Cardinality(Of(q, d))
  BY OfFinite, FS_RemoveElement
<1> HIDE DEF S
<1> QED BY <1>7, <1>8, <1>9, OfFinite DEF One, t

\* Finitely many callers wait with a URL of a domain.
LEMMA BlockedFinite ==
  ASSUME NEW b, NEW d
  PROVE  IsFiniteSet(Blocked(b, d)) /\ Cardinality(Blocked(b, d)) \in Nat
<1>1. Blocked(b, d) \in SUBSET Callers
  BY DEF Blocked
<1>2. IsFiniteSet(Blocked(b, d))
  BY <1>1, SchedulerAssumption, FS_Subset
<1> QED BY <1>2, FS_CardinalityType

\* A put that blocks is one more of them, and one less when it goes through.
LEMMA BlockedPut ==
  ASSUME NEW b \in [Callers -> Item \cup {None}], NEW c \in Callers, NEW item \in Item,
         b[c] = None, NEW d
  PROVE  Cardinality(Blocked([b EXCEPT ![c] = item], d)) = Cardinality(Blocked(b, d)) + One(item, d)
<1> DEFINE more == [b EXCEPT ![c] = item]
<1>1. item # None /\ c \notin Blocked(b, d)
  BY DomType DEF Blocked
<1>2. CASE Dom(item) = d
  <2>1. Blocked(more, d) = Blocked(b, d) \cup {c}
    BY <1>1, <1>2 DEF Blocked
  <2> HIDE DEF more
  <2> QED BY <1>1, <1>2, <2>1, BlockedFinite, FS_AddElement DEF One, more
<1>3. CASE Dom(item) # d
  <2>1. Blocked(more, d) = Blocked(b, d)
    BY <1>1, <1>3 DEF Blocked
  <2> QED BY <1>3, <2>1, BlockedFinite DEF One
<1> QED BY <1>2, <1>3

\* The put of a blocked caller that goes through takes its item out of the blocked ones.
LEMMA BlockedEnds ==
  ASSUME NEW b \in [Callers -> Item \cup {None}], NEW c \in Callers, b[c] # None, NEW d
  PROVE  Cardinality(Blocked([b EXCEPT ![c] = None], d)) + One(b[c], d) = Cardinality(Blocked(b, d))
<1> DEFINE less == [b EXCEPT ![c] = None]
<1>1. Blocked(less, d) = Blocked(b, d) \ {c}
  BY DEF Blocked
<1>2. c \in Blocked(b, d) <=> Dom(b[c]) = d
  BY DEF Blocked
<1>3. Cardinality(Blocked(b, d) \ {c}) = IF c \in Blocked(b, d)
                                        THEN Cardinality(Blocked(b, d)) - 1
                                        ELSE Cardinality(Blocked(b, d))
  BY BlockedFinite, FS_RemoveElement
<1>4. Cardinality(Blocked(b, d)) \in Nat
  BY BlockedFinite
<1>5. One(b[c], d) = IF c \in Blocked(b, d) THEN 1 ELSE 0
  BY <1>2 DEF One
<1> HIDE DEF less
<1>6. Cardinality(Blocked(less, d)) + One(b[c], d) = Cardinality(Blocked(b, d))
  BY <1>1, <1>3, <1>4, <1>5
<1> QED BY <1>6 DEF less

-----------------------------------------------------------------------------
(* The inductive invariant.  PendingExact and NothingEvictedInUse need each *)
(* other: an entry is evicted only when its count is 0, and the count is    *)
(* exact only because nothing counted is ever evicted.                     *)

HeldBy(item, d) == IF item # None /\ Dom(item) = d THEN 1 ELSE 0

\* The URLs of d in a queue, in blocked puts, held by get_url and in flight.
Outstanding(q, b, item, n, d) ==
  Cardinality(Of(q, d)) + Cardinality(Blocked(b, d)) + HeldBy(item, d) + n[d]

Exact == ContractTypeOK /\ GetterShape /\ PendingExact /\ NothingEvictedInUse

\* PendingExact in these terms.
LEMMA ExactIs ==
  /\ PendingExact <=> \A d \in Domains :
       domains[d].pending = Outstanding(queue, blocked, getter.item, inflight, d)
  /\ PendingExact' <=> \A d \in Domains :
       domains'[d].pending = Outstanding(queue', blocked', getter'.item, inflight', d)
BY DEF PendingExact, Outstanding, Queued, Waiting, Held, HeldBy, Of, Blocked

\* An eviction leaves every count as it was.
LEMMA EvictPending ==
  ASSUME NEW table \in [Domains -> DomainState], NEW S,
         \A e \in S : table[e].pending = 0,
         NEW d \in Domains
  PROVE  /\ Evict(table, S)[d].pending = table[d].pending
         /\ d \in S => Evict(table, S)[d] = NewDomain
         /\ d \notin S => Evict(table, S)[d] = table[d]
BY DEF Evict, NewDomain

\* Whatever is held, first in the queue or in flight is counted.
LEMMA InUse ==
  ASSUME Exact
  PROVE  /\ getter.item # None => domains[Dom(getter.item)].pending > 0
         /\ queue # <<>> => domains[Dom(Head(queue))].pending > 0
         /\ \A d \in Domains : inflight[d] > 0 => domains[d].pending > 0
<1>0. /\ queue \in Seq(Item) /\ inflight \in [Domains -> Nat]
      /\ getter.item \in Item \cup {None}
  BY DEF Exact, ContractTypeOK, SchedTypeOK, GetState
<1>1. ASSUME NEW d \in Domains
      PROVE  /\ domains[d].pending = Outstanding(queue, blocked, getter.item, inflight, d)
             /\ Cardinality(Of(queue, d)) \in Nat
             /\ Cardinality(Blocked(blocked, d)) \in Nat
             /\ HeldBy(getter.item, d) \in Nat
             /\ inflight[d] \in Nat
  BY <1>0, ExactIs, OfFinite, BlockedFinite DEF Exact, HeldBy
<1>2. getter.item # None => domains[Dom(getter.item)].pending > 0
  <2> SUFFICES ASSUME getter.item # None PROVE domains[Dom(getter.item)].pending > 0
    OBVIOUS
  <2> DEFINE d == Dom(getter.item)
  <2>1. d \in Domains /\ HeldBy(getter.item, d) = 1
    BY <1>0, DomType DEF HeldBy
  <2> HIDE DEF d
  <2>2. domains[d].pending > 0
    BY <1>1, <2>1 DEF Outstanding
  <2> QED BY <2>2 DEF d
<1>3. queue # <<>> => domains[Dom(Head(queue))].pending > 0
  <2> SUFFICES ASSUME queue # <<>> PROVE domains[Dom(Head(queue))].pending > 0
    OBVIOUS
  <2> DEFINE d == Dom(Head(queue))
  <2>1. d \in Domains /\ Tail(queue) \in Seq(Item)
    BY <1>0, DomType
  <2>2. Cardinality(Of(Tail(queue), d)) \in Nat
    BY <2>1, OfFinite
  <2>3. \A e : Cardinality(Of(queue, e)) = Cardinality(Of(Tail(queue), e)) + One(Head(queue), e)
    BY <1>0, OfTail
  <2>4. One(Head(queue), d) = 1
    BY DEF One
  <2>5. Cardinality(Of(queue, d)) = Cardinality(Of(Tail(queue), d)) + 1
    BY <2>3, <2>4
  <2> HIDE DEF d
  <2>6. Cardinality(Of(queue, d)) > 0
    BY <2>2, <2>5
  <2>7. domains[d].pending > 0
    BY <1>1, <2>1, <2>6 DEF Outstanding
  <2> QED BY <2>7 DEF d
<1>4. \A d \in Domains : inflight[d] > 0 => domains[d].pending > 0
  BY <1>1 DEF Outstanding
<1> QED BY <1>2, <1>3, <1>4

\* A turn of get_url with the item it took from the queue, or from its wait,
\* keeps the counts exact and evicts nothing in use.
LEMMA TurnExact ==
  ASSUME ContractTypeOK, NEW item \in Item, NEW keys \in SUBSET Domains,
         NEW rest \in Seq(Item),
         Turn(item, keys, rest, FALSE),
         domains[Dom(item)].pending > 0,
         \A d \in Domains \ keys : domains[d] = NewDomain,
         \A d \in Domains : domains[d].pending =
           Cardinality(Of(rest, d)) + Cardinality(Blocked(blocked, d)) + One(item, d) + inflight[d],
         getter'.pc = "idle" => inflight' = [inflight EXCEPT ![Dom(item)] = @ + 1],
         getter'.pc # "idle" => inflight' = inflight
  PROVE  PendingExact' /\ NothingEvictedInUse'
<1> DEFINE swept == IF HourOver THEN Stale(domains, keys, MaxTrackedDomains) ELSE {}
           table == Evict(domains, swept)
<1>0. /\ domains \in [Domains -> DomainState]
      /\ inflight \in [Domains -> Nat]
      /\ Dom(item) \in Domains /\ item # None
  BY DomType DEF ContractTypeOK, SchedTypeOK
<1>1. \A e \in swept : e \in keys /\ domains[e].pending = 0
  BY StaleIs
<1>2. Dom(item) \notin swept
  BY <1>1
<1>3. table \in [Domains -> DomainState]
  BY <1>0, EvictType
<1>4. \A d \in Domains : /\ table[d].pending = domains[d].pending
                         /\ d \in swept => table[d] = NewDomain
                         /\ d \notin swept => table[d] = domains[d]
  <2> HIDE DEF swept
  <2> QED BY <1>0, <1>1, EvictPending
<1>5. CASE Return(item, keys, rest, FALSE)
  <2>1. /\ domains' = [table EXCEPT ![Dom(item)].since = 0]
        /\ tracked' = keys \ swept
        /\ queue' = rest
        /\ getter' = NoGet
        /\ blocked' = blocked
    BY <1>2, <1>5 DEF Return
  <2> HIDE DEF swept, table
  <2>2. inflight' = [inflight EXCEPT ![Dom(item)] = @ + 1]
    BY <2>1 DEF NoGet
  <2>3. \A d \in Domains : domains'[d].pending = domains[d].pending
    BY <1>0, <1>3, <1>4, <2>1 DEF DomainState
  <2>4. \A d \in Domains : One(item, d) + inflight[d] = inflight'[d]
    BY <1>0, <2>2 DEF One
  <2>5. \A d \in Domains : HeldBy(getter'.item, d) = 0
    BY <2>1 DEF HeldBy, NoGet
  <2>6. \A d \in Domains : domains'[d].pending =
          Cardinality(Of(rest, d)) + Cardinality(Blocked(blocked, d)) + inflight'[d]
    <3> SUFFICES ASSUME NEW d \in Domains PROVE domains'[d].pending =
          Cardinality(Of(rest, d)) + Cardinality(Blocked(blocked, d)) + inflight'[d]
      OBVIOUS
    <3>1. /\ Cardinality(Of(rest, d)) \in Nat
          /\ Cardinality(Blocked(blocked, d)) \in Nat
          /\ One(item, d) \in Nat /\ inflight[d] \in Nat
      BY <1>0, OfFinite, BlockedFinite DEF One
    <3> QED BY <2>3, <2>4, <3>1
  <2>7. PendingExact'
    <3> SUFFICES ASSUME NEW d \in Domains
                 PROVE  domains'[d].pending = Outstanding(queue', blocked', getter'.item, inflight', d)
      BY ExactIs
    <3>1. /\ Cardinality(Of(rest, d)) \in Nat
          /\ Cardinality(Blocked(blocked, d)) \in Nat
          /\ inflight'[d] \in Nat
      BY <1>0, <2>2, OfFinite, BlockedFinite
    <3> QED BY <2>1, <2>5, <2>6, <3>1 DEF Outstanding
  <2>8. NothingEvictedInUse'
    <3>1. getter'.orphan = FALSE
      BY <2>1 DEF NoGet
    <3>2. Dom(item) \in keys
      BY <1>0 DEF NewDomain
    <3>3. ASSUME NEW d \in Domains \ tracked' PROVE domains'[d] = NewDomain
      <4>1. d # Dom(item)
        BY <1>2, <2>1, <3>2, <3>3
      <4>2. domains'[d] = table[d]
        BY <1>3, <2>1, <4>1
      <4> QED BY <1>4, <2>1, <3>3, <4>2
    <3> QED BY <3>1, <3>3 DEF NothingEvictedInUse
  <2> QED BY <2>7, <2>8
<1>6. CASE PutBack(item, keys, rest)
  <2>1. /\ domains' = table
        /\ tracked' = keys \ swept
        /\ blocked' = blocked
        /\ getter'.pc # "idle" /\ getter'.orphan = FALSE
    BY <1>6 DEF PutBack, NoGet
  <2> HIDE DEF swept, table
  <2>2. \A d \in Domains :
          Cardinality(Of(queue', d)) + HeldBy(getter'.item, d)
            = Cardinality(Of(rest, d)) + One(item, d)
    <3>1. CASE Len(rest) < QueueSize
      <4>1. queue' = Enqueue(rest, item) /\ getter'.item = None
        BY <1>6, <3>1 DEF PutBack, NoGet
      <4>2. \A d \in Domains : Cardinality(Of(queue', d)) = Cardinality(Of(rest, d)) + One(item, d)
        BY <4>1, OfEnqueue
      <4>3. \A d \in Domains : HeldBy(getter'.item, d) = 0
        BY <4>1 DEF HeldBy
      <4>4. \A d \in Domains : Cardinality(Of(rest, d)) \in Nat /\ One(item, d) \in Nat
        BY OfFinite DEF One
      <4> QED BY <4>2, <4>3, <4>4
    <3>2. CASE ~(Len(rest) < QueueSize)
      <4>1. queue' = rest /\ getter'.item = item
        BY <1>6, <3>2 DEF PutBack, NoGet
      <4>2. \A d \in Domains : HeldBy(getter'.item, d) = One(item, d)
        BY <1>0, <4>1 DEF HeldBy, One
      <4> QED BY <4>1, <4>2
    <3> QED BY <3>1, <3>2
  <2>3. PendingExact'
    <3> SUFFICES ASSUME NEW d \in Domains
                 PROVE  domains'[d].pending = Outstanding(queue', blocked', getter'.item, inflight', d)
      BY ExactIs
    <3>1. queue' \in Seq(Item)
      BY <1>6, EnqueueType DEF PutBack
    <3>2. /\ Cardinality(Of(rest, d)) \in Nat
          /\ Cardinality(Of(queue', d)) \in Nat
          /\ Cardinality(Blocked(blocked, d)) \in Nat
          /\ One(item, d) \in Nat
          /\ HeldBy(getter'.item, d) \in Nat
          /\ inflight[d] \in Nat
      BY <1>0, <3>1, OfFinite, BlockedFinite DEF One, HeldBy
    <3>3. domains'[d].pending = domains[d].pending
      BY <1>4, <2>1
    <3>4. domains[d].pending =
            Cardinality(Of(rest, d)) + Cardinality(Blocked(blocked, d)) + One(item, d) + inflight[d]
      OBVIOUS
    <3>5. Cardinality(Of(queue', d)) + HeldBy(getter'.item, d)
            = Cardinality(Of(rest, d)) + One(item, d)
      BY <2>2
    <3>6. blocked' = blocked /\ inflight' = inflight
      BY <2>1
    <3> QED BY <3>2, <3>3, <3>4, <3>5, <3>6 DEF Outstanding
  <2>4. NothingEvictedInUse'
    BY <1>4, <2>1 DEF NothingEvictedInUse
  <2> QED BY <2>3, <2>4
<1> QED BY <1>5, <1>6 DEF Turn

\* An eviction of entries that are not in use takes nothing from get_url.
LEMMA OrphanedNot ==
  ASSUME Exact, NEW S,
         \A e \in S : domains[e].pending = 0
  PROVE  Orphaned(getter, S).item = getter.item /\ Orphaned(getter, S).orphan = FALSE
<1>1. getter \in GetState /\ ~getter.orphan
  BY DEF Exact, ContractTypeOK, SchedTypeOK, NothingEvictedInUse
<1>2. ~(getter.item # None /\ Dom(getter.item) \in S)
  BY InUse
<1> QED BY <1>1, <1>2 DEF Orphaned, GetState

\* add_url keeps the counts exact.
LEMMA AddExact ==
  ASSUME Exact, NEW c \in Callers, NEW item \in Item, AddUrl(c, item), inflight' = inflight
  PROVE  PendingExact' /\ NothingEvictedInUse'
<1> DEFINE swept == SweptBeforeAdd
           table == Evict(domains, swept)
<1>0. /\ domains \in [Domains -> DomainState]
      /\ queue \in Seq(Item)
      /\ blocked \in [Callers -> Item \cup {None}]
      /\ inflight \in [Domains -> Nat]
      /\ Dom(item) \in Domains
      /\ PendingExact /\ NothingEvictedInUse
  BY DomType DEF Exact, ContractTypeOK, SchedTypeOK
<1>1. \A e \in swept : domains[e].pending = 0
  BY StaleIs DEF SweptBeforeAdd
<1> HIDE DEF swept
<1>2. table \in [Domains -> DomainState]
  BY <1>0, EvictType
<1>3. \A d \in Domains : /\ table[d].pending = domains[d].pending
                         /\ d \in swept => table[d] = NewDomain
                         /\ d \notin swept => table[d] = domains[d]
  BY <1>0, <1>1, EvictPending
<1>4. Orphaned(getter, swept).item = getter.item /\ Orphaned(getter, swept).orphan = FALSE
  BY <1>1, OrphanedNot
<1> HIDE DEF table
<1>5. CASE RejectUrl(c, item)
  <2>1. CASE UNCHANGED schedVars
    BY <1>0, <2>1 DEF schedVars, PendingExact, NothingEvictedInUse, Queued, Waiting, Held
  <2>2. CASE ~UNCHANGED schedVars
    <3>1. /\ domains' = table
          /\ tracked' = (tracked \ swept) \cup {Dom(item)}
          /\ getter' = Orphaned(getter, swept)
          /\ queue' = queue /\ blocked' = blocked
      BY <1>5, <2>2 DEF RejectUrl, swept, table
    <3>2. PendingExact'
      BY <1>0, <1>3, <1>4, <3>1, ExactIs
    <3>3. NothingEvictedInUse'
      BY <1>0, <1>3, <1>4, <3>1 DEF NothingEvictedInUse
    <3> QED BY <3>2, <3>3
  <2> QED BY <2>1, <2>2
<1>6. CASE AcceptUrl(c, item)
  <2>1. /\ domains' = [table EXCEPT ![Dom(item)].pending = @ + 1]
        /\ tracked' = (tracked \ swept) \cup {Dom(item)}
        /\ getter' = Orphaned(getter, swept)
        /\ blocked[c] = None
    BY <1>6 DEF AcceptUrl, swept, table
  <2>2. \A d \in Domains :
          Cardinality(Of(queue', d)) + Cardinality(Blocked(blocked', d))
            = Cardinality(Of(queue, d)) + Cardinality(Blocked(blocked, d)) + One(item, d)
    <3>0. \A d \in Domains : /\ Cardinality(Of(queue, d)) \in Nat
                             /\ Cardinality(Blocked(blocked, d)) \in Nat
                             /\ One(item, d) \in Nat
      BY <1>0, OfFinite, BlockedFinite DEF One
    <3>1. CASE Len(queue) < QueueSize
      <4>1. queue' = Enqueue(queue, item) /\ blocked' = blocked
        BY <1>6, <3>1 DEF AcceptUrl
      <4>2. \A d : Cardinality(Of(queue', d)) = Cardinality(Of(queue, d)) + One(item, d)
        BY <1>0, <4>1, OfEnqueue
      <4> QED BY <3>0, <4>1, <4>2
    <3>2. CASE ~(Len(queue) < QueueSize)
      <4>1. blocked' = [blocked EXCEPT ![c] = item] /\ queue' = queue
        BY <1>6, <3>2 DEF AcceptUrl
      <4>2. ASSUME NEW d
            PROVE  Cardinality(Blocked(blocked', d)) = Cardinality(Blocked(blocked, d)) + One(item, d)
        BY <1>0, <2>1, <4>1, BlockedPut
      <4>3. \A d : Of(queue', d) = Of(queue, d)
        BY <4>1
      <4> QED BY <3>0, <4>2, <4>3
    <3> QED BY <3>1, <3>2
  <2>3. \A d \in Domains : domains'[d].pending = domains[d].pending + One(item, d)
    BY <1>0, <1>2, <1>3, <2>1 DEF One, DomainState
  <2>4. PendingExact'
    <3> SUFFICES ASSUME NEW d \in Domains
                 PROVE  domains'[d].pending = Outstanding(queue', blocked', getter'.item, inflight', d)
      BY ExactIs
    <3>1. queue' \in Seq(Item)
      BY <1>0, <1>6, EnqueueType DEF AcceptUrl
    <3>2. /\ Cardinality(Of(queue, d)) \in Nat /\ Cardinality(Of(queue', d)) \in Nat
          /\ Cardinality(Blocked(blocked, d)) \in Nat /\ Cardinality(Blocked(blocked', d)) \in Nat
          /\ One(item, d) \in Nat /\ HeldBy(getter.item, d) \in Nat /\ inflight[d] \in Nat
      BY <1>0, <3>1, OfFinite, BlockedFinite DEF One, HeldBy
    <3>3. domains[d].pending = Outstanding(queue, blocked, getter.item, inflight, d)
      BY <1>0, ExactIs
    <3>4. getter'.item = getter.item
      BY <1>4, <2>1
    <3>5. Cardinality(Of(queue', d)) + Cardinality(Blocked(blocked', d))
            = Cardinality(Of(queue, d)) + Cardinality(Blocked(blocked, d)) + One(item, d)
      BY <2>2
    <3>6. domains'[d].pending = domains[d].pending + One(item, d)
      BY <2>3
    <3> QED BY <3>2, <3>3, <3>4, <3>5, <3>6 DEF Outstanding
  <2>5. NothingEvictedInUse'
    <3>1. ~getter'.orphan
      BY <1>4, <2>1
    <3>2. ASSUME NEW d \in Domains \ tracked' PROVE domains'[d] = NewDomain
      <4>1. d # Dom(item) /\ (d \notin tracked \/ d \in swept)
        BY <2>1, <3>2
      <4>2. domains'[d] = table[d]
        BY <1>2, <2>1, <4>1
      <4>3. d \notin tracked => domains[d] = NewDomain
        BY <1>0 DEF NothingEvictedInUse
      <4>4. /\ d \in swept => table[d] = NewDomain
            /\ d \notin swept => table[d] = domains[d]
        BY <1>3
      <4> QED BY <4>1, <4>2, <4>3, <4>4
    <3> QED BY <3>1, <3>2 DEF NothingEvictedInUse
  <2> QED BY <2>4, <2>5
<1> QED BY <1>5, <1>6 DEF AddUrl

\* So do a put that goes through, every step of get_url, and mark_done of a
\* URL in flight.
LEMMA PutExact ==
  ASSUME Exact, NEW c \in Callers, FinishPut(c), inflight' = inflight
  PROVE  PendingExact' /\ NothingEvictedInUse'
<1>0. /\ queue \in Seq(Item)
      /\ blocked \in [Callers -> Item \cup {None}]
      /\ inflight \in [Domains -> Nat]
      /\ PendingExact /\ NothingEvictedInUse
  BY DEF Exact, ContractTypeOK, SchedTypeOK
<1>1. /\ blocked[c] \in Item /\ blocked[c] # None
      /\ queue' = Enqueue(queue, blocked[c])
      /\ blocked' = [blocked EXCEPT ![c] = None]
      /\ UNCHANGED <<domains, tracked, getter>>
  BY <1>0 DEF FinishPut
<1>2. PendingExact'
  <2> SUFFICES ASSUME NEW d \in Domains
               PROVE  domains'[d].pending = Outstanding(queue', blocked', getter'.item, inflight', d)
    BY ExactIs
  <2>1. Cardinality(Of(queue', d)) = Cardinality(Of(queue, d)) + One(blocked[c], d)
    BY <1>0, <1>1, OfEnqueue
  <2>2. Cardinality(Blocked(blocked', d)) + One(blocked[c], d) = Cardinality(Blocked(blocked, d))
    BY <1>0, <1>1, BlockedEnds
  <2>3. /\ Cardinality(Of(queue, d)) \in Nat
        /\ Cardinality(Blocked(blocked', d)) \in Nat
        /\ One(blocked[c], d) \in Nat
        /\ HeldBy(getter.item, d) \in Nat /\ inflight[d] \in Nat
    BY <1>0, OfFinite, BlockedFinite DEF One, HeldBy
  <2>4. domains[d].pending = Outstanding(queue, blocked, getter.item, inflight, d)
    BY <1>0, ExactIs
  <2>5. domains' = domains /\ getter' = getter
    BY <1>1
  <2> QED BY <2>1, <2>2, <2>3, <2>4, <2>5 DEF Outstanding
<1> QED BY <1>0, <1>1, <1>2 DEF NothingEvictedInUse

\* Taking an item from the queue keeps the counts exact.
LEMMA DequeueExact ==
  ASSUME Exact, Dequeue,
         getter'.pc = "idle" => inflight' = [inflight EXCEPT ![Dom(Head(queue))] = @ + 1],
         getter'.pc # "idle" => inflight' = inflight
  PROVE  PendingExact' /\ NothingEvictedInUse'
<1> DEFINE item == Head(queue)
           rest == Tail(queue)
           keys == tracked \cup {Dom(item)}
<1>0. /\ queue \in Seq(Item) /\ queue # <<>>
      /\ inflight \in [Domains -> Nat]
      /\ tracked \subseteq Domains
      /\ PendingExact /\ NothingEvictedInUse /\ ContractTypeOK
  BY DEF Exact, ContractTypeOK, SchedTypeOK, Dequeue
<1>1. /\ item \in Item /\ rest \in Seq(Item)
      /\ Dom(item) \in Domains /\ item # None
  BY <1>0, DomType
<1>2. domains[Dom(item)].pending > 0
  BY <1>0, InUse
<1>3. getter.item = None
  BY DEF Exact, GetterShape, Dequeue
<1>4. \A d : Cardinality(Of(queue, d)) = Cardinality(Of(rest, d)) + One(item, d)
  BY <1>0, OfTail
<1>5. CASE domains[Dom(item)].since >= Delay(Dom(item))
  <2>1. Turn(item, keys, rest, FALSE)
    BY <1>5 DEF Dequeue
  <2>2. getter'.pc = "idle" => inflight' = [inflight EXCEPT ![Dom(item)] = @ + 1]
    OBVIOUS
  <2> HIDE DEF item, rest
  <2>3. keys \in SUBSET Domains
    BY <1>0, <1>1
  <2>4. \A d \in Domains \ keys : domains[d] = NewDomain
    BY <1>0 DEF NothingEvictedInUse
  <2> HIDE DEF keys
  <2>5. ASSUME NEW d \in Domains
        PROVE  domains[d].pending =
                 Cardinality(Of(rest, d)) + Cardinality(Blocked(blocked, d)) + One(item, d) + inflight[d]
    <3>1. domains[d].pending = Outstanding(queue, blocked, getter.item, inflight, d)
      BY <1>0, ExactIs
    <3>2. HeldBy(getter.item, d) = 0
      BY <1>3 DEF HeldBy
    <3>3. /\ Cardinality(Of(rest, d)) \in Nat /\ Cardinality(Blocked(blocked, d)) \in Nat
          /\ One(item, d) \in Nat /\ inflight[d] \in Nat
      BY <1>0, <1>1, OfFinite, BlockedFinite DEF One
    <3>4. Cardinality(Of(queue, d)) = Cardinality(Of(rest, d)) + One(item, d)
      BY <1>4
    <3> QED BY <3>1, <3>2, <3>3, <3>4 DEF Outstanding
  <2> QED BY <1>0, <1>1, <1>2, <2>1, <2>2, <2>3, <2>4, <2>5, TurnExact
<1>6. CASE ~(domains[Dom(item)].since >= Delay(Dom(item)))
  <2>1. /\ getter' = [pc |-> "sleeping", item |-> item,
                      wait |-> Delay(Dom(item)) - domains[Dom(item)].since, orphan |-> FALSE]
        /\ queue' = rest
        /\ tracked' = keys
        /\ domains' = domains /\ blocked' = blocked
    BY <1>6 DEF Dequeue
  <2>2. getter'.pc = "sleeping" /\ getter'.item = item /\ getter'.orphan = FALSE
    BY <2>1
  <2> HIDE DEF item, rest, keys
  <2>3. PendingExact'
    <3> SUFFICES ASSUME NEW d \in Domains
                 PROVE  domains'[d].pending = Outstanding(queue', blocked', getter'.item, inflight', d)
      BY ExactIs
    <3>1. domains[d].pending = Outstanding(queue, blocked, getter.item, inflight, d)
      BY <1>0, ExactIs
    <3>2. HeldBy(getter.item, d) = 0 /\ HeldBy(getter'.item, d) = One(item, d)
      BY <1>1, <1>3, <2>2 DEF HeldBy, One
    <3>3. /\ Cardinality(Of(rest, d)) \in Nat /\ Cardinality(Blocked(blocked, d)) \in Nat
          /\ One(item, d) \in Nat /\ inflight[d] \in Nat
      BY <1>0, <1>1, OfFinite, BlockedFinite DEF One
    <3>4. Cardinality(Of(queue, d)) = Cardinality(Of(rest, d)) + One(item, d)
      BY <1>4
    <3>5. inflight' = inflight /\ queue' = rest /\ blocked' = blocked /\ domains' = domains
      BY <2>1, <2>2
    <3> QED BY <3>1, <3>2, <3>3, <3>4, <3>5 DEF Outstanding
  <2>4. NothingEvictedInUse'
    BY <1>0, <2>1, <2>2 DEF NothingEvictedInUse, keys
  <2> QED BY <2>3, <2>4
<1> QED BY <1>5, <1>6

\* Waking from the politeness sleep keeps them exact.
LEMMA WakeExact ==
  ASSUME Exact, Wake,
         getter'.pc = "idle" => inflight' = [inflight EXCEPT ![Dom(getter.item)] = @ + 1],
         getter'.pc # "idle" => inflight' = inflight
  PROVE  PendingExact' /\ NothingEvictedInUse'
<1> DEFINE item == getter.item
<1>0. /\ queue \in Seq(Item)
      /\ inflight \in [Domains -> Nat]
      /\ tracked \in SUBSET Domains
      /\ PendingExact /\ NothingEvictedInUse /\ ContractTypeOK
      /\ getter \in GetState
  BY DEF Exact, ContractTypeOK, SchedTypeOK
<1>1. item \in Item /\ item # None /\ getter.orphan = FALSE
  BY <1>0 DEF Exact, GetterShape, Wake, GetState, NothingEvictedInUse
<1>2. domains[Dom(item)].pending > 0
  BY <1>1, InUse
<1>3. Turn(item, tracked, queue, FALSE)
  BY <1>1 DEF Wake
<1>4. ASSUME NEW d \in Domains
      PROVE  domains[d].pending =
               Cardinality(Of(queue, d)) + Cardinality(Blocked(blocked, d)) + One(item, d) + inflight[d]
  <2>1. domains[d].pending = Outstanding(queue, blocked, item, inflight, d)
    BY <1>0, ExactIs
  <2>2. HeldBy(item, d) = One(item, d)
    BY <1>1 DEF HeldBy, One
  <2>3. /\ Cardinality(Of(queue, d)) \in Nat /\ Cardinality(Blocked(blocked, d)) \in Nat
        /\ One(item, d) \in Nat /\ inflight[d] \in Nat
    BY <1>0, OfFinite, BlockedFinite DEF One
  <2> QED BY <2>1, <2>2, <2>3 DEF Outstanding
<1>5. \A d \in Domains \ tracked : domains[d] = NewDomain
  BY <1>0 DEF NothingEvictedInUse
<1>6. getter'.pc = "idle" => inflight' = [inflight EXCEPT ![Dom(item)] = @ + 1]
  OBVIOUS
<1> HIDE DEF item
<1> QED BY <1>0, <1>1, <1>2, <1>3, <1>4, <1>5, <1>6, TurnExact

\* So does the put of an item held back by the hourly limit.
LEMMA PutBackExact ==
  ASSUME Exact, FinishPutBack, inflight' = inflight
  PROVE  PendingExact' /\ NothingEvictedInUse'
<1>0. /\ queue \in Seq(Item)
      /\ inflight \in [Domains -> Nat]
      /\ PendingExact /\ NothingEvictedInUse
      /\ getter \in GetState
  BY DEF Exact, ContractTypeOK, SchedTypeOK
<1>1. getter.item \in Item /\ getter.item # None
  BY <1>0 DEF Exact, GetterShape, FinishPutBack, GetState
<1>2. /\ queue' = Enqueue(queue, getter.item)
      /\ getter'.item = None /\ getter'.orphan = getter.orphan
      /\ UNCHANGED <<domains, tracked, blocked>>
  BY <1>0 DEF FinishPutBack, GetState
<1>3. PendingExact'
  <2> SUFFICES ASSUME NEW d \in Domains
               PROVE  domains'[d].pending = Outstanding(queue', blocked', getter'.item, inflight', d)
    BY ExactIs
  <2>1. Cardinality(Of(queue', d)) = Cardinality(Of(queue, d)) + One(getter.item, d)
    BY <1>0, <1>1, <1>2, OfEnqueue
  <2>2. HeldBy(getter.item, d) = One(getter.item, d) /\ HeldBy(getter'.item, d) = 0
    BY <1>1, <1>2 DEF HeldBy, One
  <2>3. /\ Cardinality(Of(queue, d)) \in Nat /\ Cardinality(Blocked(blocked, d)) \in Nat
        /\ One(getter.item, d) \in Nat /\ inflight[d] \in Nat
    BY <1>0, OfFinite, BlockedFinite DEF One
  <2>4. domains[d].pending = Outstanding(queue, blocked, getter.item, inflight, d)
    BY <1>0, ExactIs
  <2>5. domains' = domains /\ blocked' = blocked
    BY <1>2
  <2> QED BY <2>1, <2>2, <2>3, <2>4, <2>5 DEF Outstanding
<1> QED BY <1>0, <1>2, <1>3 DEF NothingEvictedInUse

\* And mark_done of a URL in flight.
LEMMA FinishExact ==
  ASSUME Exact, NEW u \in Urls, Finish(u)
  PROVE  PendingExact' /\ NothingEvictedInUse'
<1> DEFINE e == DomainOf[u]
           table == [domains EXCEPT ![e].pending = Decreased(@, 1)]
           swept == Stale(table, tracked, PruneThreshold)
<1>0. /\ domains \in [Domains -> DomainState]
      /\ queue \in Seq(Item)
      /\ inflight \in [Domains -> Nat]
      /\ PendingExact /\ NothingEvictedInUse
      /\ e \in Domains
      /\ getter \in GetState
  BY SchedulerAssumption DEF Exact, ContractTypeOK, SchedTypeOK
<1>1. /\ inflight[e] > 0
      /\ inflight' = [inflight EXCEPT ![e] = @ - 1]
      /\ MarkDone(u, 1)
  BY DEF Finish
<1>2. domains[e].pending > 0
  BY <1>0, <1>1, InUse
<1>3. e \in tracked
  BY <1>0, <1>2 DEF NothingEvictedInUse, NewDomain
<1>4. /\ domains' = Evict(table, swept)
      /\ tracked' = tracked \ swept
      /\ getter' = Orphaned(getter, swept)
      /\ queue' = queue /\ blocked' = blocked
  BY <1>1, <1>3 DEF MarkDone
<1>5. Decreased(domains[e].pending, 1) = domains[e].pending - 1
      /\ Decreased(domains[e].pending, 1) \in Nat
  BY <1>0, <1>2 DEF Decreased, Larger, DomainState
<1>6. table \in [Domains -> DomainState]
  BY <1>0, <1>5, TableType
<1>7. \A d \in Domains : table[d].pending = IF d = e THEN domains[d].pending - 1 ELSE domains[d].pending
  BY <1>0, <1>5 DEF DomainState
<1>8. \A d \in swept : table[d].pending = 0
  <2> HIDE DEF table
  <2> QED BY StaleIs
<1>9. \A d \in Domains \ {e} : table[d] = domains[d]
  BY <1>0
<1> HIDE DEF e, table, swept
<1>10. \A d \in Domains : /\ domains'[d].pending = table[d].pending
                          /\ d \in swept => domains'[d] = NewDomain
                          /\ d \notin swept => domains'[d] = table[d]
  BY <1>4, <1>6, <1>8, EvictPending
<1>11. ASSUME NEW d \in Domains
       PROVE  /\ domains'[d].pending = Outstanding(queue, blocked, getter.item, inflight', d)
  <2>1. domains[d].pending = Outstanding(queue, blocked, getter.item, inflight, d)
    BY <1>0, ExactIs
  <2>2. inflight'[d] = IF d = e THEN inflight[d] - 1 ELSE inflight[d]
    BY <1>0, <1>1
  <2>3. /\ Cardinality(Of(queue, d)) \in Nat /\ Cardinality(Blocked(blocked, d)) \in Nat
        /\ HeldBy(getter.item, d) \in Nat /\ inflight[d] \in Nat
    BY <1>0, OfFinite, BlockedFinite DEF HeldBy
  <2>4. domains'[d].pending = IF d = e THEN domains[d].pending - 1 ELSE domains[d].pending
    BY <1>7, <1>10
  <2> QED BY <2>1, <2>2, <2>3, <2>4 DEF Outstanding
\* An item get_url holds keeps its domain's count positive after the step.
<1>12. ~(getter.item # None /\ Dom(getter.item) \in swept)
  <2> SUFFICES ASSUME getter.item # None, Dom(getter.item) \in swept PROVE FALSE
    OBVIOUS
  <2> DEFINE h == Dom(getter.item)
  <2>1. h \in Domains /\ HeldBy(getter.item, h) = 1
    BY <1>0, DomType DEF GetState, HeldBy
  <2>2. table[h].pending = 0
    BY <1>8
  <2>3. inflight'[h] \in Nat
    <3>1. inflight' \in [Domains -> Nat]
      BY ShapeStep DEF Exact, ContractTypeOK, ContractNext
    <3> QED BY <2>1, <3>1
  <2> HIDE DEF h
  <2>4. domains'[h].pending = Outstanding(queue, blocked, getter.item, inflight', h)
    BY <1>11, <2>1
  <2>5. Cardinality(Of(queue, h)) \in Nat /\ Cardinality(Blocked(blocked, h)) \in Nat
    BY <1>0, OfFinite, BlockedFinite
  <2>6. domains'[h].pending > 0
    BY <2>1, <2>3, <2>4, <2>5 DEF Outstanding
  <2> QED BY <1>10, <2>1, <2>2, <2>6
<1>13. getter'.item = getter.item /\ ~getter'.orphan
  BY <1>0, <1>4, <1>12 DEF Orphaned, GetState, NothingEvictedInUse
<1>14. PendingExact'
  BY <1>4, <1>11, <1>13, ExactIs
<1>15. ASSUME NEW d \in Domains \ tracked' PROVE domains'[d] = NewDomain
  <2>1. CASE d \in swept
    BY <1>10, <2>1
  <2>2. CASE d \notin swept
    <3>1. d \notin tracked /\ d # e
      BY <1>3, <1>4, <1>15, <2>2
    <3>2. domains'[d] = domains[d]
      BY <1>9, <1>10, <2>2, <3>1
    <3> QED BY <1>0, <3>1, <3>2 DEF NothingEvictedInUse
  <2> QED BY <2>1, <2>2
<1> QED BY <1>13, <1>14, <1>15 DEF NothingEvictedInUse

\* The inductive invariant holds initially: nothing is queued or pending.
LEMMA ExactInit == ContractInit => Exact
<1> SUFFICES ASSUME ContractInit PROVE Exact
  OBVIOUS
<1>1. ContractTypeOK /\ GetterShape
  BY ShapeInit
<1>2. /\ queue = <<>> /\ getter = NoGet
      /\ blocked = [c \in Callers |-> None]
      /\ inflight = [d \in Domains |-> 0]
      /\ domains = [d \in Domains |-> NewDomain]
  BY DEF ContractInit, SchedInit
<1>3. ASSUME NEW d \in Domains PROVE domains[d].pending = Outstanding(queue, blocked, getter.item, inflight, d)
  <2>1. Of(queue, d) = {} /\ Blocked(blocked, d) = {}
    BY <1>2 DEF Of, Blocked
  <2>2. HeldBy(getter.item, d) = 0 /\ inflight[d] = 0 /\ domains[d].pending = 0
    BY <1>2 DEF HeldBy, NoGet, NewDomain
  <2>3. Cardinality(Of(queue, d)) = 0 /\ Cardinality(Blocked(blocked, d)) = 0
    BY <2>1, FS_EmptySet
  <2> QED BY <2>2, <2>3 DEF Outstanding
<1>4. PendingExact
  BY <1>3, ExactIs
<1>5. NothingEvictedInUse
  BY <1>2 DEF NothingEvictedInUse, NoGet
<1> QED BY <1>1, <1>4, <1>5 DEF Exact

\* Every step of the contract keeps the inductive invariant.
LEMMA ExactStep == Exact /\ [ContractNext]_contractVars => Exact'
<1> SUFFICES ASSUME Exact, [ContractNext]_contractVars PROVE Exact'
  OBVIOUS
<1>0. ContractTypeOK' /\ GetterShape'
  BY ShapeStep DEF Exact
<1>1. CASE Add
  BY <1>0, <1>1, AddExact DEF Add, Exact
<1>2. CASE Resume
  BY <1>0, <1>2, PutExact DEF Resume, Exact
<1>3. CASE StartGet
  <2>1. getter'.item = None /\ getter.item = None /\ ~getter'.orphan
    BY <1>3 DEF StartGet, GetUrl, NoGet, Exact, GetterShape
  <2>2. UNCHANGED <<domains, tracked, queue, blocked, inflight>>
    BY <1>3 DEF StartGet, GetUrl
  <2> QED BY <1>0, <2>1, <2>2, ExactIs DEF Exact, NothingEvictedInUse
<1>4. CASE RunGet
  <2>0. getter'.pc # "idle" => inflight' = inflight
    BY <1>4 DEF RunGet, Returns
  <2>1. CASE Dequeue
    <3>1. getter'.pc = "idle" => inflight' = [inflight EXCEPT ![Dom(Head(queue))] = @ + 1]
      BY <1>4, <2>1 DEF RunGet, Returns, Dequeue
    <3> QED BY <1>0, <2>0, <2>1, <3>1, DequeueExact DEF Exact
  <2>2. CASE Wake
    <3>1. getter'.pc = "idle" => inflight' = [inflight EXCEPT ![Dom(getter.item)] = @ + 1]
      BY <1>4, <2>2 DEF RunGet, Returns, Wake
    <3> QED BY <1>0, <2>0, <2>2, <3>1, WakeExact DEF Exact
  <2>3. CASE FinishPutBack
    <3>1. inflight' = inflight
      BY <1>4, <2>3 DEF RunGet, Returns, FinishPutBack
    <3> QED BY <1>0, <2>3, <3>1, PutBackExact DEF Exact
  <2>4. CASE ResumeAfterLimit
    <3>1. getter \in GetState
      BY DEF Exact, ContractTypeOK, SchedTypeOK
    <3>2. getter'.item = getter.item /\ getter'.orphan = getter.orphan
      BY <2>4, <3>1 DEF ResumeAfterLimit, GetState
    <3>3. UNCHANGED <<domains, tracked, queue, blocked, inflight>>
      BY <1>4, <2>4 DEF RunGet, Returns, ResumeAfterLimit
    <3> QED BY <1>0, <3>2, <3>3, ExactIs DEF Exact, NothingEvictedInUse
  <2> QED BY <1>4, <2>1, <2>2, <2>3, <2>4 DEF RunGet, GetStep
<1>5. ASSUME NEW u \in Urls, Finish(u) PROVE Exact'
  BY <1>0, <1>5, FinishExact DEF Exact
<1>6. CASE LearnDelay
  <2>1. PICK e \in Domains, x \in CrawlDelays : SetCrawlDelay(e, x)
    BY <1>6 DEF LearnDelay
  <2>2. /\ domains' = [domains EXCEPT ![e].delay = Cap(x)]
        /\ tracked' = tracked \cup {e}
        /\ UNCHANGED <<queue, blocked, getter, inflight>>
    BY <1>6, <2>1 DEF LearnDelay, SetCrawlDelay
  <2>3. domains \in [Domains -> DomainState]
    BY DEF Exact, ContractTypeOK, SchedTypeOK
  <2>4. \A d \in Domains : /\ domains'[d].pending = domains[d].pending
                           /\ d # e => domains'[d] = domains[d]
    BY <2>2, <2>3 DEF DomainState
  <2>5. PendingExact'
    BY <2>2, <2>4, ExactIs DEF Exact
  <2> QED BY <1>0, <2>2, <2>4, <2>5 DEF Exact, NothingEvictedInUse
<1>7. CASE ChangeRate
  BY <1>0, <1>7, ExactIs DEF ChangeRate, SetUrlsPerHour, Exact, NothingEvictedInUse
<1>8. CASE ContractElapse
  <2>1. /\ domains \in [Domains -> DomainState] /\ getter \in GetState
    BY DEF Exact, ContractTypeOK, SchedTypeOK
  <2>2. /\ domains' = [d \in Domains |->
                         [domains[d] EXCEPT !.since = IF @ < LongAgo THEN @ + 1 ELSE @]]
        /\ getter'.item = getter.item /\ getter'.orphan = getter.orphan
        /\ UNCHANGED <<tracked, queue, blocked, inflight>>
    BY <1>8, <2>1 DEF ContractElapse, Tick, GetState
  <2>3. \A d \in Domains : /\ domains'[d].pending = domains[d].pending
                           /\ domains[d] = NewDomain => domains'[d] = NewDomain
    BY <2>1, <2>2, SchedulerAssumption DEF DomainState, NewDomain, LongAgo
  <2>4. PendingExact'
    BY <2>2, <2>3, ExactIs DEF Exact
  <2> QED BY <1>0, <2>2, <2>3, <2>4 DEF Exact, NothingEvictedInUse
<1>9. CASE UNCHANGED contractVars
  BY <1>0, <1>9, ExactIs DEF contractVars, schedVars, Exact, NothingEvictedInUse
<1> QED
  BY <1>1, <1>2, <1>3, <1>4, <1>5, <1>6, <1>7, <1>8, <1>9 DEF ContractNext

\* In every reachable state pending_count counts exactly the URLs of the
\* domain that are queued, in a put, held by get_url or in flight.
THEOREM PendingCorrect == ContractSpec => []PendingExact
<1>1. Exact => PendingExact
  BY DEF Exact
<1> QED BY <1>1, ExactInit, ExactStep, PTL DEF ContractSpec

\* No eviction, at add_url, mark_done or a new hour, takes the state of a
\* domain that has URLs outstanding, nor the entry get_url works on.
THEOREM EvictionSafe == ContractSpec => []NothingEvictedInUse
<1>1. Exact => NothingEvictedInUse
  BY DEF Exact
<1> QED BY <1>1, ExactInit, ExactStep, PTL DEF ContractSpec

-----------------------------------------------------------------------------
(* The per-domain limit. *)

\* No sequence of calls brings a domain over pending_per_domain.
THEOREM LimitKept == ContractSpec => []PendingWithinLimit
<1>1. ContractInit => PendingWithinLimit
  BY SchedulerAssumption DEF ContractInit, SchedInit, NewDomain, PendingWithinLimit
<1>2. Exact /\ Exact' /\ PendingWithinLimit /\ [ContractNext]_contractVars => PendingWithinLimit'
  <2> SUFFICES ASSUME Exact, Exact', PendingWithinLimit, [ContractNext]_contractVars, NEW d \in Domains
               PROVE  domains'[d].pending <= PendingPerDomain
    BY DEF PendingWithinLimit
  <2>0. /\ domains \in [Domains -> DomainState]
        /\ domains' \in [Domains -> DomainState]
        /\ domains[d].pending <= PendingPerDomain
        /\ NewDomain.pending = 0 /\ 0 <= PendingPerDomain
        /\ PendingPerDomain \in Nat
    <3>1. domains \in [Domains -> DomainState] /\ domains' \in [Domains -> DomainState]
      BY DEF Exact, ContractTypeOK, SchedTypeOK
    <3>2. domains[d].pending <= PendingPerDomain
      BY DEF PendingWithinLimit
    <3>3. PendingPerDomain \in Nat /\ 0 <= PendingPerDomain
      BY SchedulerAssumption
    <3>4. NewDomain.pending = 0
      BY DEF NewDomain
    <3> QED BY <3>1, <3>2, <3>3, <3>4
  <2>1. CASE Add
    <3>1. PICK c \in Callers, item \in Item : AddUrl(c, item)
      BY <2>1 DEF Add
    <3>0. Dom(item) \in Domains
      BY DomType
    <3> DEFINE table == Evict(domains, SweptBeforeAdd)
    <3>2. table \in [Domains -> DomainState]
      BY <2>0, EvictType
    <3>3. table[d].pending <= PendingPerDomain
      <4>1. table[d] = NewDomain \/ table[d] = domains[d]
        BY DEF Evict
      <4> HIDE DEF table
      <4> QED BY <2>0, <4>1
    <3>4. CASE RejectUrl(c, item)
      BY <2>0, <3>3, <3>4 DEF RejectUrl, schedVars
    <3>5. CASE AcceptUrl(c, item)
      <4>1. /\ domains' = [table EXCEPT ![Dom(item)].pending = @ + 1]
            /\ ~Full(table[Dom(item)].pending)
        BY <3>5 DEF AcceptUrl
      <4> HIDE DEF table
      <4>2. CASE d = Dom(item)
        <5>1. table[d].pending \in Nat /\ table[d].pending < PendingPerDomain
          BY <2>0, <3>2, <4>1, <4>2 DEF Full, DomainState
        <5>2. domains'[d].pending = table[d].pending + 1
          BY <3>2, <4>1, <4>2 DEF DomainState
        <5> QED BY <2>0, <5>1, <5>2
      <4>3. CASE d # Dom(item)
        BY <3>2, <3>3, <4>1, <4>3
      <4> QED BY <4>2, <4>3
    <3> QED BY <3>1, <3>4, <3>5 DEF AddUrl
  <2>2. CASE domains' = domains
    BY <2>0, <2>2
  <2>3. CASE RunGet
    <3>1. ASSUME NEW item \in Item, NEW keys, NEW rest, NEW orphan \in BOOLEAN,
                 Turn(item, keys, rest, orphan)
          PROVE  domains'[d].pending <= PendingPerDomain
      <4> DEFINE swept == IF HourOver THEN Stale(domains, keys, MaxTrackedDomains) ELSE {}
                 table == Evict(domains, swept)
      <4>1. table \in [Domains -> DomainState] /\ table[d].pending <= PendingPerDomain
        BY <2>0, EvictType DEF Evict
      <4>2. \/ domains' = table
            \/ domains' = [table EXCEPT ![Dom(item)].since = 0]
        BY <3>1 DEF Turn, Return, PutBack
      <4> HIDE DEF table
      <4>3. domains'[d].pending = table[d].pending
        BY <4>1, <4>2 DEF DomainState
      <4> QED BY <4>1, <4>3
    <3>2. CASE Dequeue
      <4> DEFINE item == Head(queue)
                 keys == tracked \cup {Dom(item)}
                 rest == Tail(queue)
      <4>1. item \in Item
        BY <3>2 DEF Dequeue, Exact, ContractTypeOK, SchedTypeOK
      <4>2. domains' = domains \/ Turn(item, keys, rest, FALSE)
        BY <3>2 DEF Dequeue
      <4> HIDE DEF item, keys, rest
      <4> QED BY <2>0, <3>1, <4>1, <4>2
    <3>3. CASE Wake
      <4>1. getter.item \in Item /\ getter.orphan \in BOOLEAN
        BY <3>3 DEF Wake, Exact, GetterShape, ContractTypeOK, SchedTypeOK, GetState
      <4> QED BY <3>1, <3>3, <4>1 DEF Wake
    <3>4. CASE FinishPutBack \/ ResumeAfterLimit
      BY <2>0, <3>4 DEF FinishPutBack, ResumeAfterLimit
    <3> QED BY <2>3, <3>2, <3>3, <3>4 DEF RunGet, GetStep
  <2>4. ASSUME NEW u \in Urls, Finish(u) PROVE domains'[d].pending <= PendingPerDomain
    <3> DEFINE e == DomainOf[u]
               table == [domains EXCEPT ![e].pending = Decreased(@, 1)]
               swept == Stale(table, tracked, PruneThreshold)
    <3>1. Decreased(domains[e].pending, 1) \in Nat
          /\ Decreased(domains[e].pending, 1) <= PendingPerDomain
      <4>1. e \in Domains /\ domains[e].pending <= PendingPerDomain /\ domains[e].pending \in Nat
        BY <2>0, SchedulerAssumption DEF PendingWithinLimit, DomainState
      <4> QED BY <2>0, <4>1 DEF Decreased, Larger
    <3>2. table[d].pending <= PendingPerDomain
      BY <2>0, <3>1 DEF DomainState
    <3>3. domains' = domains \/ domains' = Evict(table, swept)
      BY <2>4 DEF Finish, MarkDone
    <3> HIDE DEF table, swept
    <3> QED BY <2>0, <3>2, <3>3 DEF Evict
  <2>5. CASE LearnDelay
    BY <2>0, <2>5 DEF LearnDelay, SetCrawlDelay, DomainState
  <2>6. CASE ContractElapse
    BY <2>0, <2>6 DEF ContractElapse, Tick, DomainState
  <2> QED
    BY <2>1, <2>2, <2>3, <2>4, <2>5, <2>6
    DEF ContractNext, Resume, FinishPut, StartGet, GetUrl, ChangeRate, SetUrlsPerHour, contractVars, schedVars
<1> QED BY <1>1, <1>2, ExactInit, ExactStep, PTL DEF ContractSpec

-----------------------------------------------------------------------------
(* Politeness.  The table never thinks a request longer ago than it is, not *)
(* even after an eviction has forgotten it, and a wait that was computed    *)
(* once covers the delay, because the entry it was computed from cannot be  *)
(* evicted meanwhile.                                                       *)

Polite ==
  /\ \A d \in Domains : domains[d].since <= idleFor[d]
  /\ getter.pc = "sleeping" =>
       idleFor[Dom(getter.item)] + getter.wait >= Delay(Dom(getter.item))

\* An item held after a step is counted after it.
LEMMA HeldCounted ==
  ASSUME Exact', getter'.item # None
  PROVE  Dom(getter'.item) \in Domains /\ domains'[Dom(getter'.item)].pending > 0
<1> DEFINE h == Dom(getter'.item)
<1>1. /\ queue' \in Seq(Item) /\ inflight' \in [Domains -> Nat]
      /\ getter'.item \in Item
  BY DEF Exact, ContractTypeOK, SchedTypeOK, GetState
<1>2. h \in Domains /\ HeldBy(getter'.item, h) = 1
  BY <1>1, DomType DEF HeldBy
<1> HIDE DEF h
<1>3. domains'[h].pending = Outstanding(queue', blocked', getter'.item, inflight', h)
  BY <1>2, ExactIs DEF Exact
<1>4. Cardinality(Of(queue', h)) \in Nat /\ Cardinality(Blocked(blocked', h)) \in Nat
      /\ inflight'[h] \in Nat
  BY <1>1, <1>2, OfFinite, BlockedFinite
<1>5. domains'[h].pending > 0
  BY <1>2, <1>3, <1>4 DEF Outstanding
<1> QED BY <1>2, <1>5 DEF h

\* A step that leaves get_url alone and at most evicts is harmless.
LEMMA CalmStep ==
  ASSUME Exact, Exact', Polite, idleFor' = idleFor,
         getter'.pc = getter.pc, getter'.item = getter.item, getter'.wait = getter.wait,
         \A d \in Domains :
           \/ /\ domains[d].since > StaleAfter /\ domains'[d].since = LongAgo
              /\ ~(getter.item # None /\ Dom(getter.item) = d)
           \/ domains'[d].since = domains[d].since /\ domains'[d].delay = domains[d].delay
  PROVE  Polite'
<1>0. domains \in [Domains -> DomainState] /\ idleFor \in [Domains -> 0 .. LongAgo]
  BY DEF Exact, ContractTypeOK, SchedTypeOK
<1>1. ASSUME NEW d \in Domains PROVE domains'[d].since <= idleFor'[d]
  <2>1. domains[d].since <= idleFor[d] /\ domains[d].since \in 0 .. LongAgo
    BY <1>0 DEF Polite, DomainState
  <2>2. CASE domains'[d].since = LongAgo /\ domains[d].since > StaleAfter
    <3>1. domains[d].since = LongAgo
      BY <2>1, <2>2, SchedulerAssumption DEF LongAgo
    <3> QED BY <2>1, <2>2, <3>1
  <2>3. CASE domains'[d].since = domains[d].since
    BY <2>1, <2>3
  <2> QED BY <2>2, <2>3
<1> DEFINE h == Dom(getter.item)
<1>2. ASSUME getter.pc = "sleeping"
      PROVE  idleFor'[h] + getter'.wait >= Delay(h)'
  <2>1. getter.item # None
    BY <1>2 DEF Exact, GetterShape
  <2>2. h \in Domains
    BY <2>1, DomType DEF Exact, ContractTypeOK, SchedTypeOK, GetState
  <2>3. domains'[h].delay = domains[h].delay
    BY <2>1, <2>2
  <2>4. idleFor[h] + getter.wait >= Delay(h)
    BY <1>2 DEF Polite
  <2>5. h' = h
    OBVIOUS
  <2>6. Delay(h)' = Delay(h)
    BY <2>3, <2>5 DEF Delay
  <2> QED BY <2>4, <2>6
<1> QED BY <1>1, <1>2 DEF Polite

\* A turn of get_url sets both ages back together, or neither.
LEMMA TurnPolite ==
  ASSUME Exact, Polite, NEW item \in Item, NEW keys \in SUBSET Domains,
         NEW rest \in Seq(Item),
         Turn(item, keys, rest, FALSE),
         domains[Dom(item)].pending > 0,
         getter'.pc = "idle" => idleFor' = [idleFor EXCEPT ![Dom(item)] = 0],
         getter'.pc # "idle" => idleFor' = idleFor
  PROVE  Polite'
<1> DEFINE swept == IF HourOver THEN Stale(domains, keys, MaxTrackedDomains) ELSE {}
           table == Evict(domains, swept)
<1>0. /\ domains \in [Domains -> DomainState] /\ idleFor \in [Domains -> 0 .. LongAgo]
      /\ Dom(item) \in Domains
  BY DomType DEF Exact, ContractTypeOK, SchedTypeOK
<1>1. \A e \in swept : domains[e].pending = 0 /\ domains[e].since > StaleAfter
  BY StaleIs
<1>2. table \in [Domains -> DomainState]
  BY <1>0, EvictType
<1>3. ASSUME NEW d \in Domains PROVE table[d].since <= idleFor[d]
  <2>1. domains[d].since <= idleFor[d] /\ domains[d].since \in 0 .. LongAgo
    BY <1>0 DEF Polite, DomainState
  <2>2. CASE d \in swept
    <3>1. table[d] = NewDomain
      BY <2>2 DEF Evict
    <3>2. domains[d].since = LongAgo /\ NewDomain.since = LongAgo
      BY <1>1, <2>1, <2>2, SchedulerAssumption DEF NewDomain, LongAgo
    <3> HIDE DEF table
    <3> QED BY <2>1, <3>1, <3>2
  <2>3. CASE d \notin swept
    BY <2>1, <2>3 DEF Evict
  <2> QED BY <2>2, <2>3
<1>4. CASE Return(item, keys, rest, FALSE)
  <2>1. Dom(item) \notin swept
    BY <1>1
  <2>2. domains' = [table EXCEPT ![Dom(item)].since = 0] /\ getter' = NoGet
    BY <1>4, <2>1 DEF Return
  <2> HIDE DEF swept, table
  <2>3. getter'.pc = "idle"
    BY <2>2 DEF NoGet
  <2>4. ASSUME NEW d \in Domains PROVE domains'[d].since <= idleFor'[d]
    <3>1. CASE d = Dom(item)
      <4>1. domains'[d].since = 0 /\ idleFor'[d] = 0
        BY <1>0, <1>2, <2>2, <2>3, <3>1 DEF DomainState
      <4> QED BY <4>1
    <3>2. CASE d # Dom(item)
      BY <1>0, <1>2, <1>3, <2>2, <2>3, <3>2
    <3> QED BY <3>1, <3>2
  <2> QED BY <2>3, <2>4 DEF Polite
<1>5. CASE PutBack(item, keys, rest)
  <2>1. domains' = table /\ getter'.pc \in {"limited", "putback"}
    BY <1>5 DEF PutBack, NoGet
  <2> HIDE DEF swept, table
  <2> QED BY <1>3, <2>1 DEF Polite
<1> QED BY <1>4, <1>5 DEF Turn

\* Polite holds initially: no domain was ever asked.
LEMMA PoliteInit == ContractInit => Polite
<1> SUFFICES ASSUME ContractInit PROVE Polite
  OBVIOUS
<1>1. \A d \in Domains : domains[d].since = LongAgo /\ idleFor[d] = LongAgo
  BY DEF ContractInit, SchedInit, NewDomain
<1>2. getter.pc = "idle" /\ LongAgo \in Nat
  BY SchedulerAssumption DEF ContractInit, SchedInit, NoGet, LongAgo
<1> QED BY <1>1, <1>2 DEF Polite

\* add_url, mark_done and every other step keep the ages honest.
LEMMA AddPolite ==
  ASSUME Exact, Exact', Polite, Add
  PROVE  Polite'
<1>0. domains \in [Domains -> DomainState] /\ getter \in GetState
  BY DEF Exact, ContractTypeOK, SchedTypeOK
<1>1. PICK c \in Callers, item \in Item : AddUrl(c, item)
  BY DEF Add
<1>2. idleFor' = idleFor
  BY DEF Add
<1>3. CASE UNCHANGED schedVars
  BY <1>2, <1>3, CalmStep DEF schedVars
<1>4. CASE ~UNCHANGED schedVars
  <2> DEFINE swept == SweptBeforeAdd
             table == Evict(domains, swept)
  <2>1. /\ domains' = table \/ domains' = [table EXCEPT ![Dom(item)].pending = @ + 1]
        /\ getter' = Orphaned(getter, swept)
    BY <1>1, <1>4 DEF AddUrl, RejectUrl, AcceptUrl
  <2>2. \A d \in swept : domains[d].since > StaleAfter /\ domains[d].pending = 0
    BY StaleIs DEF SweptBeforeAdd
  <2> HIDE DEF swept
  <2>3. table \in [Domains -> DomainState]
    BY <1>0, EvictType
  <2>4. \A d \in Domains : table[d] = IF d \in swept THEN NewDomain ELSE domains[d]
    BY DEF Evict
  <2>5. getter'.pc = getter.pc /\ getter'.item = getter.item /\ getter'.wait = getter.wait
    BY <1>0, <2>1, OrphanedType
  <2> HIDE DEF table
  <2>6. ASSUME NEW d \in Domains
        PROVE  domains'[d].since = table[d].since /\ domains'[d].delay = table[d].delay
    BY <2>1, <2>3 DEF DomainState
  <2>7. ASSUME NEW d \in Domains
        PROVE  \/ /\ domains[d].since > StaleAfter /\ domains'[d].since = LongAgo
                  /\ ~(getter.item # None /\ Dom(getter.item) = d)
               \/ domains'[d].since = domains[d].since /\ domains'[d].delay = domains[d].delay
    <3>1. CASE d \in swept
      <4>1. ~(getter.item # None /\ Dom(getter.item) = d)
        BY <2>2, <3>1, InUse
      <4>2. domains'[d].since = LongAgo
        BY <2>4, <2>6, <3>1 DEF NewDomain
      <4> QED BY <2>2, <3>1, <4>1, <4>2
    <3>2. CASE d \notin swept
      BY <2>4, <2>6, <3>2
    <3> QED BY <3>1, <3>2
  <2> QED BY <1>2, <2>5, <2>7, CalmStep
<1> QED BY <1>3, <1>4

\* mark_done keeps Polite: what it evicts is old enough to wait for nothing.
LEMMA FinishPolite ==
  ASSUME Exact, Exact', Polite, NEW u \in Urls, Finish(u)
  PROVE  Polite'
<1> DEFINE e == DomainOf[u]
           table == [domains EXCEPT ![e].pending = Decreased(@, 1)]
           swept == Stale(table, tracked, PruneThreshold)
<1>0. domains \in [Domains -> DomainState] /\ getter \in GetState /\ e \in Domains
  BY SchedulerAssumption DEF Exact, ContractTypeOK, SchedTypeOK
<1>1. idleFor' = idleFor /\ MarkDone(u, 1)
  BY DEF Finish
<1>2. CASE UNCHANGED <<domains, getter>>
  BY <1>1, <1>2, CalmStep
<1>3. CASE domains' = Evict(table, swept) /\ getter' = Orphaned(getter, swept)
  <2>1. \A d \in Domains : table[d].since = domains[d].since /\ table[d].delay = domains[d].delay
    BY <1>0 DEF DomainState
  <2> HIDE DEF table
  <2>2. \A d \in swept : table[d].since > StaleAfter
    BY StaleIs
  <2> HIDE DEF swept
  <2>3. getter'.pc = getter.pc /\ getter'.item = getter.item /\ getter'.wait = getter.wait
    BY <1>0, <1>3, OrphanedType
  <2>4. ASSUME NEW d \in Domains
        PROVE  \/ /\ domains[d].since > StaleAfter /\ domains'[d].since = LongAgo
                  /\ ~(getter.item # None /\ Dom(getter.item) = d)
               \/ domains'[d].since = domains[d].since /\ domains'[d].delay = domains[d].delay
    <3>1. CASE d \in swept
      <4>1. domains'[d] = NewDomain
        BY <1>3, <3>1 DEF Evict
      <4>2. domains'[d].since = LongAgo /\ domains'[d].pending = 0
        BY <4>1 DEF NewDomain
      <4>3. ~(getter.item # None /\ Dom(getter.item) = d)
        BY <2>3, <4>2, HeldCounted
      <4> QED BY <2>1, <2>2, <3>1, <4>2, <4>3
    <3>2. CASE d \notin swept
      BY <1>3, <2>1, <3>2 DEF Evict
    <3> QED BY <3>1, <3>2
  <2> QED BY <1>1, <2>3, <2>4, CalmStep
<1> QED BY <1>1, <1>2, <1>3 DEF MarkDone

\* Time keeps Polite: the sleep runs down as fast as the time since the last return grows.
LEMMA ElapsePolite ==
  ASSUME Exact, Polite, ContractElapse
  PROVE  Polite'
<1>0. /\ domains \in [Domains -> DomainState] /\ idleFor \in [Domains -> 0 .. LongAgo]
      /\ getter \in GetState /\ LongAgo \in Nat
  BY SchedulerAssumption DEF Exact, ContractTypeOK, SchedTypeOK, LongAgo
<1>1. ASSUME NEW d \in Domains
      PROVE  /\ idleFor'[d] = IF idleFor[d] < LongAgo THEN idleFor[d] + 1 ELSE idleFor[d]
             /\ domains'[d].since = IF domains[d].since < LongAgo THEN domains[d].since + 1
                                    ELSE domains[d].since
             /\ domains'[d].delay = domains[d].delay
             /\ domains[d].since \in 0 .. LongAgo /\ idleFor[d] \in 0 .. LongAgo
  BY <1>0, SchedulerAssumption DEF ContractElapse, Tick, DomainState, Smaller, LongAgo
<1>2. ASSUME NEW d \in Domains PROVE domains'[d].since <= idleFor'[d]
  <2>1. domains[d].since <= idleFor[d]
    BY DEF Polite
  <2> QED BY <1>0, <1>1, <2>1
<1> DEFINE h == Dom(getter.item)
<1>3. ASSUME getter.pc = "sleeping"
      PROVE  idleFor'[h] + getter'.wait >= Delay(h)'
  <2>1. h \in Domains
    BY <1>0, <1>3, DomType DEF Exact, GetterShape, GetState
  <2>2. idleFor[h] + getter.wait >= Delay(h) /\ getter.wait \in Nat
    BY <1>0, <1>3 DEF Polite, GetState
  <2>3. h' = h
    BY <1>0 DEF ContractElapse, Tick, GetState
  <2>4. getter'.wait = Larger(getter.wait - 1, 0)
    BY <1>0, <1>3 DEF ContractElapse, Tick, GetState
  <2>5. Delay(h) \in 0 .. StaleAfter
    BY <1>0, <2>1, DelayType
  <2> HIDE DEF h
  <2>6. Delay(h)' = Delay(h)
    BY <1>1, <2>1, <2>3 DEF Delay
  <2> QED BY <1>1, <2>1, <2>2, <2>4, <2>5, <2>6, SchedulerAssumption DEF Larger, LongAgo
<1>4. getter'.pc = getter.pc /\ getter'.item = getter.item
  BY <1>0 DEF ContractElapse, Tick, GetState
<1> QED BY <1>2, <1>3, <1>4 DEF Polite

\* A run of get_url keeps Polite, whether it sleeps, puts back or returns.
LEMMA RunGetPolite ==
  ASSUME Exact, Exact', Polite, RunGet
  PROVE  Polite'
<1>0. /\ domains \in [Domains -> DomainState] /\ idleFor \in [Domains -> 0 .. LongAgo]
      /\ getter \in GetState /\ tracked \in SUBSET Domains /\ queue \in Seq(Item)
  BY DEF Exact, ContractTypeOK, SchedTypeOK
<1>1. getter'.pc # "idle" => idleFor' = idleFor
  BY DEF RunGet, Returns
<1>2. CASE Dequeue
  <2> DEFINE item == Head(queue)
             keys == tracked \cup {Dom(item)}
             rest == Tail(queue)
  <2>1. /\ item \in Item /\ rest \in Seq(Item) /\ keys \in SUBSET Domains
        /\ Dom(item) \in Domains
    BY <1>0, <1>2, DomType DEF Dequeue
  <2>2. domains[Dom(item)].pending > 0
    BY <1>2, InUse DEF Dequeue
  <2>3. getter'.pc = "idle" => idleFor' = [idleFor EXCEPT ![Dom(item)] = 0]
    BY <1>2 DEF RunGet, Returns, Dequeue
  <2>4. CASE domains[Dom(item)].since >= Delay(Dom(item))
    <3>1. Turn(item, keys, rest, FALSE)
      BY <1>2, <2>4 DEF Dequeue
    <3> HIDE DEF item, keys, rest
    <3> QED BY <1>1, <2>1, <2>2, <2>3, <3>1, TurnPolite
  <2>5. CASE ~(domains[Dom(item)].since >= Delay(Dom(item)))
    <3>1. /\ getter' = [pc |-> "sleeping", item |-> item,
                        wait |-> Delay(Dom(item)) - domains[Dom(item)].since, orphan |-> FALSE]
          /\ domains' = domains
      BY <1>2, <2>5 DEF Dequeue
    <3>2. /\ getter'.pc = "sleeping" /\ getter'.item = item
          /\ getter'.wait = Delay(Dom(item)) - domains[Dom(item)].since
      BY <3>1
    <3> DEFINE h == Dom(item)
    <3>3. idleFor' = idleFor
      BY <1>1, <3>2
    <3>4. domains[h].since <= idleFor[h] /\ domains[h].since \in 0 .. LongAgo /\ idleFor[h] \in 0 .. LongAgo
      BY <1>0, <2>1 DEF Polite, DomainState
    <3>5. Delay(h) \in 0 .. StaleAfter
      BY <1>0, <2>1, DelayType
    <3>6. getter'.wait = Delay(h) - domains[h].since /\ Dom(getter'.item) = h
      BY <3>2
    <3> HIDE DEF item, h
    <3>7. idleFor[h] + getter'.wait >= Delay(h)
      BY <3>4, <3>5, <3>6, SchedulerAssumption
    <3>8. Delay(Dom(getter.item))' = Delay(h)
      BY <3>1, <3>6 DEF Delay
    <3>9. \A d \in Domains : domains'[d].since <= idleFor'[d]
      BY <3>1, <3>3 DEF Polite
    <3> QED BY <3>3, <3>6, <3>7, <3>8, <3>9 DEF Polite
  <2> QED BY <2>4, <2>5
<1>3. CASE Wake
  <2> DEFINE item == getter.item
  <2>1. item \in Item /\ item # None /\ getter.orphan = FALSE
    BY <1>0, <1>3 DEF Exact, GetterShape, Wake, GetState, NothingEvictedInUse
  <2>2. domains[Dom(item)].pending > 0
    BY <2>1, InUse
  <2>3. Turn(item, tracked, queue, FALSE)
    BY <1>3, <2>1 DEF Wake
  <2>4. getter'.pc = "idle" => idleFor' = [idleFor EXCEPT ![Dom(item)] = 0]
    BY <1>3 DEF RunGet, Returns, Wake
  <2> HIDE DEF item
  <2> QED BY <1>0, <1>1, <2>1, <2>2, <2>3, <2>4, TurnPolite
<1>4. CASE FinishPutBack \/ ResumeAfterLimit
  <2>1. domains' = domains /\ getter'.pc \in {"limited", "getting"}
    BY <1>0, <1>4 DEF FinishPutBack, ResumeAfterLimit, GetState
  <2> QED BY <1>1, <2>1 DEF Polite
<1> QED BY <1>2, <1>3, <1>4 DEF RunGet, GetStep

\* Every step of the contract keeps Polite.
LEMMA PoliteStep == Exact /\ Exact' /\ Polite /\ [ContractNext]_contractVars => Polite'
<1> SUFFICES ASSUME Exact, Exact', Polite, [ContractNext]_contractVars PROVE Polite'
  OBVIOUS
<1>1. CASE Add
  BY <1>1, AddPolite
<1>2. CASE RunGet
  BY <1>2, RunGetPolite
<1>3. ASSUME NEW u \in Urls, Finish(u) PROVE Polite'
  BY <1>3, FinishPolite
<1>4. CASE ContractElapse
  BY <1>4, ElapsePolite
<1>5. CASE StartGet
  BY <1>5 DEF StartGet, GetUrl, NoGet, Polite
<1>6. CASE LearnDelay
  <2>1. domains \in [Domains -> DomainState]
    BY DEF Exact, ContractTypeOK, SchedTypeOK
  <2>2. getter.pc = "idle" /\ getter' = getter /\ idleFor' = idleFor
    BY <1>6 DEF LearnDelay, SetCrawlDelay
  <2>3. \A d \in Domains : domains'[d].since = domains[d].since
    BY <1>6, <2>1 DEF LearnDelay, SetCrawlDelay, DomainState
  <2> QED BY <2>2, <2>3 DEF Polite
<1>7. CASE UNCHANGED <<domains, getter, idleFor>>
  BY <1>7, CalmStep
<1> QED
  BY <1>1, <1>2, <1>3, <1>4, <1>5, <1>6, <1>7
  DEF ContractNext, Resume, FinishPut, ChangeRate, SetUrlsPerHour, contractVars, schedVars

\* get_url returns a URL of a domain only when the delay in force has passed
\* since it last returned one, whatever is added, evicted, finished or put
\* back meanwhile, and however small the thresholds are.
THEOREM PolitenessKept == ContractSpec => ContractPoliteness
<1>1. Exact /\ Polite /\ [ContractNext]_contractVars
        => [\A item \in Item : Returns(item) => idleFor[Dom(item)] >= Delay(Dom(item))]_contractVars
  <2> SUFFICES ASSUME Exact, Polite, [ContractNext]_contractVars, NEW item \in Item, Returns(item)
               PROVE  idleFor[Dom(item)] >= Delay(Dom(item))
    OBVIOUS
  <2>0. /\ domains \in [Domains -> DomainState] /\ idleFor \in [Domains -> 0 .. LongAgo]
        /\ getter \in GetState
        /\ Dom(item) \in Domains
    BY DomType DEF Exact, ContractTypeOK, SchedTypeOK
  <2>1. getter.pc \in {"getting", "sleeping"} /\ getter'.pc = "idle"
    BY DEF Returns
  <2>2. getter'.pc # getter.pc
    BY <2>1
  <2>3. GetStep
    <3>1. ASSUME NEW u \in Urls, Finish(u) PROVE getter'.pc = getter.pc
      BY <2>0, <3>1, OrphanedType DEF Finish, MarkDone
    <3>2. ASSUME Add PROVE getter'.pc = getter.pc
      BY <2>0, <3>2, OrphanedType DEF Add, AddUrl, RejectUrl, AcceptUrl, schedVars
    <3>3. ASSUME ContractElapse PROVE getter'.pc = getter.pc
      BY <2>0, <3>3 DEF ContractElapse, Tick, GetState
    <3> QED
      BY <2>1, <2>2, <3>1, <3>2, <3>3
      DEF ContractNext, RunGet, StartGet, GetUrl, Resume, FinishPut, LearnDelay, SetCrawlDelay,
          ChangeRate, SetUrlsPerHour, contractVars, schedVars
  <2>4. CASE Dequeue
    <3>1. item = Head(queue)
      BY <2>4 DEF Returns, Dequeue
    <3>2. domains[Dom(item)].since >= Delay(Dom(item))
      <4>1. ASSUME ~(domains[Dom(Head(queue))].since >= Delay(Dom(Head(queue))))
            PROVE  getter' = [pc |-> "sleeping", item |-> Head(queue),
                              wait |-> Delay(Dom(Head(queue))) - domains[Dom(Head(queue))].since,
                              orphan |-> FALSE]
        BY <2>4, <4>1 DEF Dequeue
      <4>2. domains[Dom(Head(queue))].since >= Delay(Dom(Head(queue)))
        BY <2>1, <4>1
      <4> QED BY <3>1, <4>2
    <3>3. domains[Dom(item)].since <= idleFor[Dom(item)]
          /\ domains[Dom(item)].since \in 0 .. LongAgo
      BY <2>0 DEF Polite, DomainState
    <3>4. Delay(Dom(item)) \in 0 .. StaleAfter
      BY <2>0, DelayType
    <3> QED BY <2>0, <3>2, <3>3, <3>4, SchedulerAssumption DEF LongAgo
  <2>5. CASE Wake
    <3>1. item = getter.item /\ getter.wait = 0
      BY <2>5 DEF Returns, Wake
    <3>2. idleFor[Dom(item)] + 0 >= Delay(Dom(item))
      BY <2>5, <3>1 DEF Polite, Wake
    <3> QED BY <2>0, <3>2, SchedulerAssumption DEF LongAgo
  <2>6. CASE FinishPutBack \/ ResumeAfterLimit
    BY <2>0, <2>1, <2>6 DEF FinishPutBack, ResumeAfterLimit, GetState
  <2> QED BY <2>3, <2>4, <2>5, <2>6 DEF GetStep
<1> QED BY <1>1, ExactInit, ExactStep, PoliteInit, PoliteStep, PTL DEF ContractSpec, ContractPoliteness

\* A full queue gets no room while get_url waits for some.
LEMMA StuckStays ==
  ASSUME ContractTypeOK, Stuck, [ContractNext]_contractVars
  PROVE  Stuck'
<1>1. /\ getter \in GetState /\ getter.pc = "putback"
      /\ Len(queue) \in Nat /\ QueueSize \in Nat /\ ~(Len(queue) < QueueSize)
  BY SchedulerAssumption DEF ContractTypeOK, SchedTypeOK, Stuck
<1>2. ~GetStep
  BY <1>1 DEF GetStep, Dequeue, Wake, FinishPutBack, ResumeAfterLimit
<1>3. ~Resume /\ ~StartGet /\ ~RunGet
  BY <1>1, <1>2 DEF Resume, FinishPut, StartGet, GetUrl, RunGet
<1>4. CASE Add
  BY <1>1, <1>4, OrphanedType DEF Add, AddUrl, RejectUrl, AcceptUrl, schedVars, Stuck
<1>5. ASSUME NEW u \in Urls, Finish(u) PROVE Stuck'
  BY <1>1, <1>5, OrphanedType DEF Finish, MarkDone, Stuck
<1>6. CASE LearnDelay \/ ChangeRate
  BY <1>1, <1>6 DEF LearnDelay, SetCrawlDelay, ChangeRate, SetUrlsPerHour, Stuck
<1>7. CASE ContractElapse
  <2>1. getter'.pc = getter.pc
    BY <1>1, <1>7 DEF ContractElapse, Tick, GetState
  <2> QED BY <1>1, <1>7, <2>1 DEF ContractElapse, Tick, Stuck
<1>8. CASE UNCHANGED contractVars
  BY <1>1, <1>8 DEF contractVars, schedVars, Stuck
<1> QED BY <1>3, <1>4, <1>5, <1>6, <1>7, <1>8 DEF ContractNext

\* A get_url that puts a URL back at the hourly limit and finds the queue full
\* never returns, unless it is cancelled: it is the only one that takes from the
\* queue, whatever is added, finished or learnt meanwhile and even when the limit
\* is lifted (Scheduler.get_url).
THEOREM PutBackIsForEver == ContractSpec => PutBackNeverEnds
<1>1. ContractTypeOK /\ Stuck /\ [ContractNext]_contractVars => Stuck'
  BY StuckStays
<1> QED BY <1>1, ContractTypeCorrect, PTL DEF ContractSpec, PutBackNeverEnds

(* A job in the middle of crawl_url has a URL; the offering of links ends  *)
(* in one of five places.                                                  *)
InCrawl(j) ==
  \/ j.pc \in {"taken", "robots", "sitemap", "fetch", "store"}
  \/ j.pc = "add" /\ j.then \notin Rounds

GoodJob(j) ==
  /\ j \in Job
  /\ j.pc = "add" => j.then \in {"idle", "fetch", "store"} \cup Rounds
  /\ InCrawl(j) => j.item \in Item

(* A page on its way to the index has been marked as seen: its URL in the  *)
(* database, whose marks are m, and its text in the SimHash index s.       *)
OnItsWay(j) == j.pc = "store" \/ (j.pc = "add" /\ j.then = "store")
OnFile(j, m, s) == OnItsWay(j) => m[NormOf[j.item.url]] # None /\ j.text \in s

JobsGood ==
  /\ job \in [Callers -> Job]
  /\ \A t \in Callers : GoodJob(job[t]) /\ OnFile(job[t], mark, near)

(* The SimHash index knows the texts of the marks, and besides only those  *)
(* of marks that were overwritten.                                         *)
MarksGood ==
  /\ mark \in [Urls -> Texts \cup {None}]
  /\ near \subseteq Texts
  /\ fate \in [Texts -> {"kept", "replaced", "forgotten"}]
  /\ Marked \subseteq near
  /\ \A x \in near : x \in Marked \/ fate[x] # "kept"

RowsGood == crawled \subseteq Rows /\ IndexedIsKnown

WinsTyped == wins \in [Texts -> [plain : 0 .. 2, other : BOOLEAN]]

(* A text that an unforced crawl took for new is known, if not forgotten.  *)
WinsAreTexts == \A x \in Texts : wins[x].plain > 0 => x \in near \/ fate[x] = "forgotten"

(* Every text that is known is that of a crawl of either kind.             *)
Explained(x) == wins[x].plain > 0 \/ wins[x].other

TextsExplained == \A x \in near : Explained(x)

WinsGood == WinsTyped /\ OneSuccessPerText /\ WinsAreTexts /\ TextsExplained

IInv == JobsGood /\ MarksGood /\ RowsGood /\ WinsGood

(* What waits in the priority queue are URLs.                              *)
NewsTyped == news \subseteq Urls

(* A step that forgets nothing: no URL, no text that was known, and no     *)
(* text that was forgotten before.                                         *)
Remembers ==
  /\ \A n \in Urls : mark[n] # None => mark'[n] # None
  /\ near \subseteq near'
  /\ \A x \in Texts : fate[x] = "forgotten" => fate'[x] = "forgotten"

LEMMA LoopFacts == Loop \in Callers /\ GetTimeout \in Nat
BY LoopAssumption

-----------------------------------------------------------------------------
(* Jobs *)

LEMMA IdleIsGood == GoodJob(Idle) /\ \A m, s : OnFile(Idle, m, s)
<1>1. QED
  BY DEF Idle, GoodJob, InCrawl, OnFile, OnItsWay, Job, JobPc, Rounds

LEMMA SeedingIsGood ==
  ASSUME NEW S \in SUBSET Urls, NEW pc \in Rounds \cup {"ended"}
  PROVE  /\ GoodJob([Idle EXCEPT !.pc = pc, !.seeds = S])
         /\ \A m, s : OnFile([Idle EXCEPT !.pc = pc, !.seeds = S], m, s)
<1>1. QED
  BY DEF Idle, GoodJob, InCrawl, OnFile, OnItsWay, Job, JobPc, Rounds

LEMMA TakenIsGood ==
  ASSUME NEW item \in Item, NEW force \in BOOLEAN
  PROVE  GoodJob(Taken(item, force)) /\ \A m, s : OnFile(Taken(item, force), m, s)
<1>1. QED
  BY DEF Taken, Idle, GoodJob, InCrawl, OnFile, OnItsWay, Job, JobPc, Rounds

(* A job goes to another place in crawl_url. *)
LEMMA MovedIsGood ==
  ASSUME NEW j, GoodJob(j), InCrawl(j), NEW pc \in {"robots", "sitemap", "fetch"}
  PROVE  /\ GoodJob([j EXCEPT !.pc = pc])
         /\ \A m, s : OnFile([j EXCEPT !.pc = pc], m, s)
<1>1. QED
  BY DEF GoodJob, InCrawl, OnFile, OnItsWay, Job, JobPc, Rounds

(* A job begins to offer links. *)
Offering(j, then, S) == [j EXCEPT !.pc = "add", !.then = then, !.todo = S]

LEMMA OfferingIsGood ==
  ASSUME NEW j, GoodJob(j), NEW S \in SUBSET Item,
         NEW then \in {"idle", "fetch", "store"} \cup Rounds,
         then \notin Rounds => InCrawl(j)
  PROVE  /\ GoodJob(Offering(j, then, S))
         /\ Offering(j, then, S).pc = "add"
         /\ Offering(j, then, S).then = then
         /\ Offering(j, then, S).item = j.item
         /\ Offering(j, then, S).text = j.text
<1>1. QED
  BY DEF Offering, GoodJob, InCrawl, Job, JobPc, Rounds

(* What is on file stays there. *)
LEMMA OnFileStays ==
  ASSUME NEW j, GoodJob(j), OnFile(j, mark, near), Remembers
  PROVE  OnFile(j, mark', near')
<1> SUFFICES ASSUME OnItsWay(j) PROVE mark'[NormOf[j.item.url]] # None /\ j.text \in near'
  BY DEF OnFile
<1>1. j.item \in Item
  BY DEF OnItsWay, GoodJob, InCrawl, Rounds
<1>2. NormOf[j.item.url] \in Urls
  BY <1>1, LoopAssumption DEF Item
<1>3. QED
  BY <1>2 DEF OnFile, Remembers

(* One job changes, and nothing is forgotten. *)
LEMMA JobChanges ==
  ASSUME JobsGood, NEW t \in Callers, NEW j, Become(t, j), GoodJob(j),
         OnFile(j, mark', near'), Remembers
  PROVE  JobsGood'
<1>1. job' = [job EXCEPT ![t] = j]
  BY DEF Become
<1>2. job' \in [Callers -> Job]
  BY <1>1 DEF JobsGood, GoodJob
<1>3. ASSUME NEW c \in Callers PROVE GoodJob(job'[c]) /\ OnFile(job'[c], mark', near')
  <2>1. CASE c = t
    <3>1. job'[c] = j
      BY <1>1, <2>1 DEF JobsGood
    <3>2. QED
      BY <3>1
  <2>2. CASE c # t
    <3>1. job'[c] = job[c] /\ GoodJob(job[c]) /\ OnFile(job[c], mark, near)
      BY <1>1, <2>2 DEF JobsGood
    <3>2. QED
      BY <3>1, OnFileStays
  <2>3. QED
    BY <2>1, <2>2
<1>4. QED
  BY <1>2, <1>3 DEF JobsGood

LEMMA JobsUnchanged ==
  ASSUME JobsGood, UNCHANGED <<job, mark, near>>
  PROVE  JobsGood'
<1>1. QED
  BY DEF JobsGood, GoodJob, OnFile, OnItsWay, InCrawl, Job

-----------------------------------------------------------------------------
(* Databases *)

(* A text that the two tests of content know is in the SimHash index. *)
LEMMA KnownIsNear == ASSUME MarksGood, NEW x PROVE ContentSeen(x) <=> x \in near
BY DEF MarksGood, ContentSeen

LEMMA DedupUnchanged ==
  ASSUME UNCHANGED dedup
  PROVE  Remembers /\ (MarksGood => MarksGood')
<1>1. Remembers
  BY DEF dedup, Remembers
<1>2. MarksGood => MarksGood'
  BY DEF dedup, MarksGood, Marked
<1>3. QED
  BY <1>1, <1>2

LEMMA RowsUnchanged ==
  ASSUME RowsGood, MarksGood, Remembers, crawled' = crawled
  PROVE  RowsGood'
<1>1. ASSUME NEW r \in crawled
      PROVE  HasSeen(r.url)' /\ (ContentSeen(r.text)' \/ fate'[r.text] = "forgotten")
  <2>1. r.url \in Urls /\ r.text \in Texts /\ NormOf[r.url] \in Urls
    BY LoopAssumption DEF RowsGood, Rows
  <2>2. HasSeen(r.url) /\ (r.text \in near \/ fate[r.text] = "forgotten")
    BY KnownIsNear DEF RowsGood, IndexedIsKnown
  <2>3. HasSeen(r.url)'
    BY <2>1, <2>2 DEF HasSeen, Remembers
  <2>4. r.text \in near' \/ fate'[r.text] = "forgotten"
    BY <2>1, <2>2 DEF Remembers
  <2>5. QED
    BY <2>3, <2>4 DEF ContentSeen
<1>2. QED
  BY <1>1 DEF RowsGood, IndexedIsKnown, Rows

LEMMA WinsUnchanged ==
  ASSUME WinsGood, UNCHANGED <<wins, near, fate>>
  PROVE  WinsGood'
<1>1. QED
  BY DEF WinsGood, WinsTyped, OneSuccessPerText, WinsAreTexts, TextsExplained, Explained

(* A step of one job that leaves the databases and the wins alone. *)
LEMMA OnlyJob ==
  ASSUME IInv, NEW t \in Callers, NEW j, Become(t, j), GoodJob(j), OnFile(j, mark, near),
         UNCHANGED <<dedup, crawled, wins>>
  PROVE  IInv'
<1>1. Remembers /\ MarksGood'
  BY DedupUnchanged DEF IInv
<1>2. UNCHANGED <<mark, near, fate>>
  BY DEF dedup
<1>3. JobsGood'
  BY <1>1, <1>2, JobChanges DEF IInv
<1>4. QED
  BY <1>1, <1>2, <1>3, RowsUnchanged, WinsUnchanged DEF IInv

(* The URL of a job in crawl_url, and the page that a fetch finds there. *)
LEMMA UrlOfJob ==
  ASSUME IInv, NEW t \in Callers, InCrawl(job[t])
  PROVE  /\ job[t] \in Job /\ job[t].item \in Item /\ GoodJob(job[t])
         /\ Url(t) \in Urls /\ NormOf[Url(t)] \in Urls
<1>1. job[t] \in Job /\ job[t].item \in Item /\ GoodJob(job[t])
  BY DEF IInv, JobsGood, GoodJob
<1>2. Url(t) \in Urls
  BY <1>1 DEF Url, Item
<1>3. QED
  BY <1>1, <1>2, LoopAssumption

LEMMA PageOfJob ==
  ASSUME IInv, NEW t \in Callers, NEW p, Finds(t, p)
  PROVE  /\ InCrawl(job[t]) /\ job[t] \in Job /\ job[t].item \in Item /\ GoodJob(job[t])
         /\ Url(t) \in Urls /\ NormOf[Url(t)] \in Urls
         /\ p.text \in Texts /\ p.text # None /\ p.canonical \in Urls
<1>1. InCrawl(job[t])
  BY DEF Finds, InCrawl
<1>2. /\ job[t] \in Job /\ job[t].item \in Item /\ GoodJob(job[t])
      /\ Url(t) \in Urls /\ NormOf[Url(t)] \in Urls
  BY <1>1, UrlOfJob
<1>3. p \in Pages
  BY <1>2 DEF Finds, Pages
<1>4. p.text # None /\ p.canonical \in Urls
  BY <1>2, LoopAssumption DEF Finds
<1>5. QED
  BY <1>1, <1>2, <1>3, <1>4 DEF Texts

LEMMA NoneIsNoText == None \notin Texts
<1>1. ASSUME NEW p \in Pages PROVE p.text # None
  BY LoopAssumption DEF Pages
<1>2. QED
  BY <1>1 DEF Texts

(* mark_seen forgets nothing of this process, and only the new text is     *)
(* added to what it knows.                                                 *)
LEMMA MarkRemembers ==
  ASSUME MarksGood, NEW u \in Urls, NEW x \in Texts, MarkSeen(u, x)
  PROVE  /\ Remembers /\ MarksGood'
         /\ mark'[NormOf[u]] = x /\ near' = near \cup {x}
         /\ \A y \in Texts : fate'[y] = "forgotten" => fate[y] = "forgotten"
<1> DEFINE n == NormOf[u]
           old == mark[n]
<1>1. n \in Urls /\ x # None
  BY LoopAssumption, NoneIsNoText
<1>2. /\ mark' = [mark EXCEPT ![n] = x]
      /\ near' = near \cup {x}
      /\ fate' = IF old \in Texts \ {x} /\ fate[old] = "kept"
                 THEN [fate EXCEPT ![old] = "replaced"] ELSE fate
  BY DEF MarkSeen
<1> HIDE DEF n
<1>3. /\ mark \in [Urls -> Texts \cup {None}] /\ near \subseteq Texts
      /\ fate \in [Texts -> {"kept", "replaced", "forgotten"}]
  BY DEF MarksGood
<1>4. /\ mark' \in [Urls -> Texts \cup {None}] /\ mark'[n] = x
      /\ \A m \in Urls \ {n} : mark'[m] = mark[m]
  BY <1>1, <1>2, <1>3
<1>5. /\ fate' \in [Texts -> {"kept", "replaced", "forgotten"}]
      /\ \A y \in Texts : (fate[y] # "kept" <=> fate'[y] # "kept") \/ y = old
      /\ \A y \in Texts : fate'[y] = "forgotten" <=> fate[y] = "forgotten"
      /\ old \in Texts \ {x} => fate'[old] # "kept"
      /\ \A y \in Texts : fate[y] # "kept" => fate'[y] # "kept"
  <2>1. CASE old \in Texts \ {x} /\ fate[old] = "kept"
    <3>1. fate' = [fate EXCEPT ![old] = "replaced"]
      BY <1>2, <2>1
    <3>2. QED
      BY <1>3, <2>1, <3>1
  <2>2. CASE ~(old \in Texts \ {x} /\ fate[old] = "kept")
    <3>1. fate' = fate
      BY <1>2, <2>2
    <3>2. QED
      BY <1>3, <2>2, <3>1
  <2>3. QED
    BY <2>1, <2>2
<1>6. Remembers
  BY <1>1, <1>2, <1>4, <1>5 DEF Remembers
<1>7. Marked' \subseteq near'
  BY <1>1, <1>2, <1>4 DEF Marked, MarksGood
<1>8. ASSUME NEW y \in near' PROVE y \in Marked' \/ fate'[y] # "kept"
  <2>1. x \in Marked'
    BY <1>1, <1>4 DEF Marked
  <2>2. CASE y # x
    <3>1. y \in near /\ y \in Texts
      BY <1>2, <1>3, <2>2
    <3>2. CASE fate[y] # "kept"
      BY <1>5, <3>1, <3>2
    <3>3. CASE y \in Marked
      <4>1. PICK m \in Urls : mark[m] = y
        BY <3>3 DEF Marked
      <4>2. CASE m = n
        BY <1>5, <2>2, <3>1, <4>1, <4>2
      <4>3. CASE m # n
        <5>1. mark'[m] = y /\ y # None
          BY <1>4, <4>1, <4>3, <3>1, NoneIsNoText
        <5>2. QED
          BY <5>1 DEF Marked
      <4>4. QED
        BY <4>2, <4>3
    <3>4. QED
      BY <3>1, <3>2, <3>3 DEF MarksGood
  <2>3. QED
    BY <2>1, <2>2
<1>9. MarksGood'
  BY <1>2, <1>3, <1>4, <1>5, <1>7, <1>8 DEF MarksGood
<1>10. QED
  BY <1>2, <1>4, <1>5, <1>6, <1>9 DEF n

(* A text is marked that is known already, or a win that explains it is    *)
(* recorded: the wins stay in order.                                       *)
LEMMA MarkKeepsWins ==
  ASSUME WinsGood, MarksGood, NEW u \in Urls, NEW x \in Texts, MarkSeen(u, x),
         \/ wins' = wins /\ x \in near
         \/ wins' = Recorded(x)
  PROVE  WinsGood'
<1>1. /\ near' = near \cup {x}
      /\ \A y \in Texts : fate[y] = "forgotten" => fate'[y] = "forgotten"
  BY MarkRemembers DEF Remembers
<1>2. wins \in [Texts -> [plain : 0 .. 2, other : BOOLEAN]] /\ near \subseteq Texts
  BY DEF WinsGood, WinsTyped, MarksGood
<1>3. CASE wins' = wins /\ x \in near
  BY <1>1, <1>2, <1>3
  DEF WinsGood, WinsTyped, OneSuccessPerText, WinsAreTexts, TextsExplained, Explained
<1>4. CASE wins' = Recorded(x)
  <2> DEFINE r == [wins[x] EXCEPT !.other = TRUE]
  <2>1. r \in [plain : 0 .. 2, other : BOOLEAN] /\ r.other /\ r.plain = wins[x].plain
    BY <1>2
  <2>2. wins' = [wins EXCEPT ![x] = r]
    BY <1>4 DEF Recorded
  <2> HIDE DEF r
  <2>3. /\ WinsTyped'
        /\ \A y \in Texts : wins'[y].plain = wins[y].plain
        /\ wins'[x].other
        /\ \A y \in Texts : Explained(y) => Explained(y)'
    BY <1>2, <2>1, <2>2 DEF WinsTyped, Explained
  <2>4. OneSuccessPerText' /\ WinsAreTexts'
    BY <1>1, <2>3 DEF WinsGood, OneSuccessPerText, WinsAreTexts
  <2>5. TextsExplained'
    BY <1>1, <1>2, <2>3 DEF WinsGood, TextsExplained, Explained
  <2>6. QED
    BY <2>3, <2>4, <2>5 DEF WinsGood
<1>5. QED
  BY <1>3, <1>4

-----------------------------------------------------------------------------
(* crawl_url: one lemma per step *)

(* Giving up on a URL without marking it leaves everything in order. *)
LEMMA GiveUpKeeps ==
  ASSUME IInv, NEW t \in Callers, NEW n, GiveUp(t, n), UNCHANGED durable
  PROVE  IInv'
<1>1. QED
  BY OnlyJob, IdleIsGood DEF GiveUp, durable, index

(* A move within crawl_url leaves everything in order. *)
LEMMA MoveKeeps ==
  ASSUME IInv, NEW t \in Callers, InCrawl(job[t]), NEW pc \in {"robots", "sitemap", "fetch"},
         Become(t, [job[t] EXCEPT !.pc = pc]), UNCHANGED <<dedup, index, wins>>
  PROVE  IInv'
<1>1. GoodJob(job[t])
  BY DEF IInv, JobsGood
<1>2. QED
  BY <1>1, MovedIsGood, OnlyJob DEF index

LEMMA StartKeeps ==
  ASSUME IInv, NEW t \in Callers, Start(t)
  PROVE  IInv'
<1>1. CASE \E n : GiveUp(t, n) /\ UNCHANGED durable
  BY <1>1, GiveUpKeeps
<1>2. CASE /\ Become(t, [job[t] EXCEPT !.pc = "robots"])
           /\ UNCHANGED <<durable, wins>>
  <2>1. InCrawl(job[t])
    BY DEF Start, InCrawl
  <2>2. QED
    BY <1>2, <2>1, MoveKeeps DEF durable
<1>3. QED
  BY <1>1, <1>2 DEF Start

LEMMA RobotsKeeps ==
  ASSUME IInv, NEW t \in Callers, Robots(t)
  PROVE  IInv'
<1>1. CASE \E n : GiveUp(t, n) /\ UNCHANGED durable
  BY <1>1, GiveUpKeeps
<1>2. CASE \E pc \in {"sitemap", "fetch"} :
             /\ Become(t, [job[t] EXCEPT !.pc = pc])
             /\ UNCHANGED <<dedup, index, wins>>
  <2>1. InCrawl(job[t])
    BY DEF Robots, InCrawl
  <2>2. QED
    BY <1>2, <2>1, MoveKeeps
<1>3. QED
  BY <1>1, <1>2 DEF Robots

LEMMA SitemapKeeps ==
  ASSUME IInv, NEW t \in Callers, Sitemap(t)
  PROVE  IInv'
<1>1. InCrawl(job[t])
  BY DEF Sitemap, InCrawl
<1>2. UNCHANGED <<dedup, crawled, wins>>
  BY DEF Sitemap, durable, index
<1>3. PICK found \in SUBSET SitemapOf[DomainOf[Url(t)]] :
        Become(t, [job[t] EXCEPT !.pc = "add", !.then = "fetch",
                     !.todo = [url : found, depth : {0}]])
  BY DEF Sitemap
<1> DEFINE S == [url : found, depth : {0}]
<1>4. Url(t) \in Urls /\ GoodJob(job[t])
  BY <1>1, UrlOfJob
<1>5. S \in SUBSET Item
  BY <1>4, LoopAssumption, SchedulerAssumption DEF Item
<1> HIDE DEF S
<1> DEFINE k == Offering(job[t], "fetch", S)
<1>6. GoodJob(k) /\ k.pc = "add" /\ k.then = "fetch"
  BY <1>1, <1>4, <1>5, OfferingIsGood
<1>7. OnFile(k, mark, near)
  BY <1>6 DEF OnFile, OnItsWay
<1> HIDE DEF k
<1>8. Become(t, k)
  BY <1>3 DEF k, S, Offering
<1>9. QED
  BY <1>2, <1>6, <1>7, <1>8, OnlyJob

LEMMA FetchFailsKeeps ==
  ASSUME IInv, NEW t \in Callers, FetchFails(t)
  PROVE  IInv'
<1>1. QED
  BY GiveUpKeeps DEF FetchFails

LEMMA FetchCanonicalKeeps ==
  ASSUME IInv, NEW t \in Callers, NEW p, FetchCanonical(t, p)
  PROVE  IInv'
<1> DEFINE S == {[url |-> p.canonical, depth |-> job[t].item.depth]}
           k == Offering(job[t], "idle", S)
<1>1. /\ InCrawl(job[t]) /\ GoodJob(job[t]) /\ job[t].item \in Item
      /\ Url(t) \in Urls /\ p.text \in Texts /\ p.canonical \in Urls
  BY PageOfJob DEF FetchCanonical
<1>2. S \in SUBSET Item
  BY <1>1 DEF Item
<1>3. GoodJob(k) /\ k.then = "idle" /\ k.pc = "add"
  BY <1>1, <1>2, OfferingIsGood
<1>4. /\ MarkSeen(Url(t), p.text) /\ wins' = Recorded(p.text) /\ crawled' = crawled
      /\ Become(t, k)
  BY DEF FetchCanonical, Offering, index
<1>5. OnFile(k, mark', near')
  BY <1>3 DEF OnFile, OnItsWay
<1>6. Remembers /\ MarksGood'
  BY <1>1, <1>4, MarkRemembers DEF IInv
<1> HIDE DEF k
<1>7. JobsGood'
  BY <1>3, <1>4, <1>5, <1>6, JobChanges DEF IInv
<1>8. RowsGood'
  BY <1>4, <1>6, RowsUnchanged DEF IInv
<1>9. WinsGood'
  BY <1>1, <1>4, MarkKeepsWins DEF IInv
<1>10. QED
  BY <1>6, <1>7, <1>8, <1>9 DEF IInv

LEMMA FetchDuplicateKeeps ==
  ASSUME IInv, NEW t \in Callers, NEW p, FetchDuplicate(t, p)
  PROVE  IInv'
<1>1. Url(t) \in Urls /\ p.text \in Texts
  BY PageOfJob DEF FetchDuplicate
<1>2. p.text \in near
  BY KnownIsNear DEF FetchDuplicate, IInv
<1>3. /\ MarkSeen(Url(t), p.text) /\ wins' = wins /\ crawled' = crawled
      /\ Become(t, Idle)
  BY DEF FetchDuplicate, GiveUp, index
<1>4. Remembers /\ MarksGood'
  BY <1>1, <1>3, MarkRemembers DEF IInv
<1>5. JobsGood'
  BY <1>3, <1>4, JobChanges, IdleIsGood DEF IInv
<1>6. RowsGood'
  BY <1>3, <1>4, RowsUnchanged DEF IInv
<1>7. WinsGood'
  BY <1>1, <1>2, <1>3, MarkKeepsWins DEF IInv
<1>8. QED
  BY <1>4, <1>5, <1>6, <1>7 DEF IInv

(* The links of a page that is crawled no deeper than allowed are items. *)
LEMMA ChildrenAreItems ==
  ASSUME NEW item \in Item
  PROVE  Children(item) \in SUBSET Item
<1>1. CASE Follows(item.depth)
  <2>1. item.depth \in 0 .. MaxDepth /\ item.depth < MaxDepth /\ MaxDepth \in Nat
    BY <1>1, LoopAssumption, SchedulerAssumption DEF Follows, Item
  <2>2. item.depth + 1 \in Depths
    BY <2>1, LoopAssumption
  <2>3. LinksOf[item.url] \subseteq Urls
    BY LoopAssumption DEF Item
  <2>4. QED
    BY <1>1, <2>2, <2>3 DEF Children, Item
<1>2. CASE ~Follows(item.depth)
  BY <1>2 DEF Children
<1>3. QED
  BY <1>1, <1>2

(* The win of an unforced crawl that takes a text for a new one: the first *)
(* one of the text, unless the text was forgotten, for it is not known.    *)
LEMMA NewTextKeepsWins ==
  ASSUME WinsGood, MarksGood, NEW u \in Urls, NEW x \in Texts, MarkSeen(u, x), x \notin near,
         wins' = [wins EXCEPT ![x].plain = Smaller(@ + 1, 2)]
  PROVE  WinsGood'
<1>1. /\ near' = near \cup {x}
      /\ \A y \in Texts : fate[y] = "forgotten" => fate'[y] = "forgotten"
  BY MarkRemembers DEF Remembers
<1>2. wins \in [Texts -> [plain : 0 .. 2, other : BOOLEAN]] /\ near \subseteq Texts
  BY DEF WinsGood, WinsTyped, MarksGood
<1> DEFINE n == Smaller(wins[x].plain + 1, 2)
           r == [wins[x] EXCEPT !.plain = n]
<1>3. wins[x].plain \in 0 .. 2
  BY <1>2
<1>4. n \in 1 .. 2 /\ (wins[x].plain = 0 => n = 1)
  BY <1>3 DEF Smaller
<1> HIDE DEF n
<1>5. r \in [plain : 0 .. 2, other : BOOLEAN] /\ r.plain = n
  BY <1>2, <1>4
<1>6. wins' = [wins EXCEPT ![x] = r]
  BY DEF n
<1> HIDE DEF r
<1>7. WinsTyped' /\ wins'[x].plain = n /\ \A y \in Texts : y # x => wins'[y] = wins[y]
  BY <1>2, <1>5, <1>6 DEF WinsTyped
<1>8. wins[x].plain = 0 \/ fate[x] = "forgotten"
  BY <1>3 DEF WinsGood, WinsAreTexts
<1>9. OneSuccessPerText'
  BY <1>1, <1>4, <1>7, <1>8 DEF WinsGood, OneSuccessPerText
<1>10. WinsAreTexts'
  BY <1>1, <1>7 DEF WinsGood, WinsAreTexts
<1>11. TextsExplained'
  BY <1>1, <1>2, <1>4, <1>7 DEF WinsGood, TextsExplained, Explained
<1>12. QED
  BY <1>7, <1>9, <1>10, <1>11 DEF WinsGood

LEMMA FetchPageKeeps ==
  ASSUME IInv, NEW t \in Callers, NEW p, FetchPage(t, p)
  PROVE  IInv'
<1> DEFINE S == Children(job[t].item)
           j == [job[t] EXCEPT !.text = p.text]
           k == Offering(j, "store", S)
<1>1. /\ InCrawl(job[t]) /\ GoodJob(job[t]) /\ job[t].item \in Item /\ job[t] \in Job
      /\ Url(t) \in Urls /\ p.text \in Texts
  BY PageOfJob DEF FetchPage
<1>2. S \in SUBSET Item
  BY <1>1, ChildrenAreItems
<1>3. GoodJob(j) /\ InCrawl(j) /\ j.item = job[t].item /\ j.text = p.text
  BY <1>1 DEF GoodJob, InCrawl, Job
<1> HIDE DEF j, S
<1>4. GoodJob(k) /\ k.item = job[t].item /\ k.text = p.text
  BY <1>2, <1>3, OfferingIsGood
<1>5. /\ MarkSeen(Url(t), p.text) /\ crawled' = crawled
      /\ Become(t, k)
  BY <1>1 DEF FetchPage, Offering, index, j, S, Job
<1>6. /\ Remembers /\ MarksGood'
      /\ mark'[NormOf[Url(t)]] = p.text /\ near' = near \cup {p.text}
  BY <1>1, <1>5, MarkRemembers DEF IInv
<1>7. OnFile(k, mark', near')
  BY <1>1, <1>4, <1>6, NoneIsNoText DEF OnFile, Url
<1>8. WinsGood'
  <2>1. CASE job[t].force
    BY <1>1, <1>5, <2>1, MarkKeepsWins DEF IInv, FetchPage
  <2>2. CASE ~job[t].force
    <3>1. p.text \notin near /\ wins' = [wins EXCEPT ![p.text].plain = Smaller(@ + 1, 2)]
      BY <2>2, KnownIsNear DEF FetchPage, IInv
    <3>2. QED
      BY <1>1, <1>5, <3>1, NewTextKeepsWins DEF IInv
  <2>3. QED
    BY <2>1, <2>2
<1> HIDE DEF k
<1>9. JobsGood'
  BY <1>4, <1>5, <1>6, <1>7, JobChanges DEF IInv
<1>10. RowsGood'
  BY <1>5, <1>6, RowsUnchanged DEF IInv
<1>11. QED
  BY <1>6, <1>8, <1>9, <1>10 DEF IInv

LEMMA FetchKeeps ==
  ASSUME IInv, NEW t \in Callers, Fetch(t)
  PROVE  IInv'
<1>1. QED
  BY FetchFailsKeeps, FetchCanonicalKeeps, FetchDuplicateKeeps, FetchPageKeeps DEF Fetch

LEMMA AddNextKeeps ==
  ASSUME IInv, NEW t \in Callers, AddNext(t)
  PROVE  IInv'
<1>1. PICK item \in job[t].todo : Become(t, [job[t] EXCEPT !.todo = @ \ {item}])
  BY DEF AddNext
<1> DEFINE k == [job[t] EXCEPT !.todo = job[t].todo \ {item}]
<1>2. GoodJob(job[t]) /\ OnFile(job[t], mark, near)
  BY DEF IInv, JobsGood
<1>3. GoodJob(k) /\ OnFile(k, mark, near)
  BY <1>2 DEF GoodJob, InCrawl, OnFile, OnItsWay, Job, JobPc, Rounds
<1> HIDE DEF k
<1>4. Become(t, k) /\ UNCHANGED <<dedup, crawled, wins>>
  BY <1>1 DEF AddNext, durable, index, k
<1>5. QED
  BY <1>3, <1>4, OnlyJob

LEMMA AddDoneKeeps ==
  ASSUME IInv, NEW t \in Callers, AddDone(t)
  PROVE  IInv'
<1>1. GoodJob(job[t]) /\ OnFile(job[t], mark, near) /\ job[t].pc = "add"
  BY DEF IInv, JobsGood, AddDone
<1>2. UNCHANGED <<dedup, crawled, wins>>
  BY DEF AddDone, durable, index
<1>3. CASE job[t].then = "idle"
  <2>1. Become(t, Idle)
    BY <1>3 DEF AddDone
  <2>2. QED
    BY <1>2, <2>1, IdleIsGood, OnlyJob
<1>4. CASE job[t].then # "idle"
  <2> DEFINE k == [job[t] EXCEPT !.pc = job[t].then]
  <2>1. Become(t, k)
    BY <1>4 DEF AddDone
  <2>2. GoodJob(k) /\ OnFile(k, mark, near)
    BY <1>1, <1>4 DEF GoodJob, InCrawl, OnFile, OnItsWay, Job, JobPc, Rounds
  <2> HIDE DEF k
  <2>3. QED
    BY <1>2, <2>1, <2>2, OnlyJob
<1>5. QED
  BY <1>3, <1>4

(* What an exception among the links leaves is no crawl. *)
LEMMA RaisedIsGood ==
  ASSUME NEW then
  PROVE  /\ GoodJob(AfterRaise(then)) /\ \A m, s : OnFile(AfterRaise(then), m, s)
         /\ AfterRaise(then).pc \in {"idle", "ended"} /\ AfterRaise(then).item = None
<1>1. QED
  BY DEF AfterRaise, Idle, GoodJob, InCrawl, OnFile, OnItsWay, Job, JobPc, Rounds

LEMMA AddRaisesKeeps ==
  ASSUME IInv, NEW t \in Callers, AddRaises(t)
  PROVE  IInv'
<1>1. QED
  BY RaisedIsGood, OnlyJob DEF AddRaises, durable, index

(* A page on its way to the index is on file. *)
LEMMA RowOfJob ==
  ASSUME IInv, NEW t \in Callers, OnItsWay(job[t])
  PROVE  /\ Row(t) \in Rows /\ HasSeen(Row(t).url) /\ ContentSeen(Row(t).text)
         /\ job[t].text \in near
<1>1. InCrawl(job[t])
  BY DEF InCrawl, OnItsWay, Rounds
<1>2. HasSeen(Url(t)) /\ job[t].text \in near /\ Url(t) \in Urls
  BY <1>1, UrlOfJob DEF IInv, JobsGood, OnFile, HasSeen, Url
<1>3. QED
  BY <1>2 DEF Row, Rows, IInv, MarksGood, ContentSeen

(* The row that is inserted is that of a page marked as seen. *)
LEMMA StoreKeeps ==
  ASSUME IInv, NEW t \in Callers, Store(t)
  PROVE  IInv'
<1>1. /\ Become(t, Idle)
      /\ UNCHANGED <<dedup, wins>>
      /\ crawled' = crawled \/ crawled' = crawled \cup {Row(t)}
  BY DEF Store, index
<1>2. Remembers /\ MarksGood' /\ UNCHANGED <<mark, near, fate>>
  BY <1>1, DedupUnchanged DEF IInv, dedup
<1>3. JobsGood'
  BY <1>1, <1>2, JobChanges, IdleIsGood DEF IInv
<1>4. OnItsWay(job[t])
  BY DEF Store, OnItsWay
<1>5. Row(t) \in Rows /\ HasSeen(Row(t).url) /\ ContentSeen(Row(t).text)
  BY <1>4, RowOfJob
<1>6. RowsGood'
  <2>1. crawled' \subseteq Rows
    BY <1>1, <1>5 DEF IInv, RowsGood
  <2>2. ASSUME NEW r \in crawled'
        PROVE  HasSeen(r.url) /\ (ContentSeen(r.text) \/ fate[r.text] = "forgotten")
    BY <1>1, <1>5, <2>2 DEF IInv, RowsGood, IndexedIsKnown
  <2>3. ASSUME NEW r \in crawled'
        PROVE  HasSeen(r.url)' /\ (ContentSeen(r.text) \/ fate[r.text] = "forgotten")'
    BY <1>2, <2>2, <2>3 DEF HasSeen, ContentSeen, Marked
  <2>4. QED
    BY <2>1, <2>3 DEF RowsGood, IndexedIsKnown, Rows
<1>7. WinsGood'
  BY <1>1, <1>2, WinsUnchanged DEF IInv
<1>8. QED
  BY <1>2, <1>3, <1>6, <1>7 DEF IInv

LEMMA CrawlStepKeeps ==
  ASSUME IInv, NEW t \in Callers, CrawlStep(t)
  PROVE  IInv'
<1>1. QED
  BY StartKeeps, RobotsKeeps, SitemapKeeps, FetchKeeps, AddNextKeeps, AddDoneKeeps,
     AddRaisesKeeps, StoreKeeps
  DEF CrawlStep

-----------------------------------------------------------------------------
(* The tasks, the restart and the clock *)

LEMMA CallKeeps ==
  ASSUME IInv, NEW t \in Direct, Call(t)
  PROVE  IInv'
<1>1. PICK item \in [url : Urls, depth : CallDepths], force \in Forces :
        Become(t, Taken(item, force))
  BY DEF Call
<1>2. force \in BOOLEAN /\ t \in Callers /\ item \in Item
  BY LoopAssumption DEF Direct, Item
<1>3. UNCHANGED <<dedup, crawled, wins>>
  BY DEF Call, durable, index
<1>4. QED
  BY <1>1, <1>2, <1>3, TakenIsGood, OnlyJob

(* The loop takes up the crawl of a URL. *)
LEMMA LoopTakes ==
  ASSUME IInv, NEW item \in Item, Become(Loop, Taken(item, FALSE)),
         UNCHANGED <<dedup, crawled, wins>>
  PROVE  IInv'
<1>1. Loop \in Callers
  BY LoopAssumption
<1>2. QED
  BY <1>1, TakenIsGood, OnlyJob

LEMMA SameJobs ==
  ASSUME IInv, UNCHANGED <<job, dedup, crawled, wins>>
  PROVE  IInv'
<1>1. Remembers /\ MarksGood' /\ UNCHANGED <<mark, near, fate>>
  BY DedupUnchanged DEF IInv, dedup
<1>2. QED
  BY <1>1, JobsUnchanged, RowsUnchanged, WinsUnchanged DEF IInv

LEMMA SeedNextKeeps ==
  ASSUME IInv, SeedNext
  PROVE  IInv'
<1>1. Loop \in Callers /\ Seeds \subseteq Urls
  BY LoopAssumption
<1> DEFINE round == job[Loop].pc
<1>2. GoodJob(job[Loop]) /\ round \in Rounds /\ job[Loop].seeds \subseteq Urls
  BY <1>1 DEF IInv, JobsGood, SeedNext, GoodJob, Job
<1>3. UNCHANGED <<dedup, crawled, wins>>
  BY DEF SeedNext, durable, index
<1>4. PICK s \in job[Loop].seeds :
        \/ Become(Loop, [job[Loop] EXCEPT !.seeds = job[Loop].seeds \ {s}])
        \/ Become(Loop, Offering([job[Loop] EXCEPT !.seeds = job[Loop].seeds \ {s}],
                                 job[Loop].pc, [url : LinksOf[s], depth : {1}]))
  BY DEF SeedNext, Offering
<1> DEFINE j == [job[Loop] EXCEPT !.seeds = job[Loop].seeds \ {s}]
           S == [url : LinksOf[s], depth : {1}]
           k == Offering(j, round, S)
<1>5. GoodJob(j) /\ OnFile(j, mark, near)
  BY <1>2 DEF GoodJob, InCrawl, OnFile, OnItsWay, Job, JobPc, Rounds
<1>6. S \in SUBSET Item
  <2>1. s \in Urls /\ 1 \in Depths
    BY <1>2, LoopAssumption, SchedulerAssumption
  <2>2. LinksOf[s] \subseteq Urls
    BY <2>1, LoopAssumption
  <2>3. QED
    BY <2>1, <2>2 DEF Item
<1> HIDE DEF j, S, round
<1>7. GoodJob(k) /\ k.then = round /\ k.pc = "add"
  BY <1>2, <1>5, <1>6, OfferingIsGood
<1>8. OnFile(k, mark, near)
  BY <1>2, <1>7 DEF OnFile, OnItsWay, Rounds
<1> HIDE DEF k
<1>9. Become(Loop, j) \/ Become(Loop, k)
  BY <1>4 DEF j, k, S, round
<1>10. QED
  BY <1>1, <1>3, <1>5, <1>7, <1>8, <1>9, OnlyJob

LEMMA LoopKeeps ==
  ASSUME IInv, NewsTyped, LoopStep
  PROVE  IInv'
<1>1. Loop \in Callers /\ Seeds \in SUBSET Urls
  BY LoopAssumption
<1>2. CASE SeedNext
  BY <1>2, SeedNextKeeps
<1>3. CASE SeedDone
  BY <1>1, <1>3, IdleIsGood, OnlyJob DEF SeedDone, durable, index
<1>4. CASE LoopGet
  BY <1>4, SameJobs DEF LoopGet, durable, index
<1>5. CASE LoopRunGet
  <2>1. UNCHANGED <<dedup, crawled, wins>>
    BY <1>5 DEF LoopRunGet, durable, index
  <2>2. CASE UNCHANGED job
    BY <2>1, <2>2, SameJobs
  <2>3. CASE \E item \in Item : Become(Loop, Taken(item, FALSE))
    BY <2>1, <2>3, LoopTakes
  <2>4. QED
    BY <1>5, <2>2, <2>3 DEF LoopRunGet
<1>6. CASE LoopPriority
  <2>1. PICK u \in news : Become(Loop, Taken([url |-> u, depth |-> 0], FALSE))
    BY <1>6 DEF LoopPriority
  <2>2. [url |-> u, depth |-> 0] \in Item
    <3>1. u \in Urls /\ 0 \in Depths
      BY LoopAssumption, SchedulerAssumption DEF NewsTyped
    <3>2. QED
      BY <3>1 DEF Item
  <2>3. QED
    BY <1>6, <2>1, <2>2, LoopTakes DEF LoopPriority, durable, index
<1>7. CASE LoopTimeout
  <2> DEFINE k == [Idle EXCEPT !.pc = "reseeding", !.seeds = Seeds]
  <2>1. GoodJob(k) /\ OnFile(k, mark, near)
    BY <1>1, SeedingIsGood DEF Rounds
  <2>2. UNCHANGED <<dedup, crawled, wins>>
    BY <1>7 DEF LoopTimeout, durable, index
  <2> HIDE DEF k
  <2>3. UNCHANGED job \/ Become(Loop, k)
    BY <1>7 DEF LoopTimeout, Become, k
  <2>4. QED
    BY <1>1, <2>1, <2>2, <2>3, SameJobs, OnlyJob
<1>8. QED
  BY <1>2, <1>3, <1>4, <1>5, <1>6, <1>7 DEF LoopStep

(* A start of the process: no crawl is going on. *)
LEMMA FreshIsGood ==
  /\ FreshJobs \in [Callers -> Job]
  /\ \A t \in Callers : GoodJob(FreshJobs[t]) /\ \A m, s : OnFile(FreshJobs[t], m, s)
<1> DEFINE k == [Idle EXCEPT !.pc = "seeding", !.seeds = Seeds]
<1>1. GoodJob(k) /\ \A m, s : OnFile(k, m, s)
  BY SeedingIsGood, LoopAssumption DEF Rounds
<1>2. FreshJobs = [t \in Callers |-> IF t = Loop /\ RunsLoop THEN k ELSE Idle]
  BY DEF FreshJobs
<1> HIDE DEF k
<1>3. QED
  BY <1>1, <1>2, IdleIsGood DEF GoodJob

LEMMA Initial == Init => IInv /\ NewsTyped
<1> SUFFICES ASSUME Init PROVE IInv /\ NewsTyped
  OBVIOUS
<1>1. JobsGood
  BY FreshIsGood DEF Init, JobsGood
<1>2. MarksGood
  BY DEF Init, MarksGood, Marked
<1>3. RowsGood /\ TextsExplained
  BY DEF Init, RowsGood, IndexedIsKnown, TextsExplained
<1>4. WinsTyped
  <2>1. [plain |-> 0, other |-> FALSE] \in [plain : 0 .. 2, other : BOOLEAN]
    OBVIOUS
  <2>2. QED
    BY <2>1 DEF Init, WinsTyped
<1>5. OneSuccessPerText /\ WinsAreTexts
  BY DEF Init, OneSuccessPerText, WinsAreTexts
<1>6. NewsTyped
  BY LoopAssumption DEF Init, NewsTyped
<1>7. QED
  BY <1>1, <1>2, <1>3, <1>4, <1>5, <1>6 DEF IInv, WinsGood

(* A start of the process knows the texts of the marks only: the others    *)
(* are those of marks that were overwritten, and are forgotten.            *)
LEMMA CrashKeeps ==
  ASSUME IInv, Crash
  PROVE  IInv'
<1>1. JobsGood'
  BY FreshIsGood DEF Crash, JobsGood
<1>2. /\ near' = Marked /\ near' \subseteq near
      /\ \A x \in Texts : fate'[x] = IF fate[x] = "kept" THEN "kept" ELSE "forgotten"
      /\ UNCHANGED <<mark, crawled, wins>>
  BY DEF Crash, index, IInv, MarksGood
<1>3. MarksGood'
  BY <1>2 DEF Crash, IInv, MarksGood, Marked
<1>4. ASSUME NEW x \in Texts, x \in near \/ fate[x] = "forgotten"
      PROVE  x \in near' \/ fate'[x] = "forgotten"
  BY <1>2, <1>4 DEF IInv, MarksGood
<1>5. RowsGood'
  <2>1. ASSUME NEW r \in crawled
        PROVE  HasSeen(r.url)' /\ (ContentSeen(r.text)' \/ fate'[r.text] = "forgotten")
    <3>1. r.text \in Texts
      BY DEF IInv, RowsGood, Rows
    <3>2. HasSeen(r.url) /\ (r.text \in near \/ fate[r.text] = "forgotten")
      BY KnownIsNear DEF IInv, RowsGood, IndexedIsKnown
    <3>3. QED
      BY <1>2, <1>4, <3>1, <3>2 DEF HasSeen, ContentSeen
  <2>2. QED
    BY <1>2, <2>1 DEF IInv, RowsGood, IndexedIsKnown, Rows
<1>6. WinsGood'
  <2>1. WinsTyped' /\ TextsExplained'
    BY <1>2 DEF IInv, WinsGood, WinsTyped, TextsExplained, Explained
  <2>2. OneSuccessPerText' /\ WinsAreTexts'
    BY <1>2, <1>4 DEF IInv, WinsGood, OneSuccessPerText, WinsAreTexts
  <2>3. QED
    BY <2>1, <2>2 DEF WinsGood
<1>7. QED
  BY <1>1, <1>3, <1>5, <1>6 DEF IInv

LEMMA Inductive == IInv /\ NewsTyped /\ [Next]_vars => IInv'
<1> SUFFICES ASSUME IInv, NewsTyped, [Next]_vars PROVE IInv'
  OBVIOUS
<1>1. CASE \E t \in Callers : CrawlStep(t)
  BY <1>1, CrawlStepKeeps
<1>2. CASE \E t \in Direct : Call(t)
  BY <1>2, CallKeeps
<1>3. CASE LoopStep
  BY <1>3, LoopKeeps
<1>4. CASE Elapse
  BY <1>4, SameJobs DEF Elapse, durable, index
<1>5. CASE Crash
  BY <1>5, CrashKeeps
<1>6. CASE UNCHANGED vars
  BY <1>6, SameJobs DEF vars, durable, index
<1>7. QED
  BY <1>1, <1>2, <1>3, <1>4, <1>5, <1>6 DEF Next, Alive

LEMMA NewsInductive == NewsTyped /\ [Next]_vars => NewsTyped'
<1> SUFFICES ASSUME NewsTyped, [Next]_vars PROVE news' \subseteq Urls
  BY DEF NewsTyped
<1>1. CASE \E t \in Callers : CrawlStep(t)
  <2>1. PICK t \in Callers : CrawlStep(t)
    BY <1>1
  <2>2. UNCHANGED news
    BY <2>1 DEF CrawlStep, Start, Robots, Sitemap, Fetch, FetchFails, FetchCanonical,
       FetchDuplicate, FetchPage, AddNext, AddDone, AddRaises, Store, GiveUp
  <2>3. QED
    BY <2>2 DEF NewsTyped
<1>2. CASE \E t \in Direct : Call(t)
  BY <1>2 DEF Call, NewsTyped
<1>3. CASE LoopStep
  <2>1. news' \subseteq news
    BY <1>3 DEF LoopStep, SeedNext, SeedDone, LoopGet, LoopRunGet, LoopPriority, LoopTimeout
  <2>2. QED
    BY <2>1 DEF NewsTyped
<1>4. CASE Elapse \/ UNCHANGED vars
  BY <1>4 DEF Elapse, vars, NewsTyped
<1>5. CASE Crash
  BY <1>5, LoopAssumption DEF Crash
<1>6. QED
  BY <1>1, <1>2, <1>3, <1>4, <1>5 DEF Next, Alive

LEMMA Invariant == Spec => [](IInv /\ NewsTyped)
<1>1. IInv /\ NewsTyped /\ [Next]_vars => (IInv /\ NewsTyped)'
  BY Inductive, NewsInductive
<1>2. QED
  BY Initial, <1>1, PTL DEF Spec

(* However many crawls overlap and however often the process is killed, at *)
(* most one unforced crawl takes a text for a new one: worker.py tests     *)
(* is_content_seen and calls mark_seen without a wait in between.  The     *)
(* exception is a text whose mark INSERT OR REPLACE has overwritten with   *)
(* that of a changed page, once the process has been started again.        *)
THEOREM SuccessOnce == Spec => []OneSuccessPerText
<1>1. IInv => OneSuccessPerText
  BY DEF IInv, WinsGood
<1>2. QED
  BY Invariant, <1>1, PTL

(* Every row that a crawl ever put in documents has its URL in the dedup   *)
(* database for ever, and its text too, there or in the SimHash index,     *)
(* until the page has changed and the process has been started again:      *)
(* mark_seen comes before crawl_url hands the page to index_document.      *)
THEOREM IndexedKnown == Spec => []IndexedIsKnown
<1>1. IInv => IndexedIsKnown
  BY DEF IInv, RowsGood
<1>2. QED
  BY Invariant, <1>1, PTL

(* crawl_url answers "duplicate content" only for a text that a crawl took *)
(* for new, or that a forced crawl or a page with another canonical URL    *)
(* recorded.                                                               *)
THEOREM DuplicatesExplained == Spec => DuplicateIsExplained
<1>1. IInv /\ [Next]_vars =>
        [\A t \in Callers : \A p \in Pages :
           FetchDuplicate(t, p) => wins[p.text].plain > 0 \/ wins[p.text].other]_vars
  <2>1. ASSUME IInv, NEW t \in Callers, NEW p \in Pages, FetchDuplicate(t, p)
        PROVE  wins[p.text].plain > 0 \/ wins[p.text].other
    BY <2>1, KnownIsNear DEF IInv, WinsGood, TextsExplained, Explained, FetchDuplicate
  <2>2. QED
    BY <2>1
<1>2. QED
  BY Invariant, <1>1, PTL DEF Spec, DuplicateIsExplained

-----------------------------------------------------------------------------
(* The scheduler below the loop. *)

\* get_url is cancelled where it waits.
Cancel ==
  /\ getter' = NoGet
  /\ UNCHANGED <<domains, tracked, queue, blocked, urlsPerHour, hourlyCount, hourAge>>

\* What a restart leaves of the scheduler.
Restart ==
  /\ domains' = [d \in Domains |-> NewDomain]
  /\ tracked' = {}
  /\ queue' = <<>>
  /\ blocked' = [c \in Callers |-> None]
  /\ getter' = NoGet
  /\ hourlyCount' = 0 /\ hourAge' = 0
  /\ urlsPerHour' \in RateLimits

\* All the program ever does to the scheduler.
SchedulerStep ==
  \/ \E u \in Urls, n \in 1 .. 3 : MarkDone(u, n)
  \/ \E c \in Callers, item \in Item : AddUrl(c, item)
  \/ \E d \in Domains, x \in CrawlDelays : SetCrawlDelay(d, x)
  \/ SetUrlsPerHour(0)
  \/ GetUrl
  \/ GetStep
  \/ Cancel
  \/ Tick
  \/ Restart
  \/ UNCHANGED schedVars

\* Nothing it does makes the scheduler's state another shape.
LEMMA SchedulerType ==
  ASSUME SchedTypeOK, GetterShape, SchedulerStep
  PROVE  SchedTypeOK' /\ GetterShape'
<1>1. CASE \E u \in Urls, n \in 1 .. 3 : MarkDone(u, n)
  <2>1. PICK u \in Urls, n \in 1 .. 3 : MarkDone(u, n)
    BY <1>1
  <2>2. SchedTypeOK'
    BY <2>1, MarkDoneType
  <2>3. getter'.pc = getter.pc /\ getter'.item = getter.item
    BY <2>1, OrphanedType DEF MarkDone, SchedTypeOK
  <2> QED BY <2>2, <2>3 DEF GetterShape
<1>2. CASE \E c \in Callers, item \in Item : AddUrl(c, item)
  <2>1. PICK c \in Callers, item \in Item : AddUrl(c, item)
    BY <1>2
  <2>2. SchedTypeOK'
    BY <2>1, AddUrlType
  <2>3. getter'.pc = getter.pc /\ getter'.item = getter.item
    BY <2>1, OrphanedType DEF AddUrl, RejectUrl, AcceptUrl, schedVars, SchedTypeOK
  <2> QED BY <2>2, <2>3 DEF GetterShape
<1>3. CASE \E d \in Domains, x \in CrawlDelays : SetCrawlDelay(d, x)
  <2>1. PICK d \in Domains, x \in CrawlDelays : SetCrawlDelay(d, x)
    BY <1>3
  <2>2. Cap(x) \in Nat /\ Cap(x) <= MaxCrawlDelay
    BY SchedulerAssumption DEF Cap, Smaller
  <2>3. domains' \in [Domains -> DomainState]
    BY <2>1, <2>2, TableType DEF SetCrawlDelay, SchedTypeOK
  <2> QED BY <2>1, <2>3 DEF SetCrawlDelay, SchedTypeOK, GetterShape
<1>4. CASE SetUrlsPerHour(0)
  BY <1>4, LoopAssumption DEF SetUrlsPerHour, SchedTypeOK, GetterShape
<1>5. CASE GetUrl
  <2>1. getter' \in GetState /\ getter'.pc = "getting" /\ getter'.item = None
    BY <1>5 DEF GetUrl, NoGet, GetState, GetterPc
  <2> QED BY <1>5, <2>1 DEF GetUrl, SchedTypeOK, GetterShape
<1>6. CASE GetStep
  BY <1>6, GetStepType, GetStepShape
<1>7. CASE Cancel
  <2>1. getter'.pc = "idle" /\ getter'.item = None
    BY <1>7 DEF Cancel, NoGet
  <2> QED BY <1>7, <2>1, NoGetType DEF Cancel, SchedTypeOK, GetterShape
<1>8. CASE Tick
  <2>1. getter'.pc = getter.pc /\ getter'.item = getter.item
    BY <1>8 DEF Tick, SchedTypeOK, GetState
  <2> QED BY <1>8, <2>1, TickType DEF GetterShape
<1>9. CASE Restart
  <2>1. NewDomain \in DomainState /\ 0 \in 0 .. Hour
    BY SchedulerAssumption DEF NewDomain, DomainState, LongAgo
  <2>2. getter'.pc = "idle" /\ getter'.item = None
    BY <1>9 DEF Restart, NoGet
  <2> QED BY <1>9, <2>1, <2>2, NoGetType DEF Restart, SchedTypeOK, GetterShape
<1>10. CASE UNCHANGED schedVars
  BY <1>10 DEF schedVars, SchedTypeOK, GetterShape
<1> QED
  BY <1>1, <1>2, <1>3, <1>4, <1>5, <1>6, <1>7, <1>8, <1>9, <1>10 DEF SchedulerStep

\* A step of crawl_url is at most one call of the scheduler, for a URL it has
\* or a link it found.
LEMMA CrawlStepCalls ==
  ASSUME IInv, NEW t \in Callers, CrawlStep(t)
  PROVE  \/ \E n \in 1 .. 3 : InCrawl(job[t]) /\ MarkDone(Url(t), n)
         \/ \E item \in Item : AddUrl(t, item)
         \/ \E x \in CrawlDelays : InCrawl(job[t]) /\ SetCrawlDelay(DomainOf[Url(t)], x)
         \/ UNCHANGED schedVars
<1>0. DonesOnRaise \in 1 .. 3 /\ DonesOnSkip \in 1 .. 3 /\ DonesOnFailure \in 1 .. 3 /\ 1 \in 1 .. 3
  BY DEF DonesOnRaise, DonesOnSkip, DonesOnFailure
<1>1. CASE Start(t) \/ Robots(t)
  BY <1>0, <1>1 DEF Start, Robots, GiveUp, InCrawl
<1>2. CASE Sitemap(t)
  BY <1>2 DEF Sitemap
<1>3. CASE Fetch(t)
  BY <1>0, <1>3 DEF Fetch, FetchFails, FetchCanonical, FetchDuplicate, FetchPage, Finds,
     GiveUp, InCrawl
<1>4. CASE AddNext(t)
  <2>1. job[t] \in Job
    BY DEF IInv, JobsGood
  <2>2. job[t].todo \subseteq Item
    BY <2>1 DEF Job
  <2> QED BY <1>4, <2>2 DEF AddNext
<1>5. CASE AddDone(t) \/ AddRaises(t)
  BY <1>0, <1>5 DEF AddDone, AddRaises, InCrawl, Rounds
<1>6. CASE Store(t)
  BY <1>6 DEF Store
<1> QED BY <1>1, <1>2, <1>3, <1>4, <1>5, <1>6 DEF CrawlStep

\* Every step of the crawler is at most one call of the scheduler.
LEMMA NextSchedulerStep ==
  ASSUME IInv, [Next]_vars
  PROVE  SchedulerStep
<1>1. ASSUME NEW t \in Callers, CrawlStep(t) PROVE SchedulerStep
  <2>1. InCrawl(job[t]) => Url(t) \in Urls /\ DomainOf[Url(t)] \in Domains
    BY UrlOfJob, SchedulerAssumption
  <2> QED BY <1>1, <2>1, CrawlStepCalls DEF SchedulerStep
<1>2. ASSUME NEW t \in Direct, Call(t) PROVE SchedulerStep
  BY <1>2 DEF Call, SchedulerStep
<1>3. CASE SeedNext
  <2>1. Loop \in Callers /\ 0 \in Depths
    BY LoopAssumption, SchedulerAssumption
  <2>2. job[Loop] \in Job
    BY <2>1 DEF IInv, JobsGood
  <2>3. \A s \in job[Loop].seeds : [url |-> s, depth |-> 0] \in Item
    BY <2>1, <2>2 DEF Job, Item
  <2> QED BY <1>3, <2>1, <2>3 DEF SeedNext, SchedulerStep
<1>4. CASE SeedDone \/ LoopGet \/ LoopRunGet \/ LoopPriority \/ LoopTimeout
  BY <1>4 DEF SeedDone, LoopGet, LoopRunGet, LoopPriority, LoopTimeout, Cancel, SchedulerStep
<1>5. CASE Elapse \/ Crash
  BY <1>5 DEF Elapse, Crash, Restart, SchedulerStep
<1>6. CASE UNCHANGED vars
  BY <1>6 DEF vars, SchedulerStep
<1> QED BY <1>1, <1>2, <1>3, <1>4, <1>5, <1>6 DEF Next, Alive, LoopStep

-----------------------------------------------------------------------------
(* Type correctness. *)

\* What the tasks add to the scheduler's state.
RestTyped ==
  /\ patience \in 0 .. GetTimeout
  /\ mapped \subseteq Domains
  /\ stored \subseteq Rows
  /\ news \subseteq FeedUrls
  /\ gap \in [Domains -> 0 .. LongAgo]
  /\ lost \in [Domains -> 0 .. PendingPerDomain]
  /\ late \in BOOLEAN

Shape == IInv /\ SchedTypeOK /\ GetterShape /\ RestTyped

LEMMA ShapeIsType == Shape => TypeOK
BY DEF Shape, RestTyped, IInv, JobsGood, MarksGood, RowsGood, WinsGood, WinsTyped, TypeOK

\* The index grows by the URL and the text of a page that was crawled.
LEMMA CrawlStepTyped ==
  ASSUME IInv, RestTyped, NEW t \in Callers, CrawlStep(t)
  PROVE  RestTyped'
<1>1. CASE Start(t) \/ Sitemap(t) \/ Fetch(t) \/ AddNext(t) \/ AddDone(t) \/ AddRaises(t)
  BY <1>1 DEF Start, Sitemap, Fetch, FetchFails, FetchCanonical, FetchDuplicate, FetchPage,
     AddNext, AddDone, AddRaises, GiveUp, durable, index, timeouts, RestTyped
<1>2. CASE Robots(t)
  <2>1. DomainOf[Url(t)] \in Domains
    <3>1. InCrawl(job[t])
      BY <1>2 DEF Robots, InCrawl
    <3> QED BY <3>1, UrlOfJob, SchedulerAssumption
  <2>2. mapped' \subseteq Domains
    BY <1>2, <2>1 DEF Robots, durable, RestTyped
  <2>3. UNCHANGED <<patience, index, news, gap, timeouts>>
    BY <1>2 DEF Robots, GiveUp, durable
  <2> QED BY <2>2, <2>3 DEF index, timeouts, RestTyped
<1>3. CASE Store(t)
  <2>1. Row(t) \in Rows
    BY <1>3, RowOfJob DEF Store, OnItsWay
  <2>2. stored' \subseteq Rows
    BY <1>3, <2>1 DEF Store, index, RestTyped
  <2> QED BY <1>3, <2>2 DEF Store, timeouts, RestTyped
<1> QED BY <1>1, <1>2, <1>3 DEF CrawlStep

LEMMA LoopStepTyped ==
  ASSUME SchedTypeOK, GetterShape, RestTyped, LoopStep
  PROVE  RestTyped'
<1>1. CASE SeedNext \/ SeedDone
  BY <1>1 DEF SeedNext, SeedDone, durable, index, timeouts, RestTyped
<1>2. CASE LoopGet
  <2>1. GetTimeout \in 0 .. GetTimeout
    BY LoopAssumption
  <2> QED BY <1>2, <2>1 DEF LoopGet, NewPatience, durable, index, RestTyped
<1>3. CASE LoopRunGet
  <2>1. 0 \in 0 .. LongAgo
    BY SchedulerAssumption DEF LongAgo
  <2>2. gap' \in [Domains -> 0 .. LongAgo]
    BY <1>3, <2>1 DEF LoopRunGet, RestTyped
  <2> QED BY <1>3, <2>2 DEF LoopRunGet, durable, index, timeouts, RestTyped
<1>4. CASE LoopPriority
  BY <1>4 DEF LoopPriority, durable, index, timeouts, RestTyped
<1>5. CASE LoopTimeout
  <2>1. ASSUME NEW d \in Domains
        PROVE  Smaller(lost[d] + 1, PendingPerDomain) \in 0 .. PendingPerDomain
    BY SchedulerAssumption DEF RestTyped, Smaller
  <2>2. getter.item # None => Dom(getter.item) \in Domains
    BY DomType DEF SchedTypeOK, GetState
  <2>3. lost' \in [Domains -> 0 .. PendingPerDomain]
    BY <1>5, <2>1, <2>2 DEF LoopTimeout, RestTyped
  <2> QED BY <1>5, <2>3 DEF LoopTimeout, durable, index, RestTyped
<1> QED BY <1>1, <1>2, <1>3, <1>4, <1>5 DEF LoopStep

LEMMA RestInductive == Shape /\ [Next]_vars => RestTyped'
<1> SUFFICES ASSUME Shape, [Next]_vars PROVE RestTyped'
  OBVIOUS
<1>0. IInv /\ SchedTypeOK /\ GetterShape /\ RestTyped
  BY DEF Shape
<1>1. CASE \E t \in Callers : CrawlStep(t)
  BY <1>0, <1>1, CrawlStepTyped
<1>2. CASE \E t \in Direct : Call(t)
  BY <1>0, <1>2 DEF Call, durable, index, timeouts, RestTyped
<1>3. CASE LoopStep
  BY <1>0, <1>3, LoopStepTyped
<1>4. CASE Elapse
  <2>1. patience' \in 0 .. GetTimeout
    BY <1>0, <1>4, LoopAssumption DEF Elapse, Larger, RestTyped
  <2>2. gap' \in [Domains -> 0 .. LongAgo]
    BY <1>0, <1>4, SchedulerAssumption DEF Elapse, Smaller, LongAgo, RestTyped
  <2> QED BY <1>0, <1>4, <2>1, <2>2 DEF Elapse, HeldUp, durable, index, RestTyped
<1>5. CASE Crash
  <2>1. 0 \in 0 .. GetTimeout /\ 0 \in 0 .. PendingPerDomain /\ LongAgo \in 0 .. LongAgo
    BY LoopAssumption, SchedulerAssumption DEF LongAgo
  <2> QED BY <1>0, <1>5, <2>1 DEF Crash, index, RestTyped
<1>6. CASE UNCHANGED vars
  BY <1>0, <1>6 DEF vars, durable, index, timeouts, RestTyped
<1> QED BY <1>1, <1>2, <1>3, <1>4, <1>5, <1>6 DEF Next, Alive

LEMMA ShapeInitial == Init => Shape
<1> SUFFICES ASSUME Init PROVE Shape
  OBVIOUS
<1>1. IInv
  BY Initial
<1>2. SchedTypeOK /\ GetterShape
  <2>1. NewDomain \in DomainState /\ 0 \in 0 .. Hour
    BY SchedulerAssumption DEF NewDomain, DomainState, LongAgo
  <2> QED BY <2>1, NoGetType DEF Init, SchedInit, SchedTypeOK, GetterShape, NoGet
<1>3. RestTyped
  <2>1. 0 \in 0 .. GetTimeout /\ 0 \in 0 .. PendingPerDomain /\ LongAgo \in 0 .. LongAgo
    BY LoopAssumption, SchedulerAssumption DEF LongAgo
  <2> QED BY <2>1 DEF Init, RestTyped
<1> QED BY <1>1, <1>2, <1>3 DEF Shape

LEMMA ShapeInductive == Shape /\ [Next]_vars => Shape'
<1> SUFFICES ASSUME Shape, [Next]_vars PROVE Shape'
  OBVIOUS
<1>1. NewsTyped
  BY LoopAssumption DEF Shape, RestTyped, NewsTyped
<1>2. IInv'
  BY <1>1, Inductive DEF Shape
<1>3. SchedTypeOK' /\ GetterShape'
  BY NextSchedulerStep, SchedulerType DEF Shape
<1> QED BY <1>2, <1>3, RestInductive DEF Shape

\* Every state of the crawler has the types of TypeOK, for any number of tasks,
\* any limits and any web: the scheduler keeps its shape under every caller.
THEOREM LoopTypeCorrect == Spec => []TypeOK
<1> QED BY ShapeInitial, ShapeInductive, ShapeIsType, PTL DEF Spec

-----------------------------------------------------------------------------
(* What the scheduler's operations do to the pending counts. *)

\* Nothing is pending in a domain without an entry, and no domain has more
\* pending than its limit.
UntrackedIdle == \A d \in Domains \ tracked : domains[d].pending = 0

TableOK == PendingWithinLimit /\ UntrackedIdle

\* An eviction takes no pending URL with it.
LEMMA EvictStale ==
  ASSUME NEW table \in [Domains -> DomainState], NEW keys, NEW threshold, NEW d \in Domains
  PROVE  /\ Evict(table, Stale(table, keys, threshold))[d].pending = table[d].pending
         /\ d \in Stale(table, keys, threshold) => table[d].pending = 0
BY StaleIs DEF Evict, NewDomain

\* One turn of get_url leaves every count as it is, and the table keeps every
\* domain that has something pending.
LEMMA TurnPending ==
  ASSUME domains \in [Domains -> DomainState], NEW item \in Item, NEW keys, NEW rest,
         NEW away \in BOOLEAN, Turn(item, keys, rest, away), NEW d \in Domains
  PROVE  /\ domains'[d].pending = domains[d].pending
         /\ d \in keys \ tracked' => domains[d].pending = 0
<1> DEFINE swept == IF HourOver THEN Stale(domains, keys, MaxTrackedDomains) ELSE {}
           table == Evict(domains, swept)
<1>1. /\ table \in [Domains -> DomainState]
      /\ table[d].pending = domains[d].pending
      /\ d \in swept => domains[d].pending = 0
  <2>1. table \in [Domains -> DomainState]
    BY EvictType
  <2>2. CASE HourOver
    <3>1. swept = Stale(domains, keys, MaxTrackedDomains)
      BY <2>2
    <3> HIDE DEF swept
    <3> QED BY <2>1, <3>1, EvictStale
  <2>3. CASE ~HourOver
    BY <2>1, <2>3 DEF Evict
  <2> QED BY <2>2, <2>3
<1>2. /\ tracked' = keys \ swept
      /\ domains' = table \/ domains' = [table EXCEPT ![Dom(item)].since = 0]
  BY DEF Turn, Return, PutBack
<1> HIDE DEF swept, table
<1>3. domains'[d].pending = table[d].pending
  BY <1>1, <1>2 DEF DomainState
<1> QED BY <1>1, <1>2, <1>3

\* A step of get_url leaves the counts alone.
LEMMA GetStepPending ==
  ASSUME SchedTypeOK, GetterShape, GetStep, NEW d \in Domains
  PROVE  /\ domains'[d].pending = domains[d].pending
         /\ d \in tracked \ tracked' => domains[d].pending = 0
<1>0. domains \in [Domains -> DomainState] /\ queue \in Seq(Item) /\ getter \in GetState
  BY DEF SchedTypeOK
<1>1. CASE Dequeue
  <2> DEFINE item == Head(queue)
             keys == tracked \cup {Dom(item)}
             rest == Tail(queue)
  <2>1. item \in Item
    BY <1>0, <1>1 DEF Dequeue
  <2>2. \/ Turn(item, keys, rest, FALSE)
        \/ domains' = domains /\ tracked' = keys
    BY <1>1 DEF Dequeue
  <2> HIDE DEF item, rest
  <2>3. CASE Turn(item, keys, rest, FALSE)
    <3>1. tracked \subseteq keys
      OBVIOUS
    <3> HIDE DEF keys
    <3>2. /\ domains'[d].pending = domains[d].pending
          /\ d \in keys \ tracked' => domains[d].pending = 0
      BY <1>0, <2>1, <2>3, TurnPending
    <3> QED BY <3>1, <3>2
  <2>4. CASE domains' = domains /\ tracked' = keys
    BY <2>4
  <2> QED BY <2>2, <2>3, <2>4
<1>2. CASE Wake
  <2>1. getter.item \in Item /\ getter.orphan \in BOOLEAN
    BY <1>0, <1>2 DEF Wake, GetState, GetterShape
  <2> QED BY <1>0, <1>2, <2>1, TurnPending DEF Wake
<1>3. CASE FinishPutBack \/ ResumeAfterLimit
  BY <1>3 DEF FinishPutBack, ResumeAfterLimit
<1> QED BY <1>1, <1>2, <1>3 DEF GetStep

\* mark_done takes off what it is asked to, as far as the count goes.
LEMMA MarkDonePending ==
  ASSUME SchedTypeOK, UntrackedIdle, NEW u \in Urls, NEW n \in Nat, MarkDone(u, n),
         NEW d \in Domains
  PROVE  /\ domains'[d].pending = IF d = DomainOf[u] THEN Decreased(domains[d].pending, n)
                                  ELSE domains[d].pending
         /\ d \in tracked \ tracked' => domains'[d].pending = 0
         /\ tracked' \subseteq tracked
<1> DEFINE e == DomainOf[u]
           table == [domains EXCEPT ![e].pending = Decreased(@, n)]
           swept == Stale(table, tracked, PruneThreshold)
<1>0. domains \in [Domains -> DomainState] /\ e \in Domains
  BY SchedulerAssumption DEF SchedTypeOK
<1>1. Decreased(domains[e].pending, n) \in Nat
  BY <1>0 DEF Decreased, Larger, DomainState
<1>2. /\ table \in [Domains -> DomainState]
      /\ table[d].pending = IF d = e THEN Decreased(domains[d].pending, n) ELSE domains[d].pending
  <2>1. table \in [Domains -> DomainState]
    BY <1>0, <1>1, TableType
  <2> QED BY <1>0, <2>1 DEF DomainState
<1> HIDE DEF table
<1>3. CASE e \in tracked
  <2>1. domains' = Evict(table, swept) /\ tracked' = tracked \ swept
    BY <1>3 DEF MarkDone, table
  <2>2. Evict(table, swept)[d].pending = table[d].pending /\ (d \in swept => table[d].pending = 0)
    BY <1>2, EvictStale
  <2> HIDE DEF swept
  <2> QED BY <1>2, <2>1, <2>2
<1>4. CASE e \notin tracked
  <2>1. domains' = domains /\ tracked' = tracked
    BY <1>4 DEF MarkDone
  <2>2. domains[e].pending = 0 /\ Decreased(0, n) = 0
    BY <1>0, <1>4 DEF UntrackedIdle, Decreased, Larger
  <2> QED BY <2>1, <2>2
<1> QED BY <1>3, <1>4

\* add_url counts the URL it queues, and no other.
LEMMA AddUrlPending ==
  ASSUME SchedTypeOK, NEW c \in Callers, NEW item \in Item, AddUrl(c, item)
  PROVE  /\ \A d \in Domains : d \in tracked \ tracked' => domains'[d].pending = 0
         /\ tracked \cup tracked' \subseteq Domains
         /\ getter'.item = getter.item /\ getter'.pc = getter.pc
         /\ \/ /\ \A d \in Domains : domains'[d].pending = domains[d].pending
               /\ UNCHANGED <<queue, blocked>>
            \/ /\ \A d \in Domains : domains'[d].pending = domains[d].pending + One(item, d)
               /\ domains[Dom(item)].pending < PendingPerDomain
               /\ Dom(item) \in tracked'
               /\ blocked[c] = None
               /\ \/ queue' = Enqueue(queue, item) /\ blocked' = blocked
                  \/ blocked' = [blocked EXCEPT ![c] = item] /\ queue' = queue
<1> DEFINE swept == SweptBeforeAdd
           table == Evict(domains, swept)
           e == Dom(item)
<1>0. domains \in [Domains -> DomainState] /\ tracked \subseteq Domains /\ e \in Domains /\ getter \in GetState
  BY DomType DEF SchedTypeOK
<1>1. /\ table \in [Domains -> DomainState]
      /\ \A d \in Domains : table[d].pending = domains[d].pending
      /\ \A d \in Domains : d \in swept => domains[d].pending = 0
  <2>1. table \in [Domains -> DomainState]
    BY <1>0, EvictType
  <2> QED BY <1>0, <2>1, EvictStale DEF SweptBeforeAdd
<1>2. Orphaned(getter, swept).item = getter.item /\ Orphaned(getter, swept).pc = getter.pc
  BY <1>0, OrphanedType
<1>3. CASE RejectUrl(c, item)
  <2>1. \/ UNCHANGED schedVars
        \/ /\ domains' = table /\ tracked' = (tracked \ swept) \cup {e}
           /\ getter' = Orphaned(getter, swept)
           /\ UNCHANGED <<queue, blocked>>
    BY <1>3 DEF RejectUrl
  <2> HIDE DEF swept, table
  <2> QED BY <1>0, <1>1, <1>2, <2>1 DEF schedVars
<1>4. CASE AcceptUrl(c, item)
  <2>1. /\ domains' = [table EXCEPT ![e].pending = @ + 1]
        /\ tracked' = (tracked \ swept) \cup {e}
        /\ getter' = Orphaned(getter, swept)
        /\ ~Full(table[e].pending)
        /\ blocked[c] = None
        /\ \/ queue' = Enqueue(queue, item) /\ blocked' = blocked
           \/ blocked' = [blocked EXCEPT ![c] = item] /\ queue' = queue
    BY <1>4 DEF AcceptUrl
  <2> HIDE DEF swept, table
  <2>2. \A d \in Domains : domains'[d].pending = domains[d].pending + One(item, d)
    BY <1>0, <1>1, <2>1 DEF One, DomainState
  <2>3. domains[e].pending < PendingPerDomain
    BY <1>0, <1>1, <2>1, SchedulerAssumption DEF Full, DomainState
  <2>4. \A d \in Domains : d \in tracked \ tracked' => domains'[d].pending = 0
    BY <1>0, <1>1, <2>1, <2>2 DEF One
  <2> QED BY <1>0, <1>2, <2>1, <2>2, <2>3, <2>4
<1> QED BY <1>3, <1>4 DEF AddUrl

\* So the table stays in order.
LEMMA TableKept ==
  ASSUME SchedTypeOK, GetterShape, TableOK, SchedulerStep
  PROVE  TableOK'
<1>0. /\ domains \in [Domains -> DomainState]
      /\ PendingPerDomain \in Nat
      /\ \A d \in Domains : domains[d].pending \in Nat /\ domains[d].pending <= PendingPerDomain
      /\ \A d \in Domains : d \notin tracked => domains[d].pending = 0
  BY SchedulerAssumption DEF SchedTypeOK, DomainState, TableOK, PendingWithinLimit, UntrackedIdle
<1> SUFFICES ASSUME NEW d \in Domains
             PROVE  /\ domains'[d].pending <= PendingPerDomain
                    /\ d \notin tracked' => domains'[d].pending = 0
  BY DEF TableOK, PendingWithinLimit, UntrackedIdle
<1>1. CASE \E u \in Urls, n \in 1 .. 3 : MarkDone(u, n)
  <2>1. PICK u \in Urls, n \in 1 .. 3 : MarkDone(u, n)
    BY <1>1
  <2>2. /\ domains'[d].pending = IF d = DomainOf[u] THEN Decreased(domains[d].pending, n)
                                 ELSE domains[d].pending
        /\ d \in tracked \ tracked' => domains'[d].pending = 0
    BY <2>1, MarkDonePending DEF TableOK
  <2>3. domains'[d].pending <= domains[d].pending /\ domains'[d].pending \in Nat
    BY <1>0, <2>2 DEF Decreased, Larger
  <2> QED BY <1>0, <2>2, <2>3
<1>2. CASE \E c \in Callers, item \in Item : AddUrl(c, item)
  <2>1. PICK c \in Callers, item \in Item : AddUrl(c, item)
    BY <1>2
  <2>2. d \in tracked \ tracked' => domains'[d].pending = 0
    BY <2>1, AddUrlPending
  <2>3. \/ domains'[d].pending = domains[d].pending
        \/ /\ domains'[d].pending = domains[d].pending + One(item, d)
           /\ domains[Dom(item)].pending < PendingPerDomain
           /\ Dom(item) \in tracked'
    BY <2>1, AddUrlPending
  <2> QED BY <1>0, <2>2, <2>3 DEF One
<1>3. CASE \E e \in Domains, x \in CrawlDelays : SetCrawlDelay(e, x)
  <2>1. domains'[d].pending = domains[d].pending /\ tracked \subseteq tracked'
    BY <1>0, <1>3 DEF SetCrawlDelay, DomainState
  <2> QED BY <1>0, <2>1
<1>4. CASE GetStep
  BY <1>0, <1>4, GetStepPending
<1>5. CASE Tick
  <2>1. domains'[d].pending = domains[d].pending /\ tracked' = tracked
    BY <1>0, <1>5 DEF Tick, DomainState
  <2> QED BY <1>0, <2>1
<1>6. CASE Restart
  BY <1>0, <1>6 DEF Restart, NewDomain
<1>7. CASE SetUrlsPerHour(0) \/ GetUrl \/ Cancel \/ UNCHANGED schedVars
  BY <1>0, <1>7 DEF SetUrlsPerHour, GetUrl, Cancel, schedVars
<1> QED BY <1>1, <1>2, <1>3, <1>4, <1>5, <1>6, <1>7 DEF SchedulerStep

-----------------------------------------------------------------------------
(* What they do to the URLs the scheduler has. *)

\* The URLs of d in a queue, in blocked puts and held by get_url.
OnWay(q, b, item, d) ==
  Cardinality(Of(q, d)) + Cardinality(Blocked(b, d)) + HeldBy(item, d)

LEMMA OnWayNat ==
  ASSUME NEW q \in Seq(Item), NEW b, NEW item, NEW d
  PROVE  OnWay(q, b, item, d) \in Nat
<1>1. HeldBy(item, d) \in Nat
  BY DEF HeldBy
<1> QED BY <1>1, OfFinite, BlockedFinite DEF OnWay

\* What add_url counts it also queues.
LEMMA AddUrlCounts ==
  ASSUME SchedTypeOK, NEW c \in Callers, NEW item \in Item, AddUrl(c, item), NEW d \in Domains
  PROVE  domains'[d].pending + OnWay(queue, blocked, getter.item, d)
           = domains[d].pending + OnWay(queue', blocked', getter'.item, d)
<1>0. /\ queue \in Seq(Item) /\ blocked \in [Callers -> Item \cup {None}]
      /\ domains[d].pending \in Nat
      /\ Cardinality(Of(queue, d)) \in Nat /\ Cardinality(Blocked(blocked, d)) \in Nat
      /\ HeldBy(getter.item, d) \in Nat /\ One(item, d) \in Nat
  BY OfFinite, BlockedFinite DEF SchedTypeOK, DomainState, HeldBy, One
<1>1. getter'.item = getter.item
  BY AddUrlPending
<1>2. CASE domains'[d].pending = domains[d].pending /\ UNCHANGED <<queue, blocked>>
  BY <1>1, <1>2
<1>3. CASE /\ domains'[d].pending = domains[d].pending + One(item, d)
           /\ queue' = Enqueue(queue, item) /\ blocked' = blocked
  <2>1. Cardinality(Of(queue', d)) = Cardinality(Of(queue, d)) + One(item, d)
    BY <1>0, <1>3, OfEnqueue
  <2> QED BY <1>0, <1>1, <1>3, <2>1 DEF OnWay
<1>4. CASE /\ domains'[d].pending = domains[d].pending + One(item, d)
           /\ blocked[c] = None
           /\ blocked' = [blocked EXCEPT ![c] = item] /\ queue' = queue
  <2>1. Cardinality(Blocked(blocked', d)) = Cardinality(Blocked(blocked, d)) + One(item, d)
    BY <1>0, <1>4, BlockedPut
  <2> QED BY <1>0, <1>1, <1>4, <2>1 DEF OnWay
<1> QED BY <1>2, <1>3, <1>4, AddUrlPending

\* One turn of get_url hands the item over or keeps it.
LEMMA TurnCounts ==
  ASSUME NEW item \in Item, NEW keys, NEW rest \in Seq(Item), NEW away,
         Turn(item, keys, rest, away), NEW d
  PROVE  /\ blocked' = blocked /\ queue' \in Seq(Item)
         /\ Cardinality(Of(queue', d)) + HeldBy(getter'.item, d) =
              Cardinality(Of(rest, d)) + IF getter'.pc = "idle" THEN 0 ELSE One(item, d)
<1>0. Cardinality(Of(rest, d)) \in Nat /\ One(item, d) \in Nat /\ item # None
  BY OfFinite, DomType DEF One
<1>1. CASE Return(item, keys, rest, away)
  <2>1. queue' = rest /\ getter' = NoGet /\ blocked' = blocked
    BY <1>1 DEF Return
  <2>2. getter'.pc = "idle" /\ HeldBy(getter'.item, d) = 0
    BY <2>1 DEF NoGet, HeldBy
  <2> QED BY <1>0, <2>1, <2>2
<1>2. CASE PutBack(item, keys, rest) /\ Len(rest) < QueueSize
  <2>1. /\ queue' = Enqueue(rest, item) /\ blocked' = blocked
        /\ getter'.pc = "limited" /\ getter'.item = None
    BY <1>2 DEF PutBack, NoGet
  <2>2. Cardinality(Of(queue', d)) = Cardinality(Of(rest, d)) + One(item, d)
    BY <2>1, OfEnqueue
  <2>3. HeldBy(getter'.item, d) = 0 /\ queue' \in Seq(Item)
    BY <2>1, EnqueueType DEF HeldBy
  <2> QED BY <1>0, <2>1, <2>2, <2>3
<1>3. CASE PutBack(item, keys, rest) /\ ~(Len(rest) < QueueSize)
  <2>1. /\ queue' = rest /\ blocked' = blocked
        /\ getter'.pc = "putback" /\ getter'.item = item
    BY <1>3 DEF PutBack, NoGet
  <2>2. HeldBy(getter'.item, d) = One(item, d)
    BY <1>0, <2>1 DEF HeldBy, One
  <2> QED BY <1>0, <2>1, <2>2
<1> QED BY <1>1, <1>2, <1>3 DEF Turn

\* get_url has what it had, without the URL it returns.
LEMMA GetStepCounts ==
  ASSUME SchedTypeOK, GetterShape, GetStep, NEW d
  PROVE  /\ getter'.pc # "idle" =>
              OnWay(queue', blocked', getter'.item, d) = OnWay(queue, blocked, getter.item, d)
         /\ \A item : Returns(item) =>
              /\ item \in Item
              /\ OnWay(queue', blocked', getter'.item, d) + One(item, d)
                   = OnWay(queue, blocked, getter.item, d)
<1>0. /\ queue \in Seq(Item) /\ getter \in GetState
      /\ Cardinality(Of(queue, d)) \in Nat /\ Cardinality(Blocked(blocked, d)) \in Nat
      /\ HeldBy(None, d) = 0
  BY OfFinite, BlockedFinite DEF SchedTypeOK, HeldBy
<1>1. CASE Dequeue
  <2> DEFINE item == Head(queue)
             keys == tracked \cup {Dom(item)}
             rest == Tail(queue)
  <2>1. /\ queue # <<>> /\ item \in Item /\ item # None /\ rest \in Seq(Item)
        /\ getter.pc = "getting" /\ getter.item = None
    BY <1>0, <1>1, DomType DEF Dequeue, GetterShape
  <2>2. Cardinality(Of(queue, d)) = Cardinality(Of(rest, d)) + One(item, d)
    BY <1>0, <2>1, OfTail
  <2>3. Cardinality(Of(rest, d)) \in Nat /\ One(item, d) \in Nat
    BY <2>1, OfFinite DEF One
  <2>4. ASSUME NEW i, Returns(i) PROVE i = item /\ getter'.pc = "idle"
    BY <2>1, <2>4 DEF Returns
  <2>5. CASE Turn(item, keys, rest, FALSE)
    <3> HIDE DEF item, keys, rest
    <3>1. /\ blocked' = blocked /\ queue' \in Seq(Item)
          /\ Cardinality(Of(queue', d)) + HeldBy(getter'.item, d) =
               Cardinality(Of(rest, d)) + IF getter'.pc = "idle" THEN 0 ELSE One(item, d)
      BY <2>1, <2>5, TurnCounts
    <3>2. Cardinality(Of(queue', d)) \in Nat /\ HeldBy(getter'.item, d) \in Nat
      BY <3>1, OfFinite DEF HeldBy
    <3>3. /\ getter'.pc # "idle" =>
               OnWay(queue', blocked', getter'.item, d) = OnWay(queue, blocked, getter.item, d)
          /\ getter'.pc = "idle" =>
               OnWay(queue', blocked', getter'.item, d) + One(item, d)
                 = OnWay(queue, blocked, getter.item, d)
      BY <1>0, <2>1, <2>2, <2>3, <3>1, <3>2 DEF OnWay
    <3> QED BY <2>1, <2>4, <3>3
  <2>6. CASE ~(domains[Dom(item)].since >= Delay(Dom(item)))
    <3>0. /\ queue' = rest /\ blocked' = blocked
          /\ getter' = [pc |-> "sleeping", item |-> item,
                        wait |-> Delay(Dom(item)) - domains[Dom(item)].since, orphan |-> FALSE]
      BY <1>1, <2>6 DEF Dequeue
    <3>1. /\ queue' = rest /\ blocked' = blocked
          /\ getter'.pc = "sleeping" /\ getter'.item = item
      BY <3>0
    <3>2. HeldBy(getter'.item, d) = One(item, d)
      BY <2>1, <3>1 DEF HeldBy, One
    <3> HIDE DEF item, keys, rest
    <3>3. OnWay(queue', blocked', getter'.item, d) = OnWay(queue, blocked, getter.item, d)
      BY <1>0, <2>1, <2>2, <2>3, <3>1, <3>2 DEF OnWay
    <3>4. getter'.pc # "idle"
      BY <3>1
    <3> QED BY <2>4, <3>3, <3>4
  <2> QED BY <1>1, <2>5, <2>6 DEF Dequeue
<1>2. CASE Wake
  <2> DEFINE item == getter.item
  <2>1. item \in Item /\ item # None /\ getter.pc = "sleeping" /\ getter.orphan \in BOOLEAN
    BY <1>0, <1>2 DEF Wake, GetState, GetterShape
  <2>2. HeldBy(item, d) = One(item, d) /\ One(item, d) \in Nat
    BY <2>1 DEF HeldBy, One
  <2>3. ASSUME NEW i, Returns(i) PROVE i = item /\ getter'.pc = "idle"
    BY <2>1, <2>3 DEF Returns
  <2>4. Turn(item, tracked, queue, getter.orphan)
    BY <1>2 DEF Wake
  <2>5. /\ blocked' = blocked /\ queue' \in Seq(Item)
        /\ Cardinality(Of(queue', d)) + HeldBy(getter'.item, d) =
             Cardinality(Of(queue, d)) + IF getter'.pc = "idle" THEN 0 ELSE One(item, d)
    BY <1>0, <2>1, <2>4, TurnCounts
  <2>6. Cardinality(Of(queue', d)) \in Nat /\ HeldBy(getter'.item, d) \in Nat
    BY <2>5, OfFinite DEF HeldBy
  <2> QED BY <1>0, <2>1, <2>2, <2>3, <2>5, <2>6 DEF OnWay
<1>3. CASE FinishPutBack
  <2>1. /\ getter.item \in Item /\ getter.item # None
        /\ queue' = Enqueue(queue, getter.item) /\ blocked' = blocked
        /\ getter'.item = None /\ ~ \E i : Returns(i)
    BY <1>0, <1>3 DEF FinishPutBack, GetterShape, GetState, Returns
  <2>2. Cardinality(Of(queue', d)) = Cardinality(Of(queue, d)) + One(getter.item, d)
    BY <1>0, <2>1, OfEnqueue
  <2>3. HeldBy(getter.item, d) = One(getter.item, d) /\ One(getter.item, d) \in Nat
    BY <2>1 DEF HeldBy, One
  <2> QED BY <1>0, <2>1, <2>2, <2>3 DEF OnWay
<1>4. CASE ResumeAfterLimit
  <2>1. /\ queue' = queue /\ blocked' = blocked /\ getter'.item = getter.item
        /\ ~ \E i : Returns(i)
    BY <1>0, <1>4 DEF ResumeAfterLimit, GetState, Returns
  <2> QED BY <2>1 DEF OnWay
<1> QED BY <1>1, <1>2, <1>3, <1>4 DEF GetStep

-----------------------------------------------------------------------------
(* The loop and get_url. *)

\* The loop does nothing else while it waits for get_url.
LoopWaits == getter.pc # "idle" => job[Loop] = Idle

\* Only a task in crawl_url has a URL.
NoUrlOutside == \A t \in Callers : ~InCrawl(job[t]) => job[t].item = None

\* A step of crawl_url does not move get_url on, and the task that takes it is
\* not idle.
LEMMA CrawlStepGetter ==
  ASSUME IInv, SchedTypeOK, NEW t \in Callers, CrawlStep(t)
  PROVE  /\ getter'.pc = getter.pc /\ getter'.item = getter.item
         /\ job[t].pc \notin {"idle", "ended"} \cup Rounds
         /\ \E j : Become(t, j)
<1>1. \/ \E n \in 1 .. 3 : MarkDone(Url(t), n)
      \/ \E item \in Item : AddUrl(t, item)
      \/ \E x \in CrawlDelays : SetCrawlDelay(DomainOf[Url(t)], x)
      \/ UNCHANGED schedVars
  BY CrawlStepCalls
<1>2. getter'.pc = getter.pc /\ getter'.item = getter.item
  BY <1>1, AddUrlPending, OrphanedType DEF MarkDone, SetCrawlDelay, schedVars, SchedTypeOK
<1>3. job[t].pc \notin {"idle", "ended"} \cup Rounds /\ \E j : Become(t, j)
  BY DEF CrawlStep, Start, Robots, Sitemap, Fetch, FetchFails, FetchCanonical, FetchDuplicate,
     FetchPage, Finds, AddNext, AddDone, AddRaises, Store, GiveUp, Rounds
<1> QED BY <1>2, <1>3

\* A job that changes within crawl_url, and one that ends, has a URL only there.
LEMMA CrawlStepJob ==
  ASSUME IInv, NoUrlOutside, NEW t \in Callers, CrawlStep(t)
  PROVE  \E j : /\ Become(t, j)
                /\ ~InCrawl(j) => j.item = None
                /\ j.item = job[t].item \/ j.item = None
<1>0. job[t] \in Job /\ GoodJob(job[t]) /\ (~InCrawl(job[t]) => job[t].item = None)
      /\ Idle.item = None
  BY DEF IInv, JobsGood, NoUrlOutside, Idle
<1>1. CASE Become(t, Idle)
  BY <1>0, <1>1
<1>2. CASE \E pc \in {"robots", "sitemap", "fetch"} :
             InCrawl(job[t]) /\ Become(t, [job[t] EXCEPT !.pc = pc])
  <2>1. PICK pc \in {"robots", "sitemap", "fetch"} :
               InCrawl(job[t]) /\ Become(t, [job[t] EXCEPT !.pc = pc])
    BY <1>2
  <2> DEFINE j == [job[t] EXCEPT !.pc = pc]
  <2>2. j.pc = pc /\ j.item = job[t].item
    BY <1>0 DEF Job
  <2> HIDE DEF j
  <2>3. Become(t, j) /\ InCrawl(j)
    BY <2>1, <2>2 DEF j, InCrawl
  <2> QED BY <2>2, <2>3
<1>3. ASSUME NEW k, k.item = job[t].item, k \in Job,
             NEW then \in {"idle", "fetch", "store"}, NEW S, Become(t, Offering(k, then, S))
      PROVE  \E j : /\ Become(t, j)
                    /\ ~InCrawl(j) => j.item = None
                    /\ j.item = job[t].item \/ j.item = None
  <2>1. /\ Offering(k, then, S).pc = "add" /\ Offering(k, then, S).then = then
        /\ Offering(k, then, S).item = job[t].item
    BY <1>3 DEF Offering, Job
  <2>2. InCrawl(Offering(k, then, S))
    BY <2>1 DEF InCrawl, Rounds
  <2> QED BY <1>3, <2>1, <2>2
<1>4. CASE \E S : job[t].pc = "add" /\ Become(t, [job[t] EXCEPT !.todo = S])
  <2>1. PICK S : job[t].pc = "add" /\ Become(t, [job[t] EXCEPT !.todo = S])
    BY <1>4
  <2> DEFINE j == [job[t] EXCEPT !.todo = S]
  <2>2. j.pc = job[t].pc /\ j.item = job[t].item /\ j.then = job[t].then
    BY <1>0 DEF Job
  <2> HIDE DEF j
  <2>3. Become(t, j)
    BY <2>1 DEF j
  <2> QED BY <1>0, <2>2, <2>3 DEF InCrawl
<1>5. CASE job[t].pc = "add" /\ Become(t, [job[t] EXCEPT !.pc = job[t].then]) /\ job[t].then # "idle"
  <2> DEFINE j == [job[t] EXCEPT !.pc = job[t].then]
  <2>2. j.pc = job[t].then /\ j.item = job[t].item
    BY <1>0 DEF Job
  <2>3. job[t].then \in {"fetch", "store"} \cup Rounds
    BY <1>0, <1>5 DEF GoodJob
  <2> HIDE DEF j
  <2>4. Become(t, j)
    BY <1>5 DEF j
  <2> QED BY <1>0, <1>5, <2>2, <2>3, <2>4 DEF InCrawl, Rounds
<1>6. CASE Start(t)
  BY <1>1, <1>2, <1>6 DEF Start, GiveUp, InCrawl
<1>7. CASE Robots(t)
  BY <1>1, <1>2, <1>7 DEF Robots, GiveUp, InCrawl
<1>8. CASE Sitemap(t)
  <2>1. PICK found : Become(t, Offering(job[t], "fetch", [url : found, depth : {0}]))
    BY <1>8 DEF Sitemap, Offering
  <2> QED BY <1>0, <1>3, <2>1
<1>9. CASE Fetch(t)
  <2>1. ASSUME NEW p, FetchPage(t, p)
        PROVE  \E j : /\ Become(t, j)
                      /\ ~InCrawl(j) => j.item = None
                      /\ j.item = job[t].item \/ j.item = None
    <3> DEFINE k == [job[t] EXCEPT !.text = p.text]
    <3>1. p.text \in Texts
      BY <2>1, PageOfJob DEF FetchPage
    <3>2. k.item = job[t].item /\ k \in Job
      BY <1>0, <3>1 DEF Job
    <3>3. Become(t, Offering(k, "store", Children(job[t].item)))
      BY <1>0, <2>1 DEF FetchPage, Offering, Job
    <3> HIDE DEF k
    <3> QED BY <1>3, <3>2, <3>3
  <2>2. ASSUME NEW p, FetchCanonical(t, p)
        PROVE  Become(t, Offering(job[t], "idle", {[url |-> p.canonical, depth |-> job[t].item.depth]}))
    BY <2>2 DEF FetchCanonical, Offering
  <2>3. CASE FetchFails(t) \/ \E p \in Pages : FetchDuplicate(t, p)
    BY <1>1, <2>3 DEF FetchFails, FetchDuplicate, GiveUp
  <2>4. ASSUME NEW p, FetchCanonical(t, p)
        PROVE  \E j : /\ Become(t, j)
                      /\ ~InCrawl(j) => j.item = None
                      /\ j.item = job[t].item \/ j.item = None
    BY <1>0, <1>3, <2>2, <2>4
  <2> QED BY <1>9, <2>1, <2>3, <2>4 DEF Fetch
<1>10. CASE AddNext(t)
  BY <1>4, <1>10 DEF AddNext
<1>11. CASE AddDone(t)
  BY <1>1, <1>5, <1>11 DEF AddDone
<1>12. CASE AddRaises(t)
  BY RaisedIsGood, <1>12 DEF AddRaises
<1>13. CASE Store(t)
  BY <1>1, <1>13 DEF Store
<1> QED BY <1>6, <1>7, <1>8, <1>9, <1>10, <1>11, <1>12, <1>13 DEF CrawlStep

\* One job changes: it has a URL only in crawl_url.
LEMMA UrlKept ==
  ASSUME job \in [Callers -> Job], NoUrlOutside, NEW t \in Callers, NEW j, Become(t, j),
         ~InCrawl(j) => j.item = None
  PROVE  NoUrlOutside'
<1>1. job' = [job EXCEPT ![t] = j]
  BY DEF Become
<1>2. ASSUME NEW c \in Callers PROVE ~InCrawl(job'[c]) => job'[c].item = None
  <2>1. job'[c] = IF c = t THEN j ELSE job[c]
    BY <1>1
  <2> QED BY <2>1 DEF NoUrlOutside
<1> QED BY <1>2 DEF NoUrlOutside

LEMMA IdleOutside == ~InCrawl(Idle) /\ Idle.item = None /\ Idle.pc = "idle"
BY DEF InCrawl, Idle

\* A task that takes up a URL is in crawl_url.
LEMMA TakenInside ==
  ASSUME NEW item, NEW force
  PROVE  /\ InCrawl(Taken(item, force)) /\ Taken(item, force).item = item
         /\ Taken(item, force).pc = "taken"
BY DEF InCrawl, Taken, Idle

Apart == LoopWaits /\ NoUrlOutside

\* get_url and the loop's own crawls keep out of each other's way, whatever the
\* other tasks do.
LEMMA ApartKept == Shape /\ Apart /\ [Next]_vars => Apart'
<1> SUFFICES ASSUME Shape, Apart, [Next]_vars PROVE Apart'
  OBVIOUS
<1>0. /\ IInv /\ SchedTypeOK /\ GetterShape /\ job \in [Callers -> Job] /\ Loop \in Callers
      /\ LoopWaits /\ NoUrlOutside
      /\ Idle.pc = "idle" /\ Idle.item = None /\ ~InCrawl(Idle)
  BY IdleOutside, LoopAssumption DEF Shape, Apart, IInv, JobsGood
<1>1. CASE \E t \in Callers : CrawlStep(t)
  <2>1. PICK t \in Callers : CrawlStep(t)
    BY <1>1
  <2>2. getter'.pc = getter.pc /\ job[t].pc # "idle"
    BY <1>0, <2>1, CrawlStepGetter
  <2>3. PICK j : Become(t, j) /\ (~InCrawl(j) => j.item = None)
    BY <1>0, <2>1, CrawlStepJob
  <2>4. NoUrlOutside'
    BY <1>0, <2>3, UrlKept
  <2>5. t = Loop => getter.pc = "idle"
    BY <1>0, <2>2 DEF LoopWaits
  <2>6. t # Loop => job'[Loop] = job[Loop]
    BY <1>0, <2>3 DEF Become
  <2>7. LoopWaits'
    BY <1>0, <2>2, <2>5, <2>6 DEF LoopWaits
  <2> QED BY <2>4, <2>7 DEF Apart
<1>2. CASE \E t \in Direct : Call(t)
  <2>1. PICK t \in Direct, item \in [url : Urls, depth : CallDepths], force \in Forces :
          Become(t, Taken(item, force))
    BY <1>2 DEF Call
  <2>2. UNCHANGED schedVars /\ t \in Callers /\ t # Loop
    BY <1>2 DEF Call, Direct
  <2>3. NoUrlOutside'
    BY <1>0, <2>1, <2>2, UrlKept, TakenInside
  <2>4. job'[Loop] = job[Loop] /\ getter' = getter
    BY <1>0, <2>1, <2>2 DEF Become, schedVars
  <2> QED BY <1>0, <2>3, <2>4 DEF Apart, LoopWaits
<1>3. CASE SeedNext
  <2>1. job[Loop].pc \in Rounds /\ getter.pc = "idle"
    BY <1>0, <1>3 DEF SeedNext, LoopWaits, Rounds
  <2>2. job[Loop].item = None
    BY <1>0, <2>1 DEF NoUrlOutside, InCrawl, Rounds
  <2>3. \/ UNCHANGED schedVars
        \/ \E item \in Item : AddUrl(Loop, item)
    <3>1. 0 \in Depths /\ job[Loop] \in Job
      BY <1>0, LoopAssumption, SchedulerAssumption
    <3>2. \A s \in job[Loop].seeds : [url |-> s, depth |-> 0] \in Item
      BY <3>1 DEF Job, Item
    <3> QED BY <1>3, <3>2 DEF SeedNext
  <2>4. getter'.pc = "idle"
    BY <1>0, <2>1, <2>3, AddUrlPending DEF schedVars
  <2>5. PICK s \in job[Loop].seeds :
          \/ Become(Loop, [job[Loop] EXCEPT !.seeds = @ \ {s}])
          \/ Become(Loop, Offering([job[Loop] EXCEPT !.seeds = @ \ {s}], job[Loop].pc,
                                   [url : LinksOf[s], depth : {1}]))
    BY <1>3 DEF SeedNext, Offering
  <2> DEFINE j == [job[Loop] EXCEPT !.seeds = @ \ {s}]
             k == Offering(j, job[Loop].pc, [url : LinksOf[s], depth : {1}])
  <2>6. j.item = None /\ k.item = None
    BY <1>0, <2>2 DEF Job, Offering
  <2> HIDE DEF j, k
  <2>7. Become(Loop, j) \/ Become(Loop, k)
    BY <2>5 DEF j, k
  <2>8. NoUrlOutside'
    BY <1>0, <2>6, <2>7, UrlKept
  <2> QED BY <2>4, <2>8 DEF Apart, LoopWaits
<1>4. CASE SeedDone
  <2>1. job[Loop].pc \in Rounds /\ Become(Loop, Idle) /\ getter' = getter
    BY <1>4 DEF SeedDone, SetUrlsPerHour, schedVars
  <2>2. getter.pc = "idle"
    BY <1>0, <2>1 DEF LoopWaits, Rounds
  <2> QED BY <1>0, <2>1, <2>2, UrlKept DEF Apart, LoopWaits
<1>5. CASE LoopGet
  BY <1>0, <1>5 DEF LoopGet, Apart, LoopWaits, NoUrlOutside
<1>6. CASE LoopRunGet
  <2>1. CASE getter'.pc # "idle" /\ UNCHANGED job
    <3>1. getter.pc # "idle"
      BY <1>6 DEF LoopRunGet, GetStep, Dequeue, Wake, FinishPutBack, ResumeAfterLimit
    <3> QED BY <1>0, <2>1, <3>1 DEF Apart, LoopWaits, NoUrlOutside
  <2>2. CASE \E item \in Item : Returns(item) /\ Become(Loop, Taken(item, FALSE))
    <3>1. getter'.pc = "idle"
      BY <2>2 DEF Returns
    <3> QED BY <1>0, <2>2, <3>1, UrlKept, TakenInside DEF Apart, LoopWaits
  <2> QED BY <1>6, <2>1, <2>2 DEF LoopRunGet
<1>7. CASE LoopPriority
  <2>1. getter' = getter /\ getter.pc = "idle" /\ \E item : Become(Loop, Taken(item, FALSE))
    BY <1>7 DEF LoopPriority, schedVars
  <2> QED BY <1>0, <2>1, UrlKept, TakenInside DEF Apart, LoopWaits
<1>8. CASE LoopTimeout
  <2> DEFINE k == [Idle EXCEPT !.pc = "reseeding", !.seeds = Seeds]
  <2>1. k.item = None
    BY DEF Idle
  <2> HIDE DEF k
  <2>2. getter'.pc = "idle" /\ (UNCHANGED job \/ Become(Loop, k))
    BY <1>8 DEF LoopTimeout, NoGet, Become, k
  <2>3. NoUrlOutside'
    BY <1>0, <2>1, <2>2, UrlKept DEF NoUrlOutside
  <2> QED BY <2>2, <2>3 DEF Apart, LoopWaits
<1>9. CASE Elapse
  <2>1. getter'.pc = getter.pc /\ job' = job
    BY <1>0, <1>9 DEF Elapse, Tick, SchedTypeOK, GetState
  <2> QED BY <1>0, <2>1 DEF Apart, LoopWaits, NoUrlOutside
<1>10. CASE Crash
  <2>1. getter'.pc = "idle" /\ job' = FreshJobs
    BY <1>10 DEF Crash, NoGet
  <2>2. NoUrlOutside'
    BY <2>1 DEF FreshJobs, Idle, NoUrlOutside
  <2> QED BY <2>1, <2>2 DEF Apart, LoopWaits
<1>11. CASE UNCHANGED vars
  BY <1>0, <1>11 DEF vars, schedVars, Apart, LoopWaits, NoUrlOutside
<1> QED
  BY <1>1, <1>2, <1>3, <1>4, <1>5, <1>6, <1>7, <1>8, <1>9, <1>10, <1>11 DEF Next, Alive, LoopStep

LEMMA ApartInitial == Init => Apart
BY DEF Init, SchedInit, NoGet, FreshJobs, Idle, Apart, LoopWaits, NoUrlOutside

-----------------------------------------------------------------------------
(* The pending counts of the scheduler and the crawls under way.           *)

\* A crawl whose URL the scheduler will still hear of: the row of a page is
\* stored after the last mark_done.
Has(j, d) == j.item # None /\ j.pc # "store" /\ Dom(j.item) = d
HasOne(j, d) == IF Has(j, d) THEN 1 ELSE 0
Crawls(js, d) == {c \in Callers : Has(js[c], d)}

\* A count is explained by URLs on their way, in a crawl or lost.
Leak ==
  \A d \in Domains :
    domains[d].pending
      <= OnWay(queue, blocked, getter.item, d) + Cardinality(Crawls(job, d)) + lost[d]

\* There are finitely many tasks.
LEMMA CrawlsFinite ==
  ASSUME NEW js, NEW d
  PROVE  IsFiniteSet(Crawls(js, d)) /\ Cardinality(Crawls(js, d)) \in Nat
<1>1. Crawls(js, d) \in SUBSET Callers
  BY DEF Crawls
<1>2. IsFiniteSet(Crawls(js, d))
  BY <1>1, SchedulerAssumption, FS_Subset
<1> QED BY <1>2, FS_CardinalityType

\* One job changes: its own crawl is one less or one more.
LEMMA CrawlsChange ==
  ASSUME job \in [Callers -> Job], NEW t \in Callers, NEW j, Become(t, j), NEW d
  PROVE  Cardinality(Crawls(job', d)) + HasOne(job[t], d)
           = Cardinality(Crawls(job, d)) + HasOne(j, d)
<1> DEFINE S == Crawls(job, d)
           T == Crawls(job', d)
           rest == S \ {t}
<1>1. \A c \in Callers : job'[c] = IF c = t THEN j ELSE job[c]
  BY DEF Become
<1>2. T = IF Has(j, d) THEN rest \cup {t} ELSE rest
  BY <1>1 DEF Crawls
<1>3. t \in S <=> Has(job[t], d)
  BY DEF Crawls
<1>4. IsFiniteSet(S) /\ Cardinality(S) \in Nat
  BY CrawlsFinite
<1> HIDE DEF S, T
<1>5. /\ IsFiniteSet(rest)
      /\ Cardinality(rest) = IF t \in S THEN Cardinality(S) - 1 ELSE Cardinality(S)
  BY <1>4, FS_RemoveElement
<1>6. t \notin rest
  OBVIOUS
<1> HIDE DEF rest
<1>7. Cardinality(rest \cup {t}) = Cardinality(rest) + 1
  BY <1>5, <1>6, FS_AddElement
<1>8. Cardinality(T) + HasOne(job[t], d) = Cardinality(S) + HasOne(j, d)
  BY <1>2, <1>3, <1>4, <1>5, <1>7 DEF HasOne
<1> QED BY <1>8 DEF S, T

\* A step of crawl_url marks the URL it has as done, or keeps it, or had told
\* the scheduler before.
LEMMA CrawlStepCounts ==
  ASSUME IInv, NoUrlOutside, NEW t \in Callers, CrawlStep(t)
  PROVE  \/ \E n \in 1 .. 3 : \E j : /\ InCrawl(job[t]) /\ job[t].pc # "store"
                                      /\ MarkDone(Url(t), n) /\ Become(t, j)
         \/ /\ \/ \E item \in Item : AddUrl(t, item)
               \/ \E x \in CrawlDelays : InCrawl(job[t]) /\ SetCrawlDelay(DomainOf[Url(t)], x)
               \/ UNCHANGED schedVars
            /\ \E j : Become(t, j) /\ \A d : Has(job[t], d) => Has(j, d)
<1>0. job[t] \in Job /\ GoodJob(job[t]) /\ (~InCrawl(job[t]) => job[t].item = None)
  BY DEF IInv, JobsGood, NoUrlOutside
<1>1. DonesOnRaise \in 1 .. 3 /\ DonesOnSkip \in 1 .. 3 /\ DonesOnFailure \in 1 .. 3 /\ 1 \in 1 .. 3
  BY DEF DonesOnRaise, DonesOnSkip, DonesOnFailure
<1>2. ASSUME NEW pc, pc # "store", NEW d, Has(job[t], d)
      PROVE  Has([job[t] EXCEPT !.pc = pc], d)
  <2>1. /\ [job[t] EXCEPT !.pc = pc].pc = pc
        /\ [job[t] EXCEPT !.pc = pc].item = job[t].item
    BY <1>0 DEF Job
  <2> QED BY <1>2, <2>1 DEF Has
<1>3. ASSUME NEW then, NEW S, NEW d, Has(job[t], d)
      PROVE  Has(Offering(job[t], then, S), d)
  <2>1. Offering(job[t], then, S).pc = "add" /\ Offering(job[t], then, S).item = job[t].item
    BY <1>0 DEF Job, Offering
  <2> QED BY <1>3, <2>1 DEF Has
<1>4. CASE Start(t)
  <2>1. CASE \E n \in 1 .. 3 : GiveUp(t, n)
    BY <1>4, <2>1 DEF Start, GiveUp, InCrawl
  <2>2. CASE Become(t, [job[t] EXCEPT !.pc = "robots"]) /\ UNCHANGED schedVars
    BY <1>2, <2>2
  <2> QED BY <1>1, <1>4, <2>1, <2>2 DEF Start
<1>5. CASE Robots(t)
  <2>1. CASE \E n \in 1 .. 3 : GiveUp(t, n)
    BY <1>5, <2>1 DEF Robots, GiveUp, InCrawl
  <2>2. CASE /\ UNCHANGED schedVars \/ \E x \in CrawlDelays : SetCrawlDelay(DomainOf[Url(t)], x)
             /\ \E pc \in {"sitemap", "fetch"} : Become(t, [job[t] EXCEPT !.pc = pc])
    <3>1. InCrawl(job[t])
      BY <1>5 DEF Robots, InCrawl
    <3>2. \E j : Become(t, j) /\ \A d : Has(job[t], d) => Has(j, d)
      BY <1>2, <2>2
    <3> QED BY <2>2, <3>1, <3>2
  <2> QED BY <1>1, <1>5, <2>1, <2>2 DEF Robots
<1>6. CASE Sitemap(t)
  <2>1. PICK found : Become(t, Offering(job[t], "fetch", [url : found, depth : {0}]))
    BY <1>6 DEF Sitemap, Offering
  <2>2. UNCHANGED schedVars
    BY <1>6 DEF Sitemap
  <2> QED BY <1>3, <2>1, <2>2
<1>7. CASE Fetch(t)
  <2>1. InCrawl(job[t]) /\ job[t].pc # "store"
    BY <1>7 DEF Fetch, FetchFails, FetchCanonical, FetchDuplicate, FetchPage, Finds, InCrawl
  <2>2. \E n \in 1 .. 3 : \E j : MarkDone(Url(t), n) /\ Become(t, j)
    BY <1>1, <1>7 DEF Fetch, FetchFails, FetchCanonical, FetchDuplicate, FetchPage, GiveUp
  <2> QED BY <2>1, <2>2
<1>8. CASE AddNext(t)
  <2>1. PICK item \in job[t].todo :
          /\ Become(t, [job[t] EXCEPT !.todo = @ \ {item}])
          /\ UNCHANGED schedVars \/ AddUrl(t, item)
    BY <1>8 DEF AddNext
  <2> DEFINE j == [job[t] EXCEPT !.todo = @ \ {item}]
  <2>2. j.pc = job[t].pc /\ j.item = job[t].item /\ item \in Item
    BY <1>0, <2>1 DEF Job
  <2> HIDE DEF j
  <2>3. \A d : Has(job[t], d) => Has(j, d)
    BY <2>2 DEF Has
  <2>4. Become(t, j)
    BY <2>1 DEF j
  <2> QED BY <2>1, <2>2, <2>3, <2>4
<1>9. CASE AddDone(t)
  <2>1. job[t].then \in {"idle", "fetch", "store"} \cup Rounds /\ job[t].pc = "add"
    BY <1>0, <1>9 DEF AddDone, GoodJob
  <2>2. CASE job[t].then \in {"idle", "store"}
    <3>1. MarkDone(Url(t), 1) /\ \E j : Become(t, j)
      BY <1>9, <2>2 DEF AddDone
    <3> QED BY <1>1, <2>1, <2>2, <3>1 DEF InCrawl, Rounds
  <2>3. CASE job[t].then \in {"fetch"} \cup Rounds
    <3>1. UNCHANGED schedVars /\ Become(t, [job[t] EXCEPT !.pc = job[t].then])
      BY <1>9, <2>3 DEF AddDone, Rounds
    <3>2. job[t].then # "store"
      BY <2>3 DEF Rounds
    <3> QED BY <1>2, <3>1, <3>2
  <2> QED BY <2>1, <2>2, <2>3
<1>10. CASE AddRaises(t)
  <2>1. job[t].pc = "add" /\ \E j : Become(t, j)
    BY <1>10 DEF AddRaises
  <2>2. CASE job[t].then \in Rounds
    <3>1. \A d : ~Has(job[t], d)
      BY <1>0, <2>1, <2>2 DEF InCrawl, Has
    <3> QED BY <1>10, <2>1, <2>2, <3>1 DEF AddRaises
  <2>3. CASE job[t].then \notin Rounds
    BY <1>1, <1>10, <2>1, <2>3 DEF AddRaises, InCrawl
  <2> QED BY <2>2, <2>3
<1>11. CASE Store(t)
  <2>1. UNCHANGED schedVars /\ Become(t, Idle) /\ \A d : ~Has(job[t], d)
    BY <1>11 DEF Store, Has
  <2> QED BY <2>1
<1> QED BY <1>4, <1>5, <1>6, <1>7, <1>8, <1>9, <1>10, <1>11 DEF CrawlStep

\* A count that grows by what is put on the way, while one job keeps its URL
\* or takes one up, stays explained.
LEMMA LeakGrows ==
  ASSUME SchedTypeOK, SchedTypeOK', job \in [Callers -> Job], lost \in [Domains -> Nat], Leak,
         lost' = lost, NEW t \in Callers, NEW j, Become(t, j),
         \A d \in Domains : Has(job[t], d) => Has(j, d),
         \A d \in Domains : domains'[d].pending + OnWay(queue, blocked, getter.item, d)
                              = domains[d].pending + OnWay(queue', blocked', getter'.item, d)
  PROVE  Leak'
<1> SUFFICES ASSUME NEW d \in Domains
             PROVE  domains'[d].pending <= OnWay(queue', blocked', getter'.item, d)
                      + Cardinality(Crawls(job', d)) + lost'[d]
  BY DEF Leak
<1>1. /\ OnWay(queue, blocked, getter.item, d) \in Nat
      /\ OnWay(queue', blocked', getter'.item, d) \in Nat
      /\ domains[d].pending \in Nat /\ domains'[d].pending \in Nat
      /\ Cardinality(Crawls(job, d)) \in Nat /\ Cardinality(Crawls(job', d)) \in Nat
      /\ lost[d] \in Nat
  BY OnWayNat, CrawlsFinite DEF SchedTypeOK, DomainState
<1>2. Cardinality(Crawls(job', d)) + HasOne(job[t], d) = Cardinality(Crawls(job, d)) + HasOne(j, d)
  BY CrawlsChange
<1>3. HasOne(job[t], d) <= HasOne(j, d) /\ HasOne(job[t], d) \in 0 .. 1 /\ HasOne(j, d) \in 0 .. 1
  BY DEF HasOne
<1>4. domains[d].pending
        <= OnWay(queue, blocked, getter.item, d) + Cardinality(Crawls(job, d)) + lost[d]
  BY DEF Leak
<1> QED BY <1>1, <1>2, <1>3, <1>4

\* The crawl of a URL that is marked as done may end.
LEMMA LeakDone ==
  ASSUME SchedTypeOK, UntrackedIdle, job \in [Callers -> Job], lost \in [Domains -> Nat], Leak,
         lost' = lost, NEW t \in Callers, NEW j, Become(t, j),
         job[t].item \in Item, job[t].pc # "store", NEW n \in 1 .. 3, MarkDone(Url(t), n)
  PROVE  Leak'
<1> SUFFICES ASSUME NEW d \in Domains
             PROVE  domains'[d].pending <= OnWay(queue', blocked', getter'.item, d)
                      + Cardinality(Crawls(job', d)) + lost'[d]
  BY DEF Leak
<1>0. Url(t) \in Urls /\ Dom(job[t].item) = DomainOf[Url(t)] /\ job[t].item # None
  BY DomType DEF Url, Item, Dom
<1>1. queue' = queue /\ blocked' = blocked /\ getter'.item = getter.item
  BY OrphanedType DEF MarkDone, SchedTypeOK
<1>2. /\ OnWay(queue, blocked, getter.item, d) \in Nat
      /\ domains[d].pending \in Nat
      /\ Cardinality(Crawls(job, d)) \in Nat /\ Cardinality(Crawls(job', d)) \in Nat
      /\ lost[d] \in Nat
  BY OnWayNat, CrawlsFinite DEF SchedTypeOK, DomainState
<1>3. Cardinality(Crawls(job', d)) + HasOne(job[t], d) = Cardinality(Crawls(job, d)) + HasOne(j, d)
  BY CrawlsChange
<1>4. HasOne(job[t], d) = (IF d = DomainOf[Url(t)] THEN 1 ELSE 0) /\ HasOne(j, d) \in 0 .. 1
  BY <1>0 DEF HasOne, Has
<1>5. domains[d].pending
        <= OnWay(queue, blocked, getter.item, d) + Cardinality(Crawls(job, d)) + lost[d]
  BY DEF Leak
<1>6. domains'[d].pending = IF d = DomainOf[Url(t)] THEN Decreased(domains[d].pending, n)
                            ELSE domains[d].pending
  BY <1>0, MarkDonePending
<1> DEFINE P == domains[d].pending
           W == OnWay(queue, blocked, getter.item, d)
           K == Cardinality(Crawls(job, d))
           L == Cardinality(Crawls(job', d))
<1>7. OnWay(queue', blocked', getter'.item, d) = W
  BY <1>1
<1> HIDE DEF P, W, K, L
<1>8. domains'[d].pending <= W + L + lost[d]
  BY <1>2, <1>3, <1>4, <1>5, <1>6 DEF P, W, K, L, Decreased, Larger
<1> QED BY <1>7, <1>8 DEF L

\* What the scheduler has after a step that is none of its own.
LEMMA SameOnWay ==
  ASSUME SchedTypeOK, UNCHANGED <<queue, blocked>>, getter'.item = getter.item,
         \A d \in Domains : domains'[d].pending = domains[d].pending, NEW d \in Domains
  PROVE  domains'[d].pending + OnWay(queue, blocked, getter.item, d)
           = domains[d].pending + OnWay(queue', blocked', getter'.item, d)
BY DEF SchedTypeOK

\* A Crawl-delay leaves the counts alone.
LEMMA DelayPending ==
  ASSUME SchedTypeOK, NEW e \in Domains, NEW x, SetCrawlDelay(e, x)
  PROVE  /\ \A d \in Domains : domains'[d].pending = domains[d].pending
         /\ UNCHANGED <<queue, blocked, getter>>
BY DEF SetCrawlDelay, SchedTypeOK, DomainState

\* A step of crawl_url counts a URL, takes one off, or does neither.
LEMMA CrawlStepLeak ==
  ASSUME Shape, Shape', NoUrlOutside, TableOK, Leak, NEW t \in Callers, CrawlStep(t)
  PROVE  Leak'
<1>0. /\ IInv /\ SchedTypeOK /\ SchedTypeOK' /\ job \in [Callers -> Job]
      /\ lost \in [Domains -> Nat] /\ UntrackedIdle
  BY SchedulerAssumption DEF Shape, IInv, JobsGood, RestTyped, TableOK
<1>1. lost' = lost
  BY DEF CrawlStep, Start, Robots, Sitemap, Fetch, FetchFails, FetchCanonical, FetchDuplicate,
     FetchPage, AddNext, AddDone, AddRaises, Store, GiveUp, timeouts
<1>2. CASE \E n \in 1 .. 3 : \E j : /\ InCrawl(job[t]) /\ job[t].pc # "store"
                                     /\ MarkDone(Url(t), n) /\ Become(t, j)
  <2>1. InCrawl(job[t]) => job[t].item \in Item
    BY <1>0, UrlOfJob
  <2> QED BY <1>0, <1>1, <1>2, <2>1, LeakDone
<1>3. ASSUME NEW j, Become(t, j), \A d : Has(job[t], d) => Has(j, d),
             \/ \E item \in Item : AddUrl(t, item)
             \/ \E x \in CrawlDelays : InCrawl(job[t]) /\ SetCrawlDelay(DomainOf[Url(t)], x)
             \/ UNCHANGED schedVars
      PROVE  Leak'
  <2>1. ASSUME NEW d \in Domains
        PROVE  domains'[d].pending + OnWay(queue, blocked, getter.item, d)
                 = domains[d].pending + OnWay(queue', blocked', getter'.item, d)
    <3>1. CASE \E item \in Item : AddUrl(t, item)
      BY <1>0, <3>1, AddUrlCounts
    <3>2. CASE \E x \in CrawlDelays : InCrawl(job[t]) /\ SetCrawlDelay(DomainOf[Url(t)], x)
      <4>1. PICK x \in CrawlDelays : InCrawl(job[t]) /\ SetCrawlDelay(DomainOf[Url(t)], x)
        BY <3>2
      <4>2. DomainOf[Url(t)] \in Domains
        BY <1>0, <4>1, UrlOfJob, SchedulerAssumption
      <4>3. /\ \A e \in Domains : domains'[e].pending = domains[e].pending
            /\ UNCHANGED <<queue, blocked, getter>>
        BY <1>0, <4>1, <4>2, DelayPending
      <4> QED BY <1>0, <4>3, SameOnWay
    <3>3. CASE UNCHANGED schedVars
      BY <1>0, <3>3, SameOnWay DEF schedVars
    <3> QED BY <1>3, <3>1, <3>2, <3>3
  <2> QED BY <1>0, <1>1, <1>3, <2>1, LeakGrows
<1> QED BY <1>0, <1>2, <1>3, CrawlStepCounts

\* The loop takes a URL from get_url: it goes from one side to the other.
LEMMA GetLeak ==
  ASSUME Shape, Shape', Apart, TableOK, Leak, LoopRunGet
  PROVE  Leak'
<1> SUFFICES ASSUME NEW d \in Domains
             PROVE  domains'[d].pending <= OnWay(queue', blocked', getter'.item, d)
                      + Cardinality(Crawls(job', d)) + lost'[d]
  BY DEF Leak
<1>0. /\ SchedTypeOK /\ SchedTypeOK' /\ GetterShape /\ job \in [Callers -> Job]
      /\ GetStep /\ lost' = lost /\ Loop \in Callers
  BY LoopAssumption DEF Shape, IInv, JobsGood, LoopRunGet, timeouts
<1>1. /\ OnWay(queue, blocked, getter.item, d) \in Nat
      /\ OnWay(queue', blocked', getter'.item, d) \in Nat
      /\ Cardinality(Crawls(job, d)) \in Nat /\ Cardinality(Crawls(job', d)) \in Nat
      /\ lost[d] \in Nat /\ domains[d].pending \in Nat /\ lost'[d] = lost[d]
  <2>1. queue \in Seq(Item) /\ queue' \in Seq(Item) /\ domains[d].pending \in Nat
    BY <1>0 DEF SchedTypeOK, DomainState
  <2>2. lost[d] \in Nat
    BY SchedulerAssumption DEF Shape, RestTyped
  <2> QED BY <1>0, <2>1, <2>2, OnWayNat, CrawlsFinite
<1>2. domains'[d].pending = domains[d].pending
  BY <1>0, GetStepPending
<1>3. domains[d].pending
        <= OnWay(queue, blocked, getter.item, d) + Cardinality(Crawls(job, d)) + lost[d]
  BY DEF Leak
<1>4. CASE getter'.pc # "idle" /\ UNCHANGED job
  <2>1. OnWay(queue', blocked', getter'.item, d) = OnWay(queue, blocked, getter.item, d)
    BY <1>0, <1>4, GetStepCounts
  <2> QED BY <1>0, <1>2, <1>3, <1>4, <2>1
<1>5. ASSUME NEW item \in Item, Returns(item), Become(Loop, Taken(item, FALSE))
      PROVE  domains'[d].pending <= OnWay(queue', blocked', getter'.item, d)
               + Cardinality(Crawls(job', d)) + lost'[d]
  <2>1. OnWay(queue', blocked', getter'.item, d) + One(item, d) = OnWay(queue, blocked, getter.item, d)
    BY <1>0, <1>5, GetStepCounts
  <2> DEFINE k == Taken(item, FALSE)
  <2>2. HasOne(k, d) = One(item, d) /\ One(item, d) \in Nat
    BY <1>5, DomType, TakenInside DEF HasOne, Has, One
  <2>3. Become(Loop, k)
    BY <1>5
  <2>4. job[Loop].item = None
    <3>1. getter.pc # "idle"
      BY <1>5 DEF Returns
    <3> QED BY <3>1, IdleOutside DEF Apart, LoopWaits
  <2>5. HasOne(job[Loop], d) = 0
    BY <2>4 DEF HasOne, Has
  <2> HIDE DEF k
  <2>6. Cardinality(Crawls(job', d)) + HasOne(job[Loop], d) = Cardinality(Crawls(job, d)) + HasOne(k, d)
    BY <1>0, <2>3, CrawlsChange
  <2>7. Cardinality(Crawls(job', d)) = Cardinality(Crawls(job, d)) + One(item, d)
    BY <1>1, <2>2, <2>5, <2>6
  <2>8. One(item, d) \in Nat
    BY <2>2
  <2> QED BY <1>1, <1>2, <1>3, <2>1, <2>7, <2>8
<1> QED BY <1>4, <1>5 DEF LoopRunGet

\* A timeout that takes a URL from get_url counts it as lost, up to the limit.
LEMMA TimeoutLeak ==
  ASSUME Shape, Apart, TableOK, Leak, LoopTimeout
  PROVE  Leak'
<1> SUFFICES ASSUME NEW d \in Domains
             PROVE  domains'[d].pending <= OnWay(queue', blocked', getter'.item, d)
                      + Cardinality(Crawls(job', d)) + lost'[d]
  BY DEF Leak
<1>0. /\ SchedTypeOK /\ job \in [Callers -> Job] /\ Loop \in Callers
      /\ UNCHANGED <<domains, queue, blocked>> /\ getter' = NoGet
  BY LoopAssumption DEF Shape, IInv, JobsGood, LoopTimeout
<1>1. /\ Cardinality(Of(queue, d)) \in Nat /\ Cardinality(Blocked(blocked, d)) \in Nat
      /\ Cardinality(Crawls(job, d)) \in Nat /\ Cardinality(Crawls(job', d)) \in Nat
      /\ lost \in [Domains -> 0 .. PendingPerDomain] /\ domains[d].pending \in Nat
      /\ PendingPerDomain \in Nat /\ domains[d].pending <= PendingPerDomain
  BY <1>0, OfFinite, BlockedFinite, CrawlsFinite, SchedulerAssumption
  DEF SchedTypeOK, DomainState, Shape, RestTyped, TableOK, PendingWithinLimit
<1>2. Cardinality(Crawls(job', d)) = Cardinality(Crawls(job, d))
  <2> DEFINE k == [Idle EXCEPT !.pc = "reseeding", !.seeds = Seeds]
  <2>1. CASE UNCHANGED job
    BY <2>1
  <2>2. CASE Become(Loop, k)
    <3>1. k.item = None
      BY DEF Idle
    <3> HIDE DEF k
    <3>2. getter.pc # "idle"
      BY DEF LoopTimeout, Waits
    <3>3. job[Loop].item = None
      BY <3>2, IdleOutside DEF Apart, LoopWaits
    <3>4. HasOne(job[Loop], d) = 0 /\ HasOne(k, d) = 0
      BY <3>1, <3>3 DEF HasOne, Has
    <3> QED BY <1>0, <1>1, <2>2, <3>4, CrawlsChange
  <2> QED BY <2>1, <2>2 DEF LoopTimeout, Become
<1>3. HeldBy(getter'.item, d) = 0
  BY <1>0 DEF NoGet, HeldBy
<1>4. domains[d].pending
        <= Cardinality(Of(queue, d)) + Cardinality(Blocked(blocked, d)) + HeldBy(getter.item, d)
             + Cardinality(Crawls(job, d)) + lost[d]
  BY DEF Leak, OnWay
<1>5. CASE HeldBy(getter.item, d) = 0
  <2>1. lost'[d] = lost[d]
    <3>1. CASE getter.item = None
      BY <3>1 DEF LoopTimeout
    <3>2. CASE getter.item # None
      <4>1. Dom(getter.item) # d
        BY <1>5, <3>2 DEF HeldBy
      <4> QED BY <1>1, <3>2, <4>1 DEF LoopTimeout
    <3> QED BY <3>1, <3>2
  <2> QED BY <1>0, <1>1, <1>2, <1>3, <1>4, <1>5, <2>1 DEF OnWay
<1>6. CASE HeldBy(getter.item, d) # 0
  <2>1. getter.item # None /\ Dom(getter.item) = d /\ HeldBy(getter.item, d) = 1
    BY <1>6 DEF HeldBy
  <2>2. lost'[d] = Smaller(lost[d] + 1, PendingPerDomain)
    BY <1>1, <2>1 DEF LoopTimeout
  <2>3. lost[d] \in 0 .. PendingPerDomain
    BY <1>1
  <2> QED BY <1>0, <1>1, <1>2, <1>3, <1>4, <2>1, <2>2, <2>3 DEF OnWay, Smaller
<1> QED BY <1>5, <1>6

\* Whatever happens, what is pending was lost or is under way.
LEMMA LeakKept == Shape /\ Shape' /\ Apart /\ TableOK /\ Leak /\ [Next]_vars => Leak'
<1> SUFFICES ASSUME Shape, Shape', Apart, TableOK, Leak, [Next]_vars PROVE Leak'
  OBVIOUS
<1>0. /\ SchedTypeOK /\ SchedTypeOK' /\ GetterShape /\ job \in [Callers -> Job]
      /\ lost \in [Domains -> Nat] /\ Loop \in Callers /\ NoUrlOutside /\ IInv
      /\ getter \in GetState
  <2>1. Loop \in Callers
    BY LoopFacts
  <2>2. \A d \in Domains : lost[d] \in Nat
    BY SchedulerAssumption DEF Shape, RestTyped
  <2>3. lost \in [Domains -> Nat]
    BY <2>2 DEF Shape, RestTyped
  <2> QED BY <2>1, <2>3 DEF Shape, IInv, JobsGood, Apart, SchedTypeOK
<1>1. CASE \E t \in Callers : CrawlStep(t)
  BY <1>0, <1>1, CrawlStepLeak
<1>2. ASSUME NEW t \in Callers, NEW j, job[t].item = None, Become(t, j), lost' = lost,
             UNCHANGED <<queue, blocked>>, getter'.item = getter.item,
             \A d \in Domains : domains'[d].pending = domains[d].pending
      PROVE  Leak'
  <2>1. \A d : Has(job[t], d) => Has(j, d)
    BY <1>2 DEF Has
  <2>2. ASSUME NEW d \in Domains
        PROVE  domains'[d].pending + OnWay(queue, blocked, getter.item, d)
                 = domains[d].pending + OnWay(queue', blocked', getter'.item, d)
    BY <1>0, <1>2, SameOnWay
  <2> QED BY <1>0, <1>2, <2>1, <2>2, LeakGrows
<1>3. ASSUME NEW t \in Direct, Call(t) PROVE Leak'
  <2>1. t \in Callers /\ job[t].item = None /\ UNCHANGED schedVars /\ lost' = lost
    BY <1>3, IdleOutside DEF Call, Direct, timeouts
  <2>2. \E j : Become(t, j)
    BY <1>3 DEF Call
  <2> QED BY <1>2, <2>1, <2>2 DEF schedVars
<1>4. CASE SeedNext
  <2>1. job[Loop].item = None /\ lost' = lost
    BY <1>0, <1>4 DEF SeedNext, NoUrlOutside, InCrawl, Rounds, timeouts
  <2>2. PICK j : Become(Loop, j)
    BY <1>4 DEF SeedNext
  <2>3. CASE UNCHANGED schedVars
    BY <1>0, <1>2, <2>1, <2>2, <2>3 DEF schedVars
  <2>4. CASE \E item \in Item : AddUrl(Loop, item)
    <3>1. \A d : Has(job[Loop], d) => Has(j, d)
      BY <2>1 DEF Has
    <3>2. ASSUME NEW d \in Domains
          PROVE  domains'[d].pending + OnWay(queue, blocked, getter.item, d)
                   = domains[d].pending + OnWay(queue', blocked', getter'.item, d)
      BY <1>0, <2>4, AddUrlCounts
    <3> QED BY <1>0, <2>1, <2>2, <3>1, <3>2, LeakGrows
  <2>5. UNCHANGED schedVars \/ \E item \in Item : AddUrl(Loop, item)
    <3>1. 0 \in Depths /\ job[Loop] \in Job
      BY <1>0, LoopAssumption, SchedulerAssumption
    <3>2. \A s \in job[Loop].seeds : [url |-> s, depth |-> 0] \in Item
      BY <3>1 DEF Job, Item
    <3> QED BY <1>4, <3>2 DEF SeedNext
  <2> QED BY <2>3, <2>4, <2>5
<1>5. CASE SeedDone
  <2>1. job[Loop].item = None /\ Become(Loop, Idle) /\ lost' = lost
    BY <1>0, <1>5 DEF SeedDone, NoUrlOutside, InCrawl, Rounds, timeouts
  <2>2. UNCHANGED <<queue, blocked, getter, domains>>
    BY <1>5 DEF SeedDone, SetUrlsPerHour, schedVars
  <2> QED BY <1>0, <1>2, <2>1, <2>2
<1>6. CASE LoopRunGet
  BY <1>6, GetLeak
<1>7. CASE LoopPriority
  <2>1. job[Loop].item = None /\ (\E j : Become(Loop, j)) /\ lost' = lost /\ UNCHANGED schedVars
    BY <1>7, IdleOutside DEF LoopPriority, timeouts
  <2> QED BY <1>0, <1>2, <2>1 DEF schedVars
<1>8. CASE LoopTimeout
  BY <1>8, TimeoutLeak
<1>9. CASE Crash
  <2> SUFFICES ASSUME NEW d \in Domains
               PROVE  domains'[d].pending <= OnWay(queue', blocked', getter'.item, d)
                        + Cardinality(Crawls(job', d)) + lost'[d]
    BY DEF Leak
  <2>1. domains'[d].pending = 0 /\ lost'[d] = 0
    BY <1>9 DEF Crash, NewDomain
  <2>2. OnWay(queue', blocked', getter'.item, d) \in Nat /\ Cardinality(Crawls(job', d)) \in Nat
    BY <1>0, OnWayNat, CrawlsFinite DEF SchedTypeOK
  <2> QED BY <2>1, <2>2
<1>10. ASSUME UNCHANGED <<queue, blocked, job, lost>>, getter'.item = getter.item,
              \A d \in Domains : domains'[d].pending = domains[d].pending
       PROVE  Leak'
  BY <1>10 DEF Leak
<1>11. CASE LoopGet
  <2>1. getter.item = None /\ getter'.item = None
    BY <1>0, <1>11 DEF LoopGet, GetUrl, GetterShape, NoGet
  <2> QED BY <1>10, <1>11, <2>1 DEF LoopGet, GetUrl
<1>12. CASE Elapse
  <2>1. getter'.item = getter.item
    BY <1>0, <1>12 DEF Elapse, Tick, GetState
  <2>2. \A d \in Domains : domains'[d].pending = domains[d].pending
    BY <1>0, <1>12 DEF Elapse, Tick, SchedTypeOK, DomainState
  <2> QED BY <1>10, <1>12, <2>1, <2>2 DEF Elapse, Tick
<1>13. CASE UNCHANGED vars
  BY <1>10, <1>13 DEF vars, schedVars, timeouts
<1> QED
  BY <1>1, <1>3, <1>4, <1>5, <1>6, <1>7, <1>8, <1>9, <1>11, <1>12, <1>13 DEF Next, Alive, LoopStep

Counted == Shape /\ Apart /\ TableOK /\ Leak

LEMMA CountedInitial == Init => Counted
<1> SUFFICES ASSUME Init PROVE Counted
  OBVIOUS
<1>1. Shape /\ Apart
  BY ShapeInitial, ApartInitial
<1>2. \A d \in Domains : domains[d].pending = 0 /\ lost[d] = 0
  BY DEF Init, SchedInit, NewDomain
<1>3. TableOK
  BY <1>2, SchedulerAssumption DEF TableOK, PendingWithinLimit, UntrackedIdle
<1>4. ASSUME NEW d
      PROVE  OnWay(queue, blocked, getter.item, d) \in Nat /\ Cardinality(Crawls(job, d)) \in Nat
  BY <1>1, OnWayNat, CrawlsFinite DEF Shape, SchedTypeOK
<1>5. Leak
  BY <1>2, <1>4 DEF Leak
<1> QED BY <1>1, <1>3, <1>5 DEF Counted

LEMMA CountedInductive == Counted /\ [Next]_vars => Counted'
<1> SUFFICES ASSUME Counted, [Next]_vars PROVE Counted'
  OBVIOUS
<1>1. Shape'
  BY ShapeInductive DEF Counted
<1>2. Apart'
  BY ApartKept DEF Counted
<1>3. TableOK'
  BY NextSchedulerStep, TableKept DEF Counted, Shape
<1>4. Leak'
  BY <1>1, LeakKept DEF Counted
<1> QED BY <1>1, <1>2, <1>3, <1>4 DEF Counted

\* A crawl the scheduler will still hear of is a crawl under way.
LEMMA CountedIsNoLeak == Counted => NoLeak
<1> SUFFICES ASSUME Counted, NEW d \in Domains
             PROVE  domains[d].pending <= Underway(d) + lost[d]
  BY DEF NoLeak
<1> DEFINE all == {c \in Callers : job[c].item # None /\ Dom(job[c].item) = d}
<1>1. IsFiniteSet(all) /\ Cardinality(all) \in Nat
  <2>1. all \in SUBSET Callers
    OBVIOUS
  <2> QED BY <2>1, SchedulerAssumption, FS_Subset, FS_CardinalityType
<1>2. Cardinality(Crawls(job, d)) <= Cardinality(all)
  <2>1. Crawls(job, d) \in SUBSET all
    BY DEF Crawls, Has
  <2> HIDE DEF all
  <2> QED BY <1>1, <2>1, FS_Subset
<1>3. Underway(d) = OnWay(queue, blocked, getter.item, d) + Cardinality(all)
  BY DEF Underway, OnWay, Of, Blocked, HeldBy
<1> HIDE DEF all
<1>4. /\ OnWay(queue, blocked, getter.item, d) \in Nat /\ Cardinality(Crawls(job, d)) \in Nat
      /\ lost[d] \in Nat /\ domains[d].pending \in Nat
  <2>1. queue \in Seq(Item) /\ domains[d].pending \in Nat
    BY DEF Counted, Shape, SchedTypeOK, DomainState
  <2>2. lost[d] \in Nat
    BY SchedulerAssumption DEF Counted, Shape, RestTyped
  <2> QED BY <2>1, <2>2, OnWayNat, CrawlsFinite
<1>5. domains[d].pending
        <= OnWay(queue, blocked, getter.item, d) + Cardinality(Crawls(job, d)) + lost[d]
  BY DEF Counted, Leak
<1> QED BY <1>1, <1>2, <1>3, <1>4, <1>5

\* The pending count of a domain never exceeds its URLs under way and those a
\* timeout lost, for any number of tasks, any limits and any kills: every way out
\* of crawl_url calls mark_done, as often as it may before the URL is gone.
THEOREM NothingLeaks == Spec => []NoLeak
<1> QED BY CountedInitial, CountedInductive, CountedIsNoLeak, PTL DEF Spec

-----------------------------------------------------------------------------
(* Politeness of the loop.                                                 *)

\* An eviction forgets only requests so old that the fresh entry says the same.
LEMMA EvictSince ==
  ASSUME NEW table \in [Domains -> DomainState], NEW keys, NEW threshold, NEW d \in Domains
  PROVE  Evict(table, Stale(table, keys, threshold))[d].since = table[d].since
<1>1. table[d].since \in 0 .. LongAgo
  BY DEF DomainState
<1>2. d \in Stale(table, keys, threshold) => table[d].since = LongAgo
  BY <1>1, StaleIs, SchedulerAssumption DEF LongAgo
<1> QED BY <1>2 DEF Evict, NewDomain

\* add_url and mark_done forget no request that counts.
LEMMA AddUrlSince ==
  ASSUME SchedTypeOK, NEW c \in Callers, NEW item \in Item, AddUrl(c, item), NEW d \in Domains
  PROVE  domains'[d].since = domains[d].since
<1> DEFINE table == Evict(domains, SweptBeforeAdd)
<1>1. table[d].since = domains[d].since
  BY EvictSince DEF SchedTypeOK, SweptBeforeAdd
<1>2. table \in [Domains -> DomainState]
  BY EvictType DEF SchedTypeOK
<1>3. \/ domains' = domains \/ domains' = table
      \/ domains' = [table EXCEPT ![Dom(item)].pending = @ + 1]
  BY DEF AddUrl, RejectUrl, AcceptUrl, schedVars
<1> HIDE DEF table
<1> QED BY <1>1, <1>2, <1>3 DEF DomainState

LEMMA MarkDoneSince ==
  ASSUME SchedTypeOK, NEW u \in Urls, NEW n \in Nat, MarkDone(u, n), NEW d \in Domains
  PROVE  domains'[d].since = domains[d].since
<1> DEFINE e == DomainOf[u]
           table == [domains EXCEPT ![e].pending = Decreased(@, n)]
<1>0. domains \in [Domains -> DomainState] /\ e \in Domains
  BY SchedulerAssumption DEF SchedTypeOK
<1>1. Decreased(domains[e].pending, n) \in Nat
  BY <1>0 DEF Decreased, Larger, DomainState
<1>2. table \in [Domains -> DomainState] /\ table[d].since = domains[d].since
  <2>1. table \in [Domains -> DomainState]
    BY <1>0, <1>1, TableType
  <2> QED BY <1>0, <2>1 DEF DomainState
<1>3. domains' = domains \/ domains' = Evict(table, Stale(table, tracked, PruneThreshold))
  BY DEF MarkDone
<1> HIDE DEF table
<1> QED BY <1>2, <1>3, EvictSince

\* The loop goes through its seeds for the first time, or an exception there has
\* ended it.
Seeding(j) == j.pc \in {"seeding", "ended"} \/ (j.pc = "add" /\ j.then = "seeding")

\* A step the loop takes outside get_url: it makes no domain look quieter, and
\* the limit of the seeds is lifted before they are left.
Calm ==
  /\ getter.pc = "idle" /\ getter'.pc = "idle"
  /\ getter'.item = getter.item
  /\ gap' = gap
  /\ \A d \in Domains : domains'[d].since = domains[d].since
  /\ urlsPerHour' = urlsPerHour \/ urlsPerHour' = 0
  /\ Seeding(job[Loop]) => Seeding(job'[Loop]) \/ urlsPerHour' = 0

\* The loop crawls and goes through its seeds outside get_url.
LEMMA CrawlStepCalm ==
  ASSUME Shape, Apart, CrawlStep(Loop)
  PROVE  Calm
<1>0. /\ IInv /\ SchedTypeOK /\ Loop \in Callers /\ job[Loop] \in Job /\ job \in [Callers -> Job]
      /\ getter \in GetState
  BY LoopAssumption DEF Shape, IInv, JobsGood, SchedTypeOK
<1>1. getter'.pc = getter.pc /\ getter'.item = getter.item /\ job[Loop].pc # "idle"
  BY <1>0, CrawlStepGetter
<1>2. getter.pc = "idle"
  BY <1>1, IdleOutside DEF Apart, LoopWaits
<1>3. gap' = gap
  BY DEF CrawlStep, Start, Robots, Sitemap, Fetch, FetchFails, FetchCanonical, FetchDuplicate,
     FetchPage, AddNext, AddDone, AddRaises, Store, GiveUp
<1>4. \/ \E n \in 1 .. 3 : InCrawl(job[Loop]) /\ MarkDone(Url(Loop), n)
      \/ \E item \in Item : AddUrl(Loop, item)
      \/ \E x \in CrawlDelays : InCrawl(job[Loop]) /\ SetCrawlDelay(DomainOf[Url(Loop)], x)
      \/ UNCHANGED schedVars
  BY <1>0, CrawlStepCalls
<1>5. InCrawl(job[Loop]) => Url(Loop) \in Urls
  BY <1>0, UrlOfJob
<1>6. ASSUME NEW d \in Domains PROVE domains'[d].since = domains[d].since
  <2>1. CASE \E n \in 1 .. 3 : InCrawl(job[Loop]) /\ MarkDone(Url(Loop), n)
    BY <1>0, <1>5, <2>1, MarkDoneSince
  <2>2. CASE \E item \in Item : AddUrl(Loop, item)
    BY <1>0, <2>2, AddUrlSince
  <2>3. CASE \E x \in CrawlDelays : SetCrawlDelay(DomainOf[Url(Loop)], x)
    BY <1>0, <2>3 DEF SetCrawlDelay, SchedTypeOK, DomainState
  <2>4. CASE UNCHANGED schedVars
    BY <2>4 DEF schedVars
  <2> QED BY <1>4, <2>1, <2>2, <2>3, <2>4
<1>7. urlsPerHour' = urlsPerHour
  BY <1>4 DEF MarkDone, AddUrl, RejectUrl, AcceptUrl, SetCrawlDelay, schedVars
<1>8. ASSUME Seeding(job[Loop]) PROVE Seeding(job'[Loop])
  <2>1. job[Loop].pc = "add" /\ job[Loop].then = "seeding"
    BY <1>0, <1>8, CrawlStepGetter DEF Seeding, Rounds
  <2>2. AddNext(Loop) \/ AddDone(Loop) \/ AddRaises(Loop)
    BY <2>1 DEF CrawlStep, Start, Robots, Sitemap, Fetch, FetchFails, FetchCanonical, FetchDuplicate,
       FetchPage, Finds, Store
  <2>3. CASE AddNext(Loop)
    <3>1. PICK S : Become(Loop, [job[Loop] EXCEPT !.todo = S])
      BY <2>3 DEF AddNext
    <3>2. job'[Loop].pc = "add" /\ job'[Loop].then = "seeding"
      BY <1>0, <2>1, <3>1 DEF Become, Job
    <3> QED BY <3>2 DEF Seeding
  <2>4. CASE AddDone(Loop)
    <3>1. Become(Loop, [job[Loop] EXCEPT !.pc = "seeding"])
      BY <2>1, <2>4 DEF AddDone
    <3>2. job'[Loop].pc = "seeding"
      BY <1>0, <3>1 DEF Become, Job
    <3> QED BY <3>2 DEF Seeding
  <2>5. CASE AddRaises(Loop)
    <3>1. Become(Loop, [Idle EXCEPT !.pc = "ended"])
      BY <2>1, <2>5 DEF AddRaises, AfterRaise
    <3>2. job'[Loop].pc = "ended"
      BY <1>0, <3>1 DEF Become, Idle
    <3> QED BY <3>2 DEF Seeding
  <2> QED BY <2>2, <2>3, <2>4, <2>5
<1> QED BY <1>1, <1>2, <1>3, <1>6, <1>7, <1>8 DEF Calm

LEMMA SeedCalm ==
  ASSUME Shape, Apart, SeedNext \/ SeedDone
  PROVE  Calm
<1>0. /\ SchedTypeOK /\ Loop \in Callers /\ job[Loop] \in Job /\ job \in [Callers -> Job]
  BY LoopAssumption DEF Shape, IInv, JobsGood
<1>1. job[Loop].pc \in Rounds /\ gap' = gap /\ getter.pc = "idle"
  BY IdleOutside DEF SeedNext, SeedDone, Apart, LoopWaits, Rounds
<1>2. CASE SeedNext
  <2>1. UNCHANGED schedVars \/ \E item \in Item : AddUrl(Loop, item)
    <3>1. 0 \in Depths
      BY LoopAssumption, SchedulerAssumption
    <3>2. \A s \in job[Loop].seeds : [url |-> s, depth |-> 0] \in Item
      BY <1>0, <3>1 DEF Job, Item
    <3> QED BY <1>2, <3>2 DEF SeedNext
  <2>2. /\ \A d \in Domains : domains'[d].since = domains[d].since
        /\ getter'.pc = getter.pc /\ getter'.item = getter.item
        /\ urlsPerHour' = urlsPerHour
    <3>1. CASE \E item \in Item : AddUrl(Loop, item)
      BY <1>0, <3>1, AddUrlSince, AddUrlPending DEF AddUrl, RejectUrl, AcceptUrl, schedVars
    <3>2. CASE UNCHANGED schedVars
      BY <3>2 DEF schedVars
    <3> QED BY <2>1, <3>1, <3>2
  <2>3. PICK s \in job[Loop].seeds :
          \/ Become(Loop, [job[Loop] EXCEPT !.seeds = @ \ {s}])
          \/ Become(Loop, Offering([job[Loop] EXCEPT !.seeds = @ \ {s}], job[Loop].pc,
                                   [url : LinksOf[s], depth : {1}]))
    BY <1>2 DEF SeedNext, Offering
  <2> DEFINE j == [job[Loop] EXCEPT !.seeds = @ \ {s}]
             k == Offering(j, job[Loop].pc, [url : LinksOf[s], depth : {1}])
  <2>4. j.pc = job[Loop].pc /\ k.pc = "add" /\ k.then = job[Loop].pc
    BY <1>0, <1>1 DEF Job, Offering
  <2> HIDE DEF j, k
  <2>5. job'[Loop] = j \/ job'[Loop] = k
    BY <1>0, <2>3 DEF j, k, Become
  <2> QED BY <1>1, <2>2, <2>4, <2>5 DEF Calm, Seeding, Rounds
<1>3. CASE SeedDone
  <2>1. CASE job[Loop].pc = "seeding"
    BY <1>1, <1>3, <2>1 DEF SeedDone, SetUrlsPerHour, Calm
  <2>2. CASE job[Loop].pc # "seeding"
    BY <1>1, <1>3, <2>2 DEF SeedDone, schedVars, Calm, Seeding, Rounds
  <2> QED BY <2>1, <2>2
<1> QED BY <1>2, <1>3

\* There is no hourly limit while get_url runs, nor after the seeds.
Unlimited ==
  /\ getter.pc \in {"idle", "getting", "sleeping"}
  /\ getter.pc # "idle" => urlsPerHour = 0
  /\ RunsLoop => urlsPerHour = 0 \/ Seeding(job[Loop])

\* Without one a step of get_url returns or begins to sleep.
LEMMA UnlimitedStep ==
  ASSUME Unlimited, GetStep
  PROVE  urlsPerHour = 0 /\ urlsPerHour' = 0 /\ getter'.pc \in {"idle", "sleeping"}
<1>1. urlsPerHour = 0 /\ (Dequeue \/ Wake)
  BY DEF Unlimited, GetStep, Dequeue, Wake, FinishPutBack, ResumeAfterLimit
<1>2. ASSUME NEW item, NEW keys, NEW rest, NEW left, Turn(item, keys, rest, left)
      PROVE  getter'.pc = "idle" /\ urlsPerHour' = urlsPerHour
  <2>1. Return(item, keys, rest, left)
    BY <1>1, <1>2 DEF Turn, PutBack, LimitReached
  <2> QED BY <2>1 DEF Return, NoGet
<1>3. CASE Wake
  BY <1>1, <1>2, <1>3 DEF Wake
<1>4. CASE Dequeue
  <2>1. CASE domains[Dom(Head(queue))].since >= Delay(Dom(Head(queue)))
    <3>1. \E item, keys, rest : Turn(item, keys, rest, FALSE)
      BY <1>4, <2>1 DEF Dequeue
    <3> QED BY <1>1, <1>2, <3>1
  <2>2. CASE ~(domains[Dom(Head(queue))].since >= Delay(Dom(Head(queue))))
    <3>1. /\ urlsPerHour' = urlsPerHour
          /\ getter' = [pc |-> "sleeping", item |-> Head(queue),
                         wait |-> Delay(Dom(Head(queue))) - domains[Dom(Head(queue))].since,
                         orphan |-> FALSE]
      BY <1>4, <2>2 DEF Dequeue
    <3> QED BY <1>1, <3>1
  <2> QED BY <2>1, <2>2
<1> QED BY <1>1, <1>3, <1>4

LEMMA UnlimitedKept == Shape /\ Apart /\ Unlimited /\ [Next]_vars => Unlimited'
<1> SUFFICES ASSUME Shape, Apart, Unlimited, [Next]_vars PROVE Unlimited'
  OBVIOUS
<1>0. /\ IInv /\ SchedTypeOK /\ Loop \in Callers /\ job \in [Callers -> Job] /\ getter \in GetState
  BY LoopAssumption DEF Shape, IInv, JobsGood, SchedTypeOK
<1>1. ASSUME NEW t \in Callers, CrawlStep(t) PROVE Unlimited'
  <2>1. CASE t = Loop
    BY <1>1, <2>1, CrawlStepCalm DEF Calm, Unlimited
  <2>2. CASE t # Loop
    <3>1. getter'.pc = getter.pc /\ job'[Loop] = job[Loop]
      BY <1>0, <1>1, <2>2, CrawlStepGetter DEF Become
    <3>2. urlsPerHour' = urlsPerHour
      BY <1>0, <1>1, CrawlStepCalls
         DEF MarkDone, AddUrl, RejectUrl, AcceptUrl, SetCrawlDelay, schedVars
    <3> QED BY <3>1, <3>2 DEF Unlimited
  <2> QED BY <2>1, <2>2
<1>2. ASSUME NEW t \in Direct, Call(t) PROVE Unlimited'
  <2>1. t # Loop /\ UNCHANGED schedVars
    BY <1>2 DEF Direct, Call
  <2>2. job'[Loop] = job[Loop]
    BY <1>0, <1>2, <2>1 DEF Call, Become
  <2> QED BY <2>1, <2>2 DEF Unlimited, schedVars
<1>3. CASE SeedNext \/ SeedDone
  BY <1>3, SeedCalm DEF Calm, Unlimited
<1>4. CASE LoopGet
  <2>1. RunsLoop /\ ~Seeding(job[Loop]) /\ getter'.pc = "getting" /\ UNCHANGED <<urlsPerHour, job>>
    BY <1>4 DEF LoopGet, Idle, Seeding, GetUrl, NoGet
  <2> QED BY <2>1 DEF Unlimited
<1>5. CASE LoopRunGet
  <2>1. GetStep
    BY <1>5 DEF LoopRunGet
  <2> QED BY <2>1, UnlimitedStep DEF Unlimited
<1>6. CASE LoopPriority
  <2>1. RunsLoop /\ ~Seeding(job[Loop]) /\ UNCHANGED schedVars
    BY <1>6 DEF LoopPriority, Idle, Seeding
  <2> QED BY <2>1 DEF Unlimited, schedVars
<1>7. CASE LoopTimeout
  <2>1. getter.pc # "idle" /\ getter'.pc = "idle" /\ UNCHANGED urlsPerHour
    BY <1>7 DEF LoopTimeout, Waits, NoGet
  <2> QED BY <2>1 DEF Unlimited
<1>8. CASE Elapse
  <2>1. getter'.pc = getter.pc /\ UNCHANGED <<urlsPerHour, job>>
    BY <1>0, <1>8 DEF Elapse, Tick, GetState
  <2> QED BY <2>1 DEF Unlimited
<1>9. CASE Crash
  <2>1. getter'.pc = "idle" /\ job' = FreshJobs
    BY <1>9 DEF Crash, NoGet
  <2>2. RunsLoop => Seeding(FreshJobs[Loop])
    BY <1>0 DEF FreshJobs, Idle, Seeding
  <2> QED BY <2>1, <2>2 DEF Unlimited
<1>10. CASE UNCHANGED vars
  BY <1>10 DEF vars, schedVars, Unlimited
<1> QED BY <1>1, <1>2, <1>3, <1>4, <1>5, <1>6, <1>7, <1>8, <1>9, <1>10 DEF Next, Alive, LoopStep

\* The crawl loop never comes to the put back that might not end (PutBackIsForEver):
\* whatever limit is configured, however often it is killed and however many
\* other crawls overlap, seed_and_crawl_loop has lifted the limit before it asks
\* get_url for the first time.
THEOREM LimitIsNeverMet == Spec => []NeverAtLimit
<1>1. Init => Unlimited
  <2>1. Init => getter.pc = "idle"
    BY DEF Init, SchedInit, NoGet
  <2>2. Init => (RunsLoop => Seeding(job[Loop]))
    BY LoopAssumption DEF Init, FreshJobs, Idle, Seeding
  <2> QED BY <2>1, <2>2 DEF Unlimited
<1>2. Unlimited => NeverAtLimit
  BY DEF Unlimited, NeverAtLimit
<1> QED BY <1>1, <1>2, ShapeInitial, ApartInitial, ShapeInductive, ApartKept, UnlimitedKept, PTL DEF Spec

\* All that happens in a process that serves alone.
LEMMA Alone ==
  ASSUME Callers = {Loop}, Shape, Apart, [Next]_vars
  PROVE  Calm \/ LoopGet \/ LoopRunGet \/ LoopTimeout \/ Elapse \/ Crash \/ UNCHANGED vars
<1>1. ASSUME NEW t \in Callers, CrawlStep(t) PROVE Calm
  BY <1>1, CrawlStepCalm
<1>2. Direct = {}
  BY DEF Direct
<1>3. CASE SeedNext \/ SeedDone
  BY <1>3, SeedCalm
<1>4. CASE LoopPriority
  BY <1>4, IdleOutside DEF LoopPriority, schedVars, Calm, Seeding
<1> QED BY <1>1, <1>2, <1>3, <1>4 DEF Next, Alive, LoopStep

\* get_url is called when the seeds are done, and the limit with them; so it
\* never puts a URL back, and the entry it waits with stays in the table.
Asking ==
  /\ getter.pc \in {"idle", "getting", "sleeping"}
  /\ getter.pc # "idle" => RunsLoop /\ urlsPerHour = 0
  /\ RunsLoop => urlsPerHour = 0 \/ Seeding(job[Loop])
  /\ getter.pc = "sleeping" => getter.orphan = FALSE

\* The table never thinks a request longer ago than it is, and a sleep covers
\* what is left of the delay.
Waited ==
  /\ \A d \in Domains : domains[d].since <= gap[d]
  /\ getter.pc = "sleeping" =>
       gap[Dom(getter.item)] + getter.wait >= Delay(Dom(getter.item))

\* The loop's patience is what it was when the URL was taken, less the sleep.
Patient ==
  ~late =>
    /\ getter.pc = "sleeping" => patience + Delay(Dom(getter.item)) >= GetTimeout + getter.wait
    /\ getter.pc = "getting" /\ queue # <<>> => patience = GetTimeout

Serves == Shape /\ Apart /\ Asking /\ Waited /\ Patient

\* Without an hourly limit get_url returns what it has waited with.
LEMMA UnlimitedTurn ==
  ASSUME urlsPerHour = 0, NEW item, NEW keys, NEW rest, Turn(item, keys, rest, FALSE)
  PROVE  /\ getter' = NoGet /\ queue' = rest /\ urlsPerHour' = 0
         /\ domains' = [Evict(domains, {}) EXCEPT ![Dom(item)].since = 0]
<1>1. ~HourOver /\ ~LimitReached
  BY DEF HourOver, LimitReached
<1>2. Return(item, keys, rest, FALSE)
  BY <1>1 DEF Turn, PutBack
<1> QED BY <1>1, <1>2 DEF Return

\* With no entry to evict the table stays.
LEMMA EvictNothing ==
  ASSUME NEW table \in [Domains -> DomainState]
  PROVE  Evict(table, {}) = table
BY DEF Evict

\* What one run of get_url does for the loop.
GetReturns(item) ==
  /\ item \in Item /\ Returns(item)
  /\ getter' = NoGet
  /\ domains' = [domains EXCEPT ![Dom(item)].since = 0]
  /\ job' = [job EXCEPT ![Loop] = Taken(item, FALSE)]
  /\ gap' = [gap EXCEPT ![Dom(item)] = 0]
  /\ gap[Dom(item)] >= Delay(Dom(item))

GetSleeps(item) ==
  /\ item \in Item
  /\ getter.pc = "getting" /\ queue # <<>>
  /\ getter' = [pc |-> "sleeping", item |-> item,
                wait |-> Delay(Dom(item)) - domains[Dom(item)].since, orphan |-> FALSE]
  /\ UNCHANGED <<domains, job, gap>>

\* get_url, run for the loop, returns a URL or begins to sleep for one.
LEMMA LoopRunGetIs ==
  ASSUME Serves, LoopRunGet
  PROVE  /\ urlsPerHour' = 0 /\ patience' = patience /\ late' = late
         /\ \E item : \/ GetReturns(item) /\ (getter.item # None => item = getter.item)
                      \/ GetSleeps(item)
<1>0. /\ domains \in [Domains -> DomainState] /\ queue \in Seq(Item) /\ getter \in GetState
      /\ GetterShape /\ gap \in [Domains -> 0 .. LongAgo] /\ GetStep
  BY DEF Serves, Shape, SchedTypeOK, RestTyped, LoopRunGet
<1>1. urlsPerHour = 0 /\ patience' = patience /\ late' = late
  BY <1>0 DEF Serves, Asking, LoopRunGet, timeouts, GetStep, Dequeue, Wake, FinishPutBack, ResumeAfterLimit
<1>2. ASSUME NEW item \in Item, NEW keys, NEW rest, Turn(item, keys, rest, FALSE),
             \A j : Returns(j) => j = item, gap[Dom(item)] >= Delay(Dom(item))
      PROVE  urlsPerHour' = 0 /\ GetReturns(item)
  <2>1. getter' = NoGet /\ urlsPerHour' = 0
    BY <1>1, <1>2, UnlimitedTurn
  <2>2. domains' = [domains EXCEPT ![Dom(item)].since = 0]
    <3>1. domains' = [Evict(domains, {}) EXCEPT ![Dom(item)].since = 0]
      BY <1>1, <1>2, UnlimitedTurn
    <3> QED BY <1>0, <3>1, EvictNothing
  <2>3. getter'.pc = "idle"
    BY <2>1 DEF NoGet
  <2>4. PICK j \in Item : Returns(j) /\ Become(Loop, Taken(j, FALSE)) /\ gap' = [gap EXCEPT ![Dom(j)] = 0]
    BY <2>3 DEF LoopRunGet
  <2>5. j = item
    BY <1>2, <2>4
  <2> QED BY <1>2, <2>1, <2>2, <2>4, <2>5 DEF GetReturns, Become
<1>3. CASE Dequeue
  <2> DEFINE item == Head(queue)
             d == Dom(item)
  <2>1. /\ queue # <<>> /\ item \in Item /\ d \in Domains
        /\ getter.pc = "getting" /\ getter.item = None
    BY <1>0, <1>3, DomType DEF Dequeue, GetterShape
  <2>2. \A j : Returns(j) => j = item
    BY <2>1 DEF Returns
  <2>3. CASE domains[d].since >= Delay(d)
    <3>1. Turn(item, tracked \cup {d}, Tail(queue), FALSE)
      BY <1>3, <2>3 DEF Dequeue
    <3>2. gap[d] >= Delay(d)
      <4>1. domains[d].since <= gap[d] /\ domains[d].since \in 0 .. LongAgo /\ gap[d] \in 0 .. LongAgo
        BY <1>0, <2>1 DEF Serves, Waited, DomainState
      <4>2. Delay(d) \in 0 .. StaleAfter
        BY <1>0, <2>1, DelayType
      <4> QED BY <2>3, <4>1, <4>2, SchedulerAssumption DEF LongAgo
    <3> HIDE DEF item
    <3> QED BY <1>1, <1>2, <2>1, <2>2, <3>1, <3>2
  <2>4. CASE ~(domains[d].since >= Delay(d))
    <3>1. /\ getter' = [pc |-> "sleeping", item |-> item,
                        wait |-> Delay(d) - domains[d].since, orphan |-> FALSE]
          /\ domains' = domains /\ urlsPerHour' = urlsPerHour
      BY <1>3, <2>4 DEF Dequeue
    <3>2. getter'.pc # "idle"
      BY <3>1
    <3>3. UNCHANGED <<job, gap>>
      BY <3>2 DEF LoopRunGet, Returns
    <3> QED BY <1>1, <2>1, <3>1, <3>3 DEF GetSleeps
  <2> QED BY <2>3, <2>4
<1>4. CASE Wake
  <2> DEFINE item == getter.item
             d == Dom(item)
  <2>1. /\ item \in Item /\ d \in Domains /\ getter.pc = "sleeping" /\ getter.wait = 0
        /\ getter.orphan = FALSE
    BY <1>0, <1>4, DomType DEF Wake, GetState, GetterShape, Serves, Asking
  <2>2. \A j : Returns(j) => j = item
    BY <2>1 DEF Returns
  <2>3. Turn(item, tracked, queue, FALSE)
    BY <1>4, <2>1 DEF Wake
  <2>4. gap[d] >= Delay(d)
    <3>1. gap[d] + 0 >= Delay(d)
      BY <2>1 DEF Serves, Waited
    <3>2. gap[d] \in Nat
      BY <1>0, <2>1
    <3> QED BY <3>1, <3>2
  <2> HIDE DEF item
  <2>5. GetReturns(item) /\ urlsPerHour' = 0
    BY <1>2, <2>1, <2>2, <2>3, <2>4
  <2> QED BY <1>1, <2>5 DEF item
<1>5. ~FinishPutBack /\ ~ResumeAfterLimit
  BY DEF Serves, Asking, FinishPutBack, ResumeAfterLimit
<1> QED BY <1>0, <1>3, <1>4, <1>5 DEF GetStep

\* The steps outside get_url, a step of get_url and the passing of time keep
\* what the loop relies on.
LEMMA CalmServes ==
  ASSUME Serves, Calm
  PROVE  Asking' /\ Waited' /\ Patient'
<1>1. Asking'
  BY DEF Serves, Calm, Asking
<1>2. Waited'
  BY DEF Serves, Calm, Waited
<1>3. Patient'
  BY DEF Calm, Patient
<1> QED BY <1>1, <1>2, <1>3

LEMMA GetServes ==
  ASSUME Serves, LoopRunGet
  PROVE  Asking' /\ Waited' /\ Patient'
<1>0. /\ domains \in [Domains -> DomainState] /\ gap \in [Domains -> 0 .. LongAgo]
      /\ job \in [Callers -> Job] /\ Loop \in Callers /\ GetTimeout \in Nat
      /\ \A d \in Domains : domains[d].since <= gap[d]
      /\ Asking
  BY LoopAssumption DEF Serves, Shape, SchedTypeOK, RestTyped, IInv, JobsGood, Waited
<1>1. urlsPerHour' = 0 /\ patience' = patience /\ late' = late
  BY LoopRunGetIs
<1>2. PICK item : GetReturns(item) \/ GetSleeps(item)
  BY LoopRunGetIs
<1>3. CASE GetReturns(item)
  <2>1. getter'.pc = "idle" /\ Dom(item) \in Domains
    BY <1>3, DomType DEF GetReturns, NoGet
  <2>2. Asking'
    BY <1>1, <2>1 DEF Asking
  <2>3. ASSUME NEW d \in Domains PROVE domains'[d].since <= gap'[d]
    <3>1. CASE d = Dom(item)
      <4>1. domains'[d].since = 0 /\ gap'[d] = 0
        BY <1>0, <1>3, <3>1 DEF GetReturns, DomainState
      <4> QED BY <4>1
    <3>2. CASE d # Dom(item)
      BY <1>0, <1>3, <3>2 DEF GetReturns
    <3> QED BY <3>1, <3>2
  <2>4. Waited'
    BY <2>1, <2>3 DEF Waited
  <2>5. Patient'
    BY <2>1 DEF Patient
  <2> QED BY <2>2, <2>4, <2>5
<1>4. CASE GetSleeps(item)
  <2> DEFINE d == Dom(item)
  <2>1. /\ getter'.pc = "sleeping" /\ getter'.item = item /\ getter'.orphan = FALSE
        /\ getter'.wait = Delay(d) - domains[d].since
        /\ d \in Domains /\ domains' = domains /\ gap' = gap /\ job' = job
        /\ getter.pc = "getting" /\ queue # <<>>
    BY <1>4, DomType DEF GetSleeps
  <2>2. Asking'
    BY <1>0, <1>1, <2>1 DEF Asking
  <2>3. /\ domains[d].since \in 0 .. LongAgo /\ gap[d] \in 0 .. LongAgo /\ Delay(d) \in 0 .. StaleAfter
        /\ domains[d].since <= gap[d]
    BY <1>0, <2>1, DelayType DEF DomainState
  <2>4. Delay(Dom(getter.item))' = Delay(d)
    BY <2>1 DEF Delay
  <2>5. Dom(getter'.item) = d
    BY <2>1
  <2>6. ~late => patience = GetTimeout
    BY <2>1 DEF Serves, Patient
  <2> HIDE DEF d
  <2>7. Waited'
    <3>1. gap[d] + getter'.wait >= Delay(d)
      BY <2>1, <2>3, SchedulerAssumption DEF LongAgo
    <3> QED BY <1>0, <2>1, <2>4, <2>5, <3>1 DEF Waited
  <2>8. Patient'
    <3>1. ~late => patience + Delay(d) >= GetTimeout + getter'.wait
      BY <1>0, <2>1, <2>3, <2>6, SchedulerAssumption DEF LongAgo
    <3> QED BY <1>1, <2>1, <2>4, <3>1 DEF Patient
  <2> QED BY <2>2, <2>7, <2>8
<1> QED BY <1>2, <1>3, <1>4

LEMMA ElapseServes ==
  ASSUME Serves, Elapse
  PROVE  Asking' /\ Waited' /\ Patient'
<1>0. /\ domains \in [Domains -> DomainState] /\ gap \in [Domains -> 0 .. LongAgo]
      /\ getter \in GetState /\ LongAgo \in Nat /\ LongAgo > StaleAfter
      /\ GetterShape /\ Asking /\ Waited /\ Patient
      /\ patience \in 0 .. GetTimeout /\ GetTimeout \in Nat /\ late \in BOOLEAN
  BY LoopFacts, SchedulerAssumption DEF Serves, Shape, SchedTypeOK, RestTyped, LongAgo
<1>1. /\ UNCHANGED <<job, queue, urlsPerHour>>
      /\ getter'.pc = getter.pc /\ getter'.item = getter.item /\ getter'.orphan = getter.orphan
      /\ patience' = Larger(patience - 1, 0)
      /\ late' = (late \/ HeldUp)
  BY <1>0 DEF Elapse, Tick, GetState
<1>2. Asking'
  BY <1>0, <1>1 DEF Asking
<1>3. ASSUME NEW d \in Domains
      PROVE  /\ gap'[d] = IF gap[d] < LongAgo THEN gap[d] + 1 ELSE gap[d]
             /\ domains'[d].since = IF domains[d].since < LongAgo THEN domains[d].since + 1
                                    ELSE domains[d].since
             /\ domains'[d].delay = domains[d].delay
             /\ domains[d].since \in 0 .. LongAgo /\ gap[d] \in 0 .. LongAgo
  BY <1>0, SchedulerAssumption DEF Elapse, Tick, DomainState, Smaller, LongAgo
<1>4. ASSUME NEW d \in Domains PROVE domains'[d].since <= gap'[d]
  <2>1. domains[d].since <= gap[d]
    BY <1>0 DEF Waited
  <2> QED BY <1>0, <1>3, <2>1
<1> DEFINE h == Dom(getter.item)
<1>5. ASSUME getter.pc = "sleeping"
      PROVE  /\ h \in Domains /\ Delay(h) \in 0 .. StaleAfter /\ getter.wait \in Nat
             /\ getter'.wait = Larger(getter.wait - 1, 0)
             /\ Dom(getter'.item) = h /\ Delay(h)' = Delay(h)
  <2>1. h \in Domains /\ getter.wait \in Nat
    BY <1>0, <1>5, DomType DEF GetterShape, GetState
  <2>2. getter'.wait = Larger(getter.wait - 1, 0)
    BY <1>0, <1>5 DEF Elapse, Tick, GetState
  <2>3. Dom(getter'.item) = h
    BY <1>1
  <2>4. Delay(h)' = Delay(h)
    <3>1. h' = h
      BY <2>3
    <3> HIDE DEF h
    <3> QED BY <1>3, <2>1, <3>1 DEF Delay
  <2>5. Delay(h) \in 0 .. StaleAfter
    BY <1>0, <2>1, DelayType
  <2> QED BY <2>1, <2>2, <2>3, <2>4, <2>5
<1>6. Waited'
  <2>1. ASSUME getter.pc = "sleeping" PROVE gap'[h] + getter'.wait >= Delay(h)'
    <3>1. gap[h] + getter.wait >= Delay(h)
      BY <1>0, <2>1 DEF Waited
    <3> HIDE DEF h
    <3> QED BY <1>0, <1>3, <1>5, <2>1, <3>1, SchedulerAssumption DEF Larger
  <2> QED BY <1>1, <1>4, <2>1 DEF Waited
<1>7. Patient'
  <2>1. ASSUME ~late', getter.pc = "sleeping"
        PROVE  patience' + Delay(h)' >= GetTimeout + getter'.wait
    <3>1. ~late /\ getter.wait # 0
      BY <1>1, <2>1 DEF HeldUp
    <3>2. patience + Delay(h) >= GetTimeout + getter.wait
      BY <1>0, <2>1, <3>1 DEF Patient
    <3> HIDE DEF h
    <3> QED BY <1>0, <1>1, <1>5, <2>1, <3>1, <3>2, SchedulerAssumption DEF Larger
  <2>2. ~late' => ~(getter.pc = "getting" /\ queue # <<>>)
    BY <1>1 DEF HeldUp
  <2> QED BY <1>1, <2>1, <2>2 DEF Patient
<1> QED BY <1>2, <1>6, <1>7

LEMMA ServesInductive ==
  ASSUME Callers = {Loop}, Serves, [Next]_vars
  PROVE  Serves'
<1>0. Shape /\ Apart /\ Asking /\ Waited /\ Patient
  BY DEF Serves
<1>1. Shape' /\ Apart'
  BY <1>0, ShapeInductive, ApartKept
<1>2. Asking' /\ Waited' /\ Patient'
  <2>1. CASE Calm
    BY <2>1, CalmServes
  <2>2. CASE LoopGet
    <3>1. /\ getter'.pc = "getting" /\ UNCHANGED <<domains, queue, urlsPerHour, job, gap>>
          /\ patience' = GetTimeout /\ RunsLoop /\ job[Loop] = Idle
      BY <2>2 DEF LoopGet, GetUrl, NoGet, NewPatience
    <3>2. Asking'
      BY <1>0, <3>1, IdleOutside DEF Asking, Seeding
    <3>3. Waited' /\ Patient'
      BY <1>0, <3>1 DEF Waited, Patient
    <3> QED BY <3>2, <3>3
  <2>3. CASE LoopRunGet
    BY <2>3, GetServes
  <2>4. CASE LoopTimeout
    <3>1. getter'.pc = "idle" /\ UNCHANGED <<domains, urlsPerHour, gap>>
      BY <2>4 DEF LoopTimeout, NoGet
    <3>2. Asking'
      <4>1. getter.pc # "idle"
        BY <2>4 DEF LoopTimeout, Waits
      <4> QED BY <1>0, <3>1, <4>1 DEF Asking
    <3>3. Waited' /\ Patient'
      BY <1>0, <3>1 DEF Waited, Patient
    <3> QED BY <3>2, <3>3
  <2>5. CASE Elapse
    BY <2>5, ElapseServes
  <2>6. CASE Crash
    <3>1. /\ getter'.pc = "idle" /\ job' = FreshJobs
          /\ \A d \in Domains : domains'[d].since = LongAgo /\ gap'[d] = LongAgo
      BY <2>6 DEF Crash, NoGet, NewDomain
    <3>2. RunsLoop => Seeding(FreshJobs[Loop])
      BY LoopAssumption DEF FreshJobs, Idle, Seeding
    <3>3. LongAgo \in Nat
      BY SchedulerAssumption DEF LongAgo
    <3> QED BY <3>1, <3>2, <3>3 DEF Asking, Waited, Patient
  <2>7. CASE UNCHANGED vars
    <3>1. UNCHANGED <<domains, getter, queue, urlsPerHour, job, gap, patience, late>>
      BY <2>7 DEF vars, schedVars, timeouts
    <3>2. Asking'
      BY <1>0, <3>1 DEF Asking
    <3>3. Waited'
      BY <1>0, <3>1 DEF Waited, Delay
    <3>4. Patient'
      BY <1>0, <3>1 DEF Patient, Delay
    <3> QED BY <3>2, <3>3, <3>4
  <2> QED BY <1>0, <2>1, <2>2, <2>3, <2>4, <2>5, <2>6, <2>7, Alone
<1> QED BY <1>1, <1>2 DEF Serves

LEMMA ServesInitial == Init => Serves
<1> SUFFICES ASSUME Init PROVE Serves
  OBVIOUS
<1>1. Shape /\ Apart
  BY ShapeInitial, ApartInitial
<1>2. getter.pc = "idle"
  BY DEF Init, SchedInit, NoGet
<1>3. \A d \in Domains : domains[d].since <= gap[d]
  BY SchedulerAssumption DEF Init, SchedInit, NewDomain, LongAgo
<1>4. RunsLoop => Seeding(job[Loop])
  BY LoopAssumption DEF Init, FreshJobs, Idle, Seeding
<1>5. Asking /\ Waited /\ Patient
  BY <1>2, <1>3, <1>4 DEF Asking, Waited, Patient
<1> QED BY <1>1, <1>5 DEF Serves

\* In a serve process, where only the loop crawls, two URLs of a domain that the
\* loop takes from get_url are crawled at least the delay in force apart, for any
\* delays, limits and web, as long as the process lives (a restart forgets when
\* the last requests were, and gap with it): an eviction forgets only domains that have been
\* quiet for longer than any delay, and a sleep that is cancelled starts anew.
THEOREM LoopIsPolite ==
  ASSUME Callers = {Loop}
  PROVE  Spec => Politeness
<1>1. Serves /\ [Next]_vars => [Starts /\ getter.pc # "idle" => OnTime]_vars
  <2> SUFFICES ASSUME Serves, [Next]_vars, Starts, getter.pc # "idle"
               PROVE  OnTime
    OBVIOUS
  <2>1. Calm \/ LoopGet \/ LoopRunGet \/ LoopTimeout \/ Elapse \/ Crash \/ UNCHANGED vars
    BY Alone DEF Serves
  <2>2. LoopRunGet
    <3>1. ~Calm /\ ~LoopGet
      BY DEF Calm, LoopGet, GetUrl
    <3>2. ~LoopTimeout
      <4>1. ASSUME LoopTimeout PROVE job'[Loop].pc \in {"idle", "reseeding"}
        <5>1. job[Loop].pc = "idle"
          BY IdleOutside DEF Serves, Apart, LoopWaits
        <5> DEFINE k == [Idle EXCEPT !.pc = "reseeding", !.seeds = Seeds]
        <5>2. k.pc = "reseeding"
          BY DEF Idle
        <5> HIDE DEF k
        <5>3. job' = job \/ job' = [job EXCEPT ![Loop] = k]
          BY <4>1 DEF LoopTimeout, k
        <5>4. job \in [Callers -> Job] /\ Loop \in Callers
          BY LoopFacts DEF Serves, Shape, IInv, JobsGood
        <5> QED BY <5>1, <5>2, <5>3, <5>4
      <4> QED BY <4>1 DEF Starts
    <3>3. ~Elapse /\ ~UNCHANGED vars
      BY DEF Elapse, vars, Starts
    <3>4. ~Crash
      <4> DEFINE k == [Idle EXCEPT !.pc = "seeding", !.seeds = Seeds]
      <4>1. k.pc = "seeding" /\ Idle.pc = "idle"
        BY DEF Idle
      <4>2. FreshJobs[Loop] = k \/ FreshJobs[Loop] = Idle
        BY LoopFacts DEF FreshJobs
      <4> HIDE DEF k
      <4>3. Crash => job'[Loop] = k \/ job'[Loop] = Idle
        BY <4>2 DEF Crash
      <4> QED BY <4>1, <4>3 DEF Starts
    <3> QED BY <2>1, <3>1, <3>2, <3>3, <3>4
  <2>3. PICK item : GetReturns(item) \/ GetSleeps(item)
    BY <2>2, LoopRunGetIs
  <2>4. GetReturns(item)
    BY <2>3 DEF GetSleeps, Starts
  <2>5. job'[Loop].item = item
    BY <2>4, TakenInside, LoopAssumption DEF GetReturns, Serves, Shape, IInv, JobsGood
  <2> QED BY <2>4, <2>5 DEF OnTime, GetReturns
<1>2. Serves /\ [Next]_vars => Serves'
  BY ServesInductive
<1> QED BY <1>1, <1>2, ServesInitial, PTL DEF Spec, Politeness

\* Then too a URL that get_url has taken is lost to the timeout only when its
\* domain's delay is as long as the loop's patience or something else held up the
\* event loop: patience and sleep run out together.
THEOREM OnlySlowUrlsAreLost ==
  ASSUME Callers = {Loop}
  PROVE  Spec => LostOnlyWhenSlow
<1>1. Serves /\ [Next]_vars
        => [getter.item # None /\ getter'.item = None /\ job'[Loop].item # getter.item
              => late \/ Delay(Dom(getter.item)) >= GetTimeout \/ Crash]_vars
  <2> SUFFICES ASSUME Serves, [Next]_vars, getter.item # None, getter'.item = None,
                      job'[Loop].item # getter.item, ~Crash
               PROVE  late \/ Delay(Dom(getter.item)) >= GetTimeout
    OBVIOUS
  <2>0. getter \in GetState /\ getter.pc = "sleeping"
    BY DEF Serves, Shape, SchedTypeOK, GetterShape, Asking, GetState
  <2>1. Calm \/ LoopGet \/ LoopRunGet \/ LoopTimeout \/ Elapse \/ Crash \/ UNCHANGED vars
    BY Alone DEF Serves
  <2>2. LoopTimeout
    <3>1. ~Calm /\ ~LoopGet
      BY <2>0 DEF Calm, LoopGet, GetUrl
    <3>2. ~LoopRunGet
      <4> SUFFICES ASSUME LoopRunGet PROVE FALSE
        OBVIOUS
      <4>1. PICK item : \/ GetReturns(item) /\ (getter.item # None => item = getter.item)
                        \/ GetSleeps(item)
        BY LoopRunGetIs
      <4>2. GetReturns(getter.item)
        BY <2>0, <4>1 DEF GetSleeps
      <4>3. job'[Loop].item = getter.item
        BY <4>2, TakenInside, LoopAssumption DEF GetReturns, Serves, Shape, IInv, JobsGood
      <4> QED BY <4>3
    <3>3. ~Elapse /\ ~UNCHANGED vars
      BY <2>0 DEF Elapse, Tick, GetState, vars, schedVars
    <3> QED BY <2>1, <3>1, <3>2, <3>3
  <2>3. patience = 0
    BY <2>2 DEF LoopTimeout
  <2>4. ~late => patience + Delay(Dom(getter.item)) >= GetTimeout + getter.wait
    BY <2>0 DEF Serves, Patient
  <2>5. Delay(Dom(getter.item)) \in Nat /\ getter.wait \in Nat /\ GetTimeout \in Nat
    <3>1. Dom(getter.item) \in Domains /\ domains \in [Domains -> DomainState]
      BY <2>0, DomType DEF GetState, Serves, Shape, SchedTypeOK
    <3>2. Delay(Dom(getter.item)) \in 0 .. StaleAfter
      BY <3>1, DelayType
    <3> QED BY <2>0, <3>2, LoopAssumption, SchedulerAssumption DEF GetState
  <2> QED BY <2>3, <2>4, <2>5
<1>2. Serves /\ [Next]_vars => Serves'
  BY ServesInductive
<1> QED BY <1>1, <1>2, ServesInitial, PTL DEF Spec, LostOnlyWhenSlow

-----------------------------------------------------------------------------
(***************************************************************************)
(* The tool calls over this crawler, for any pages and queries, any number *)
(* of overlapping calls, any sizes and times of the cache, any removals,   *)
(* imports and kills.  Every step is a step of CrawlLoop, whose invariants *)
(* carry over, or the removal or import of a page, which CrawlLoop does    *)
(* not know.                                                               *)
(***************************************************************************)
(* What CrawlLoop proves, with removals and imports. *)

LEMMA ToolSteps ==
  ASSUME [ToolNext]_allVars
  PROVE  [Next]_vars \/ RemoveUrl \/ Import
<1>1. ASSUME NEW s \in Searchers, Search(s) \/ SearchEnd(s) PROVE UNCHANGED vars
  BY <1>1 DEF Search, SearchHit, SearchMiss, SearchEnd
<1>2. ASSUME NEW t \in Direct, FetchTool(t) \/ CrawlTool(t) PROVE Next
  BY <1>2 DEF FetchTool, CrawlTool, Next, Alive
<1> QED
  BY <1>1, <1>2 DEF ToolNext, ToolElapse, ToolCrash, Next, Alive, allVars

\* Other rows, and everything as it was.
LEMMA OtherRowsKeep ==
  ASSUME Shape, stored' \subseteq Rows,
         UNCHANGED <<schedVars, job, patience, dedup, mapped, crawled, news, wins, gap, timeouts>>
  PROVE  Shape'
<1>1. IInv'
  BY SameJobs DEF Shape
<1>2. SchedTypeOK' /\ GetterShape'
  BY DEF Shape, SchedTypeOK, GetterShape, schedVars
<1>3. RestTyped'
  BY DEF Shape, RestTyped, timeouts
<1> QED BY <1>1, <1>2, <1>3 DEF Shape

\* A removal takes a row, an import adds one, and both leave the rest.
LEMMA RemovalKeeps == Shape /\ RemoveUrl => Shape'
<1> SUFFICES ASSUME Shape, RemoveUrl PROVE Shape'
  OBVIOUS
<1>1. stored' \subseteq Rows
  BY DEF RemoveUrl, RemoveUrlRow, Shape, RestTyped
<1> QED BY <1>1, OtherRowsKeep DEF RemoveUrl, RemoveUrlRow

LEMMA ImportKeeps == Shape /\ Import => Shape'
<1> SUFFICES ASSUME Shape, Import PROVE Shape'
  OBVIOUS
<1>1. stored' \subseteq Rows
  BY ToolAssumption DEF Import, Shape, RestTyped
<1> QED BY <1>1, OtherRowsKeep DEF Import

LEMMA ToolShapeKept == Shape /\ [ToolNext]_allVars => Shape'
BY ToolSteps, RemovalKeeps, ImportKeeps, ShapeInductive

LEMMA ToolShape == ToolSpec => []Shape
<1>1. ToolInit => Shape
  BY ShapeInitial DEF ToolInit
<1> QED BY <1>1, ToolShapeKept, PTL DEF ToolSpec

\* However many tool calls overlap, whatever is removed or imported and however
\* often the process is killed, at most one unforced crawl takes a text for a
\* new one, until a changed page has put another text over its mark and the
\* process has been started again: remove_url leaves the dedup database as it
\* is.
THEOREM ToolSuccessOnce == ToolSpec => []OneSuccessPerText
<1>1. Shape => OneSuccessPerText
  BY DEF Shape, IInv, WinsGood
<1> QED BY ToolShape, <1>1, PTL

\* Every row that a crawl ever put in documents has its URL in the dedup
\* database, with tool calls that overlap, imports and removals, and its text
\* too, there or in the SimHash index, until the page has changed and the
\* process has been started again.
THEOREM ToolIndexedKnown == ToolSpec => []IndexedIsKnown
<1>1. Shape => IndexedIsKnown
  BY DEF Shape, IInv, RowsGood
<1> QED BY ToolShape, <1>1, PTL

\* crawl_url answers "duplicate content" only for a text that a crawl took for
\* new, or that a forced crawl or a page with another canonical URL recorded,
\* though that page may have been removed since; never because of an import.
THEOREM ToolDuplicatesExplained == ToolSpec => DuplicateIsExplained
<1>1. Shape => [\A t \in Callers : \A p \in Pages :
                  FetchDuplicate(t, p) => wins[p.text].plain > 0 \/ wins[p.text].other]_vars
  <2>1. ASSUME IInv, NEW t \in Callers, NEW p \in Pages, FetchDuplicate(t, p)
        PROVE  wins[p.text].plain > 0 \/ wins[p.text].other
    BY <2>1, KnownIsNear DEF IInv, WinsGood, TextsExplained, Explained, FetchDuplicate
  <2> QED
    BY <2>1 DEF Shape
<1> QED BY ToolShape, <1>1, PTL DEF DuplicateIsExplained

-----------------------------------------------------------------------------
(* The cache of answers: what its operations do to a sequence of entries for *)
(* different queries.                                                      *)

OnePerQuery(c) == \A i, j \in DOMAIN c : c[i].query = c[j].query => i = j

\* Every entry of the one sequence is an entry of the other.
Among(c, e) == \A i \in DOMAIN c : \E j \in DOMAIN e : c[i] = e[j]

\* A cache without one query is as long as before or shorter by its entry.
LEMMA WithoutIs ==
  ASSUME cache \in Seq(Entry), OnePerQuery(cache), NEW q
  PROVE  /\ Without(q) \in Seq(Entry)
         /\ Len(Without(q)) = IF Cached(q) THEN Len(cache) - 1 ELSE Len(cache)
         /\ OnePerQuery(Without(q))
         /\ Among(Without(q), cache)
         /\ \A i \in DOMAIN Without(q) : Without(q)[i].query # q
<1>1. CASE ~Cached(q)
  BY <1>1 DEF Without, Cached, Among, OnePerQuery
<1>2. CASE Cached(q)
  <2> DEFINE k == CHOOSE i \in DOMAIN cache : cache[i].query = q
             front == SubSeq(cache, 1, k - 1)
             back == SubSeq(cache, k + 1, Len(cache))
             w == front \o back
  <2>1. k \in 1 .. Len(cache) /\ cache[k].query = q /\ Len(cache) \in Nat
    BY <1>2 DEF Cached
  <2>2. Without(q) = w
    BY <1>2 DEF Without
  <2> HIDE DEF k
  <2>3. /\ front \in Seq(Entry) /\ Len(front) = k - 1
        /\ \A i \in 1 .. k - 1 : front[i] = cache[i]
    BY <2>1, SubSeqProperties
  <2>4. /\ back \in Seq(Entry) /\ Len(back) = Len(cache) - k
        /\ \A i \in 1 .. Len(cache) - k : back[i] = cache[k + i]
    <3>1. /\ k + 1 \in Int /\ Len(cache) \in Int
          /\ \A i \in k + 1 .. Len(cache) : cache[i] \in Entry
      BY <2>1
    <3>2. /\ back \in Seq(Entry)
          /\ Len(back) = IF k + 1 <= Len(cache) THEN Len(cache) - (k + 1) + 1 ELSE 0
          /\ \A i \in 1 .. Len(cache) - (k + 1) + 1 : back[i] = cache[(k + 1) + i - 1]
      <4> DEFINE m == k + 1
      <4> HIDE DEF m
      <4>1. /\ back \in Seq(Entry)
            /\ Len(back) = IF m <= Len(cache) THEN Len(cache) - m + 1 ELSE 0
            /\ \A i \in 1 .. Len(cache) - m + 1 : back[i] = cache[m + i - 1]
        BY <3>1, SubSeqProperties DEF m
      <4> QED BY <4>1 DEF m
    <3> HIDE DEF back
    <3>3. Len(back) = Len(cache) - k
      BY <2>1, <3>2
    <3>4. ASSUME NEW i \in 1 .. Len(cache) - k PROVE back[i] = cache[k + i]
      <4>1. back[i] = cache[(k + 1) + i - 1] /\ (k + 1) + i - 1 = k + i
        BY <2>1, <3>2
      <4> QED BY <4>1
    <3> QED BY <3>2, <3>3, <3>4
  <2> HIDE DEF front, back
  <2>5. /\ w \in Seq(Entry) /\ Len(w) = Len(cache) - 1
        /\ \A i \in 1 .. Len(cache) - 1 : w[i] = IF i <= k - 1 THEN front[i] ELSE back[i - (k - 1)]
    <3>1. /\ w \in Seq(Entry) /\ Len(w) = Len(front) + Len(back)
          /\ \A i \in 1 .. Len(front) + Len(back) :
               w[i] = IF i <= Len(front) THEN front[i] ELSE back[i - Len(front)]
      BY <2>3, <2>4, ConcatProperties
    <3> HIDE DEF w
    <3>2. Len(front) + Len(back) = Len(cache) - 1
      BY <2>1, <2>3, <2>4
    <3> QED BY <2>3, <3>1, <3>2
  <2>6. ASSUME NEW i \in 1 .. Len(cache) - 1
        PROVE  w[i] = cache[IF i < k THEN i ELSE i + 1]
    <3>1. CASE i < k
      BY <2>1, <2>3, <2>5, <3>1
    <3>2. CASE ~(i < k)
      <4>1. i - (k - 1) \in 1 .. Len(cache) - k /\ k + (i - (k - 1)) = i + 1
        BY <2>1, <3>2
      <4>2. w[i] = back[i - (k - 1)]
        <5>1. ~(i <= k - 1)
          BY <2>1, <3>2
        <5>2. w[i] = IF i <= k - 1 THEN front[i] ELSE back[i - (k - 1)]
          BY <2>5
        <5> QED BY <5>1, <5>2
      <4>3. back[i - (k - 1)] = cache[k + (i - (k - 1))]
        BY <2>4, <4>1
      <4> QED BY <3>2, <4>1, <4>2, <4>3
    <3> QED BY <3>1, <3>2
  <2>7. DOMAIN w = 1 .. Len(cache) - 1
    BY <2>5
  <2> HIDE DEF w
  <2>8. Among(w, cache)
    <3> SUFFICES ASSUME NEW i \in 1 .. Len(cache) - 1
                 PROVE  \E j \in DOMAIN cache : w[i] = cache[j]
      BY <2>7 DEF Among
    <3>1. (IF i < k THEN i ELSE i + 1) \in DOMAIN cache
      BY <2>1
    <3> QED BY <2>6, <3>1
  <2>9. ASSUME NEW i \in DOMAIN w PROVE w[i].query # q
    <3>1. (IF i < k THEN i ELSE i + 1) \in DOMAIN cache \ {k}
      BY <2>1, <2>7
    <3> QED BY <2>1, <2>6, <2>7, <3>1 DEF OnePerQuery
  <2>10. OnePerQuery(w)
    <3> SUFFICES ASSUME NEW i \in DOMAIN w, NEW j \in DOMAIN w, w[i].query = w[j].query
                 PROVE  i = j
      BY DEF OnePerQuery
    <3> DEFINE a == IF i < k THEN i ELSE i + 1
               b == IF j < k THEN j ELSE j + 1
    <3>1. a \in DOMAIN cache /\ b \in DOMAIN cache
      BY <2>1, <2>7
    <3>2. w[i] = cache[a] /\ w[j] = cache[b]
      BY <2>6, <2>7
    <3>3. a = b
      BY <3>1, <3>2 DEF OnePerQuery
    <3> QED BY <2>1, <2>7, <3>3
  <2> QED BY <1>2, <2>2, <2>5, <2>8, <2>9, <2>10
<1> QED BY <1>1, <1>2

\* An entry that comes last is the one of its query.
LEMMA AppendIs ==
  ASSUME NEW c \in Seq(Entry), OnePerQuery(c), NEW e \in Entry,
         \A i \in DOMAIN c : c[i].query # e.query
  PROVE  /\ Append(c, e) \in Seq(Entry)
         /\ Len(Append(c, e)) = Len(c) + 1
         /\ OnePerQuery(Append(c, e))
         /\ \A i \in DOMAIN Append(c, e) : Append(c, e)[i] = e \/ \E j \in DOMAIN c : Append(c, e)[i] = c[j]
<1> DEFINE d == Append(c, e)
<1>1. /\ d \in Seq(Entry) /\ Len(d) = Len(c) + 1 /\ Len(c) \in Nat
      /\ DOMAIN c = 1 .. Len(c) /\ DOMAIN d = 1 .. Len(c) + 1
      /\ \A i \in 1 .. Len(c) : d[i] = c[i]
      /\ d[Len(c) + 1] = e
  OBVIOUS
<1> HIDE DEF d
<1>2. OnePerQuery(d)
  <2> SUFFICES ASSUME NEW i \in DOMAIN d, NEW j \in DOMAIN d, d[i].query = d[j].query
               PROVE  i = j
    BY DEF OnePerQuery
  <2>1. CASE i \in DOMAIN c /\ j \in DOMAIN c
    BY <1>1, <2>1 DEF OnePerQuery
  <2>2. CASE i = Len(c) + 1 \/ j = Len(c) + 1
    BY <1>1, <2>2
  <2> QED BY <1>1, <2>1, <2>2
<1>3. ASSUME NEW i \in DOMAIN d PROVE d[i] = e \/ \E j \in DOMAIN c : d[i] = c[j]
  <2>1. i = Len(c) + 1 \/ i \in DOMAIN c
    BY <1>1
  <2> QED BY <1>1, <2>1
<1> QED BY <1>1, <1>2, <1>3 DEF d

CacheGood(c) == c \in Seq(Entry) /\ Len(c) <= CacheSize /\ OnePerQuery(c)

\* The answer that is kept is new; what else is in the cache was there.
LEMMA PutInIs ==
  ASSUME CacheGood(cache), NEW q \in Queries, NEW own \in SUBSET Listed
  PROVE  /\ CacheGood(PutIn(q, own))
         /\ \A i \in DOMAIN PutIn(q, own) :
              \/ PutIn(q, own)[i] = [query |-> q, own |-> own, age |-> 0]
              \/ \E j \in DOMAIN cache : PutIn(q, own)[i] = cache[j]
<1> DEFINE e == [query |-> q, own |-> own, age |-> 0]
           full == ~Cached(q) /\ Len(cache) >= CacheSize
<1>0. e \in Entry /\ e.query = q
  BY ToolAssumption DEF Entry
<1>1. CacheSize \in Nat \ {0} /\ cache \in Seq(Entry) /\ Len(cache) <= CacheSize /\ OnePerQuery(cache)
  BY ToolAssumption DEF CacheGood
<1> HIDE DEF e
<1>2. CASE full
  <2> DEFINE c == Tail(cache)
  <2>1. /\ c \in Seq(Entry) /\ Len(c) = Len(cache) - 1 /\ Len(cache) = CacheSize
        /\ DOMAIN c = 1 .. Len(cache) - 1
        /\ \A i \in 1 .. Len(cache) - 1 : c[i] = cache[i + 1] /\ i + 1 \in DOMAIN cache
    BY <1>1, <1>2
  <2>2. PutIn(q, own) = Append(c, e)
    BY <1>2 DEF PutIn, e
  <2> HIDE DEF c
  <2>3. OnePerQuery(c)
    BY <1>1, <2>1 DEF OnePerQuery
  <2>4. \A i \in DOMAIN c : c[i].query # e.query /\ \E j \in DOMAIN cache : c[i] = cache[j]
    BY <1>0, <1>2, <2>1 DEF Cached
  <2>5. /\ Append(c, e) \in Seq(Entry) /\ Len(Append(c, e)) = Len(c) + 1
        /\ OnePerQuery(Append(c, e))
        /\ \A i \in DOMAIN Append(c, e) :
             Append(c, e)[i] = e \/ \E j \in DOMAIN c : Append(c, e)[i] = c[j]
    BY <1>0, <2>1, <2>3, <2>4, AppendIs
  <2> DEFINE d == Append(c, e)
  <2> HIDE DEF d
  <2>6. Len(d) <= CacheSize
    BY <1>1, <2>1, <2>5 DEF d
  <2>7. \A i \in DOMAIN d : d[i] = e \/ \E j \in DOMAIN cache : d[i] = cache[j]
    BY <2>4, <2>5 DEF d
  <2> QED BY <2>2, <2>5, <2>6, <2>7 DEF CacheGood, d, e
<1>3. CASE ~full
  <2> DEFINE c == Without(q)
             d == Append(c, e)
  <2>1. /\ c \in Seq(Entry)
        /\ Len(c) = IF Cached(q) THEN Len(cache) - 1 ELSE Len(cache)
        /\ OnePerQuery(c) /\ Among(c, cache)
        /\ \A i \in DOMAIN c : c[i].query # q
    BY <1>1, WithoutIs
  <2>2. PutIn(q, own) = d
    BY <1>3 DEF PutIn, e
  <2> HIDE DEF c
  <2>3. /\ d \in Seq(Entry) /\ Len(d) = Len(c) + 1 /\ OnePerQuery(d)
        /\ \A i \in DOMAIN d : d[i] = e \/ \E j \in DOMAIN c : d[i] = c[j]
    BY <1>0, <2>1, AppendIs
  <2> HIDE DEF d
  <2>4. Len(d) <= CacheSize
    BY <1>1, <1>3, <2>1, <2>3
  <2>5. \A i \in DOMAIN d : d[i] = e \/ \E j \in DOMAIN cache : d[i] = cache[j]
    BY <2>1, <2>3 DEF Among
  <2> QED BY <2>2, <2>3, <2>4, <2>5 DEF CacheGood, e
<1> QED BY <1>2, <1>3

\* A hit moves an entry to the end.
LEMMA HitIs ==
  ASSUME CacheGood(cache), NEW q, SearchHit(q)
  PROVE  CacheGood(cache') /\ Among(cache', cache)
<1>1. cache \in Seq(Entry) /\ Len(cache) <= CacheSize /\ OnePerQuery(cache) /\ Cached(q)
  BY DEF CacheGood, SearchHit, Fresh
<1> DEFINE e == EntryOf(q)
           c == Without(q)
<1>2. e \in Entry /\ e.query = q /\ \E j \in DOMAIN cache : e = cache[j]
  <2> DEFINE k == CHOOSE i \in DOMAIN cache : cache[i].query = q
  <2>1. k \in DOMAIN cache /\ cache[k].query = q
    BY <1>1 DEF Cached
  <2>2. e = cache[k]
    BY DEF EntryOf
  <2> HIDE DEF k
  <2> QED BY <1>1, <2>1, <2>2
<1>3. /\ c \in Seq(Entry) /\ Len(c) = Len(cache) - 1
      /\ OnePerQuery(c) /\ Among(c, cache)
      /\ \A i \in DOMAIN c : c[i].query # q
  BY <1>1, WithoutIs
<1>4. cache' = Append(c, e)
  BY DEF SearchHit
<1> HIDE DEF e, c
<1>5. /\ cache' \in Seq(Entry) /\ Len(cache') = Len(c) + 1 /\ OnePerQuery(cache')
      /\ \A i \in DOMAIN cache' : cache'[i] = e \/ \E j \in DOMAIN c : cache'[i] = c[j]
  BY <1>2, <1>3, <1>4, AppendIs
<1>6. Len(cache') <= CacheSize
  BY <1>1, <1>3, <1>5
<1>7. Among(cache', cache)
  BY <1>2, <1>3, <1>5 DEF Among
<1> QED BY <1>5, <1>6, <1>7 DEF CacheGood

\* A function on 1 .. n is a sequence.
LEMMA TupleOf == ASSUME NEW n \in Nat, NEW f \in [1 .. n -> Entry]
                 PROVE  f \in Seq(Entry) /\ Len(f) = n
OBVIOUS

\* Entries age, up to where they have expired.
LEMMA AgedIs ==
  ASSUME CacheGood(cache), ToolElapse
  PROVE  /\ CacheGood(cache')
         /\ DOMAIN cache' = DOMAIN cache
         /\ \A i \in DOMAIN cache :
              /\ cache'[i].own = cache[i].own
              /\ cache'[i].age = Smaller(cache[i].age + 1, Ttl + 1)
<1>1. /\ cache \in Seq(Entry) /\ Len(cache) <= CacheSize /\ OnePerQuery(cache)
      /\ Len(cache) \in Nat /\ DOMAIN cache = 1 .. Len(cache)
  BY DEF CacheGood
<1>2. cache' = [i \in DOMAIN cache |-> [cache[i] EXCEPT !.age = Smaller(@ + 1, Ttl + 1)]]
  BY DEF ToolElapse
<1>3. ASSUME NEW i \in DOMAIN cache
      PROVE  /\ cache'[i] \in Entry
             /\ cache'[i].query = cache[i].query /\ cache'[i].own = cache[i].own
             /\ cache'[i].age = Smaller(cache[i].age + 1, Ttl + 1)
  <2>1. cache[i] \in Entry
    BY <1>1
  <2>2. Smaller(cache[i].age + 1, Ttl + 1) \in 0 .. Ttl + 1
    BY <2>1, ToolAssumption DEF Entry, Smaller
  <2>3. cache'[i] = [cache[i] EXCEPT !.age = Smaller(cache[i].age + 1, Ttl + 1)]
    BY <1>2
  <2> QED BY <2>1, <2>2, <2>3 DEF Entry
<1>4. DOMAIN cache' = 1 .. Len(cache)
  BY <1>1, <1>2
<1>5. cache' \in Seq(Entry) /\ Len(cache') = Len(cache)
  <2>1. cache' \in [1 .. Len(cache) -> Entry] /\ Len(cache) \in Nat
    BY <1>1, <1>2, <1>3
  <2> QED BY <2>1, TupleOf
<1>6. OnePerQuery(cache')
  BY <1>1, <1>3, <1>4 DEF OnePerQuery
<1> QED BY <1>1, <1>3, <1>4, <1>5, <1>6 DEF CacheGood

-----------------------------------------------------------------------------
(* Type correctness. *)

ToolTyped ==
  /\ calls \in Clients
  /\ search \in [Searchers -> Reading \cup {None}]
  /\ CacheGood(cache)
  /\ gone \in [Listed -> 0 .. Never]

LEMMA ToolTypedKept == Shape /\ ToolTyped /\ [ToolNext]_allVars => ToolTyped'
<1> SUFFICES ASSUME Shape, ToolTyped, [ToolNext]_allVars PROVE ToolTyped'
  OBVIOUS
<1>0. /\ calls \in Clients
      /\ search \in [Searchers -> Reading \cup {None}] /\ CacheGood(cache)
      /\ gone \in [Listed -> 0 .. Never]
      /\ Never \in Nat /\ Never = LongGone + 1 /\ LongGone \in Nat /\ MaxSearch \in Nat
  BY ToolAssumption DEF ToolTyped, Never, LongGone
<1>1. ASSUME UNCHANGED toolVars PROVE ToolTyped'
  BY <1>0, <1>1 DEF toolVars, ToolTyped
<1>2. ASSUME NEW s \in Searchers, NEW q \in Queries, SearchHit(q) PROVE ToolTyped'
  <2>1. CacheGood(cache')
    BY <1>0, <1>2, HitIs
  <2> QED BY <1>0, <1>2, <2>1 DEF SearchHit, ToolTyped
<1>3. ASSUME NEW s \in Searchers, NEW q \in Queries, SearchMiss(s, q) PROVE ToolTyped'
  <2>1. CacheGood(cache')
    <3>1. cache' = Without(q) /\ cache \in Seq(Entry) /\ OnePerQuery(cache) /\ Len(cache) <= CacheSize
      BY <1>0, <1>3 DEF SearchMiss, CacheGood
    <3>2. /\ cache' \in Seq(Entry) /\ OnePerQuery(cache')
          /\ Len(cache') = IF Cached(q) THEN Len(cache) - 1 ELSE Len(cache)
      BY <3>1, WithoutIs
    <3>3. Len(cache') <= CacheSize
      BY <3>1, <3>2, ToolAssumption
    <3> QED BY <3>2, <3>3 DEF CacheGood
  <2>2. [query |-> q, own |-> Found(q), age |-> 0] \in Reading
    BY <1>0, ToolAssumption DEF Found, Reading, Listed
  <2>3. search' \in [Searchers -> Reading \cup {None}]
    BY <1>0, <1>3, <2>2 DEF SearchMiss
  <2> QED BY <1>0, <1>3, <2>1, <2>3 DEF SearchMiss, ToolTyped
<1>4. ASSUME NEW s \in Searchers, SearchEnd(s) PROVE ToolTyped'
  <2>1. search[s] \in Reading
    BY <1>0, <1>4 DEF SearchEnd
  <2>2. search[s].query \in Queries /\ search[s].own \in SUBSET Listed
    BY <2>1 DEF Reading
  <2>3. CacheGood(cache')
    BY <1>0, <1>4, <2>2, PutInIs DEF SearchEnd
  <2> QED BY <1>0, <1>4, <2>3 DEF SearchEnd, ToolTyped
<1>5. CASE RemoveUrl
  <2>1. PICK r \in stored : gone' = [gone EXCEPT ![r.url] = 0]
    BY <1>5 DEF RemoveUrl
  <2>2. 0 \in 0 .. Never
    BY <1>0
  <2> DEFINE z == 0
             Ages == 0 .. Never
  <2>3. gone' = [gone EXCEPT ![r.url] = z] /\ z \in Ages /\ gone \in [Listed -> Ages]
    BY <1>0, <2>1, <2>2
  <2> HIDE DEF z, Ages
  <2>4. gone' \in [Listed -> Ages]
    BY <2>3
  <2> QED BY <1>0, <1>5, <2>4 DEF RemoveUrl, ToolTyped, Ages
<1>6. CASE ToolElapse
  <2>1. CacheGood(cache')
    BY <1>0, <1>6, AgedIs
  <2>2. search' \in [Searchers -> Reading \cup {None}]
    <3>1. ASSUME NEW s \in Searchers, search[s] # None
          PROVE  [search[s] EXCEPT !.age = @ + 1] \in Reading
      <4>1. search[s] \in Reading /\ search[s].age < MaxSearch
        BY <1>0, <1>6, <3>1 DEF ToolElapse
      <4>2. search[s].age + 1 \in 0 .. MaxSearch
        BY <1>0, <4>1 DEF Reading
      <4> QED BY <4>1, <4>2 DEF Reading
    <3> QED BY <1>6, <3>1 DEF ToolElapse
  <2>3. gone' \in [Listed -> 0 .. Never]
    <3>1. \A u \in Listed : gone'[u] = IF gone[u] = Never THEN Never ELSE Smaller(gone[u] + 1, LongGone)
      BY <1>6 DEF ToolElapse
    <3>2. \A u \in Listed : gone'[u] \in 0 .. Never
      BY <1>0, <3>1 DEF Smaller
    <3> QED BY <1>6, <3>2 DEF ToolElapse
  <2> QED BY <1>0, <1>6, <2>1, <2>2, <2>3 DEF ToolElapse, ToolTyped
<1>7. CASE ToolCrash
  <2>1. CacheGood(<<>>)
    BY ToolAssumption DEF CacheGood, OnePerQuery
  <2> QED BY <1>0, <1>7, <2>1 DEF ToolCrash, ToolTyped
<1> QED
  BY <1>1, <1>2, <1>3, <1>4, <1>5, <1>6, <1>7
  DEF ToolNext, Search, FetchTool, CrawlTool, Import, allVars

LEMMA ToolTypedInitial == ToolInit => ToolTyped
<1> SUFFICES ASSUME ToolInit PROVE ToolTyped
  OBVIOUS
<1>1. CacheGood(cache)
  BY ToolAssumption DEF ToolInit, CacheGood, OnePerQuery
<1>2. Never \in 0 .. Never
  BY ToolAssumption DEF Never, LongGone
<1> QED BY <1>1, <1>2 DEF ToolInit, ToolTyped

LEMMA ToolTypes == ToolSpec => [](Shape /\ ToolTyped)
<1>1. ToolInit => Shape /\ ToolTyped
  BY ShapeInitial, ToolTypedInitial DEF ToolInit
<1>2. Shape /\ ToolTyped /\ [ToolNext]_allVars => (Shape /\ ToolTyped)'
  BY ToolShapeKept, ToolTypedKept
<1> QED BY <1>1, <1>2, PTL DEF ToolSpec

\* Every state of the tool calls has the types of ToolTypeOK: the cache never
\* holds more than max_size answers nor two for a query, and no search is older
\* than its timeouts.
THEOREM ToolTypeCorrect == ToolSpec => []ToolTypeOK
<1>1. Shape /\ ToolTyped => ToolTypeOK
  BY ShapeIsType DEF ToolTyped, CacheGood, OnePerQuery, ToolTypeOK
<1> QED BY ToolTypes, <1>1, PTL

-----------------------------------------------------------------------------
(* What is shown of a page that was removed.                               *)

Stored(u) == \E r \in stored : r.url = u

\* A page that a search has read, or that the cache keeps of one, is in the
\* index still, or was removed since the search began.
Shown ==
  /\ \A s \in Searchers :
       search[s] # None => \A u \in search[s].own : Stored(u) \/ gone[u] <= search[s].age
  /\ \A i \in DOMAIN cache :
       cache[i].age <= Ttl => \A u \in cache[i].own : Stored(u) \/ gone[u] <= cache[i].age + MaxSearch

\* A crawl removes no page.
LEMMA CrawlStepStored == ASSUME NEW t \in Callers, CrawlStep(t) PROVE stored \subseteq stored'
BY DEF CrawlStep, Start, GiveUp, Robots, Sitemap, Fetch, FetchFails, FetchCanonical,
       FetchDuplicate, FetchPage, AddNext, AddDone, AddRaises, Store, durable, index

\* A row that fits is one more page of the index.
LEMMA FittingRow ==
  ASSUME NEW r \in Rows, Fits(r), stored' = stored \cup {r}
  PROVE  Index!Next
<1>1. Index!Add(r)
  BY DEF Fits, Index!Add, Index!Alike
<1> QED BY <1>1 DEF Index!Next

\* A crawl adds a row only when none has its URL or its text.
LEMMA CrawlStepIndex ==
  ASSUME IInv, NEW t \in Callers, CrawlStep(t)
  PROVE  Index!Next \/ UNCHANGED stored
<1>1. CASE Store(t)
  <2>1. Row(t) \in Rows
    BY <1>1, RowOfJob DEF Store, OnItsWay
  <2> QED BY <1>1, <2>1, FittingRow DEF Store, index
<1>2. CASE ~Store(t)
  BY <1>2 DEF CrawlStep, Start, GiveUp, Robots, Sitemap, Fetch, FetchFails, FetchCanonical,
         FetchDuplicate, FetchPage, AddNext, AddDone, AddRaises, durable, index
<1> QED BY <1>1, <1>2

\* A removal takes out a row there is.
LEMMA RemovalIndex ==
  ASSUME stored \subseteq Rows, RemoveUrl
  PROVE  Index!Next
<1>1. PICK r \in stored : stored' = stored \ {r}
  BY DEF RemoveUrl, RemoveUrlRow
<1>2. Index!Drop(r) /\ r \in Rows
  BY <1>1 DEF Index!Drop
<1> QED BY <1>2 DEF Index!Next

LEMMA ToolIndexStep ==
  ASSUME Shape, [ToolNext]_allVars
  PROVE  [Index!Next]_stored
<1>1. CASE RemoveUrl
  BY <1>1, RemovalIndex DEF Shape, RestTyped
<1>2. CASE Import
  <2>1. PICK r \in Imports : Fits(r) /\ stored' = stored \cup {r}
    BY <1>2 DEF Import
  <2>2. r \in Rows
    BY ToolAssumption
  <2> QED BY <2>1, <2>2, FittingRow
<1>3. CASE [Next]_vars
  <2>1. ASSUME NEW t \in Callers, CrawlStep(t) PROVE [Index!Next]_stored
    BY <2>1, CrawlStepIndex DEF Shape
  <2> QED
    BY <1>3, <2>1 DEF Next, Alive, Call, LoopStep, SeedNext, SeedDone, LoopGet, LoopRunGet,
       LoopPriority, LoopTimeout, Elapse, Crash, durable, index, vars
<1> QED BY <1>1, <1>2, <1>3, ToolSteps

\* Overlapping crawls, removals, imports and kills change the rows these modules
\* have for an index only as PageIndex allows, which is what DocumentStore, with
\* all the processes at it, was shown to implement too (StoreIsAnIndex in
\* DocumentStore_proofs; index_document, remove_url).
THEOREM ToolsUseTheIndex == ToolSpec => Index!Spec
<1>1. ToolInit => Index!Init
  BY DEF ToolInit, Init, Index!Init
<1>2. Shape /\ [ToolNext]_allVars => [Index!Next]_stored
  BY ToolIndexStep
<1> QED BY <1>1, <1>2, ToolShape, PTL DEF ToolSpec, Index!Spec

\* What is shown depends on the index, which only a removal makes smaller.
LEMMA ShownGrows ==
  ASSUME Shown, stored \subseteq stored', UNCHANGED toolVars
  PROVE  Shown'
BY DEF Shown, Stored, toolVars

LEMMA ShownKept == ToolTyped /\ Shown /\ [ToolNext]_allVars => Shown'
<1> SUFFICES ASSUME ToolTyped, Shown, [ToolNext]_allVars PROVE Shown'
  OBVIOUS
<1>0. /\ search \in [Searchers -> Reading \cup {None}]
      /\ CacheGood(cache) /\ cache \in Seq(Entry)
      /\ gone \in [Listed -> 0 .. Never]
      /\ Never \in Nat /\ Never = LongGone + 1 /\ LongGone = Ttl + MaxSearch + 1
      /\ LongGone \in Nat /\ MaxSearch \in Nat /\ Ttl \in Nat
  BY ToolAssumption DEF ToolTyped, Never, LongGone, CacheGood
<1>1. CASE UNCHANGED allVars
  <2>1. stored' = stored /\ UNCHANGED toolVars
    BY <1>1 DEF allVars, vars, durable, index
  <2> QED BY <2>1, ShownGrows
<1>2. ASSUME NEW t \in Callers, CrawlStep(t) /\ UNCHANGED toolVars PROVE Shown'
  BY <1>2, CrawlStepStored, ShownGrows
<1>3. ASSUME NEW t \in Direct, FetchTool(t) \/ CrawlTool(t) PROVE Shown'
  <2>1. stored' = stored /\ UNCHANGED toolVars
    BY <1>3 DEF FetchTool, CrawlTool, Call, durable, index
  <2> QED BY <2>1, ShownGrows
<1>4. ASSUME NEW s \in Searchers, NEW q \in Queries, SearchHit(q) PROVE Shown'
  <2>1. UNCHANGED <<stored, search, gone>>
    BY <1>4 DEF SearchHit, vars, durable, index
  <2>2. Among(cache', cache)
    BY <1>0, <1>4, HitIs
  <2>3. \A i \in DOMAIN cache' :
          cache'[i].age <= Ttl =>
            \A u \in cache'[i].own : Stored(u) \/ gone[u] <= cache'[i].age + MaxSearch
    BY <2>2 DEF Among, Shown
  <2> QED BY <2>1, <2>3 DEF Shown, Stored
<1>5. ASSUME NEW s \in Searchers, NEW q \in Queries, SearchMiss(s, q) PROVE Shown'
  <2>1. UNCHANGED <<stored, gone>> /\ cache' = Without(q)
    BY <1>5 DEF SearchMiss, vars, durable, index
  <2>2. Among(cache', cache)
    BY <1>0, <2>1, WithoutIs DEF CacheGood
  <2>3. \A i \in DOMAIN cache' :
          cache'[i].age <= Ttl =>
            \A u \in cache'[i].own : Stored(u) \/ gone[u] <= cache'[i].age + MaxSearch
    BY <2>2 DEF Among, Shown
  <2>4. ASSUME NEW o \in Searchers, search'[o] # None, NEW u \in search'[o].own
        PROVE  Stored(u) \/ gone[u] <= search'[o].age
    <3>1. CASE o = s
      <4>1. search'[o].own = Found(q)
        BY <1>0, <1>5, <3>1 DEF SearchMiss
      <4> QED BY <2>4, <4>1 DEF Found, Stored
    <3>2. CASE o # s
      <4>1. search'[o] = search[o]
        BY <1>0, <1>5, <3>2 DEF SearchMiss
      <4> QED BY <2>4, <4>1 DEF Shown
    <3> QED BY <3>1, <3>2
  <2> QED BY <2>1, <2>3, <2>4 DEF Shown, Stored
<1>6. ASSUME NEW s \in Searchers, SearchEnd(s) PROVE Shown'
  <2>1. /\ UNCHANGED <<stored, gone>> /\ search[s] # None
        /\ search' = [search EXCEPT ![s] = None]
        /\ cache' = PutIn(search[s].query, search[s].own)
    BY <1>6 DEF SearchEnd, vars, durable, index
  <2>2. search[s] \in Reading
    BY <1>0, <2>1
  <2>3. /\ search[s].query \in Queries /\ search[s].own \in SUBSET Listed
        /\ search[s].age \in 0 .. MaxSearch
    BY <2>2 DEF Reading
  <2> DEFINE e == [query |-> search[s].query, own |-> search[s].own, age |-> 0]
  <2>4. \A i \in DOMAIN cache' : cache'[i] = e \/ \E j \in DOMAIN cache : cache'[i] = cache[j]
    BY <1>0, <2>1, <2>3, PutInIs
  <2>5. ASSUME NEW u \in e.own PROVE Stored(u) \/ gone[u] <= e.age + MaxSearch
    <3>1. u \in Listed /\ (Stored(u) \/ gone[u] <= search[s].age)
      BY <2>1, <2>3 DEF Shown
    <3>2. gone[u] \in Nat
      BY <1>0, <3>1
    <3>3. search[s].age <= MaxSearch /\ e.age + MaxSearch = MaxSearch
      BY <1>0, <2>3
    <3> QED BY <1>0, <2>3, <3>1, <3>2, <3>3
  <2> HIDE DEF e
  <2>6. \A i \in DOMAIN cache' :
          cache'[i].age <= Ttl =>
            \A u \in cache'[i].own : Stored(u) \/ gone[u] <= cache'[i].age + MaxSearch
    BY <2>4, <2>5 DEF Shown
  <2>7. \A o \in Searchers : search'[o] # None => search'[o] = search[o]
    BY <1>0, <2>1
  <2> QED BY <2>1, <2>6, <2>7 DEF Shown, Stored
<1>7. CASE RemoveUrl
  <2>1. PICK r \in stored : stored' = stored \ {r} /\ gone' = [gone EXCEPT ![r.url] = 0]
    BY <1>7 DEF RemoveUrl, RemoveUrlRow
  <2>2. search' = search /\ cache' = cache
    BY <1>7 DEF RemoveUrl
  <2>3. ASSUME NEW u \in Listed, NEW n \in Nat, Stored(u) \/ gone[u] <= n
        PROVE  Stored(u)' \/ gone'[u] <= n
    <3>1. CASE u = r.url
      BY <1>0, <2>1, <3>1
    <3>2. CASE u # r.url
      BY <1>0, <2>1, <2>3, <3>2 DEF Stored
    <3> QED BY <3>1, <3>2
  <2>4. ASSUME NEW s \in Searchers, search[s] # None, NEW u \in search[s].own
        PROVE  Stored(u)' \/ gone'[u] <= search[s].age
    <3>1. u \in Listed /\ search[s].age \in Nat
      BY <1>0, <2>4 DEF Reading
    <3> QED BY <2>3, <2>4, <3>1 DEF Shown
  <2>5. ASSUME NEW i \in DOMAIN cache, cache[i].age <= Ttl, NEW u \in cache[i].own
        PROVE  Stored(u)' \/ gone'[u] <= cache[i].age + MaxSearch
    <3>1. cache[i] \in Entry
      BY <1>0
    <3>2. u \in Listed /\ cache[i].age + MaxSearch \in Nat
      BY <1>0, <2>5, <3>1 DEF Entry
    <3> QED BY <2>3, <2>5, <3>2 DEF Shown
  <2> QED BY <2>2, <2>4, <2>5 DEF Shown
<1>8. CASE ToolElapse
  <2>1. stored' = stored
    BY <1>8 DEF ToolElapse, Elapse, durable, index
  <2>2. \A u \in Listed : gone'[u] = IF gone[u] = Never THEN Never ELSE Smaller(gone[u] + 1, LongGone)
    BY <1>8 DEF ToolElapse
  <2>3. ASSUME NEW u \in Listed, NEW n \in Nat, gone[u] <= n, n < LongGone PROVE gone'[u] <= n + 1
    <3>1. gone[u] \in Nat /\ gone[u] # Never
      BY <1>0, <2>3
    <3>2. gone'[u] = Smaller(gone[u] + 1, LongGone)
      BY <2>2, <3>1
    <3> QED BY <1>0, <2>3, <3>1, <3>2 DEF Smaller
  <2>4. ASSUME NEW s \in Searchers, search'[s] # None, NEW u \in search'[s].own
        PROVE  Stored(u) \/ gone'[u] <= search'[s].age
    <3>1. search[s] # None /\ search'[s] = [search[s] EXCEPT !.age = @ + 1] /\ search[s].age < MaxSearch
      BY <1>8, <2>4 DEF ToolElapse
    <3>2. search[s] \in Reading
      BY <1>0, <3>1
    <3>3. /\ search'[s].own = search[s].own /\ search'[s].age = search[s].age + 1
          /\ u \in Listed /\ search[s].age \in Nat /\ search[s].age < LongGone
      BY <1>0, <2>4, <3>1, <3>2 DEF Reading
    <3>4. Stored(u) \/ gone[u] <= search[s].age
      BY <2>4, <3>1, <3>3 DEF Shown
    <3> QED BY <2>3, <3>3, <3>4
  <2>5. /\ DOMAIN cache' = DOMAIN cache
        /\ \A i \in DOMAIN cache : /\ cache'[i].own = cache[i].own
                                   /\ cache'[i].age = Smaller(cache[i].age + 1, Ttl + 1)
    BY <1>0, <1>8, AgedIs
  <2>6. ASSUME NEW i \in DOMAIN cache', cache'[i].age <= Ttl, NEW u \in cache'[i].own
        PROVE  Stored(u) \/ gone'[u] <= cache'[i].age + MaxSearch
    <3>1. i \in DOMAIN cache /\ cache[i] \in Entry
      BY <1>0, <2>5
    <3>2. u \in Listed /\ u \in cache[i].own /\ cache[i].age \in Nat
      BY <2>5, <2>6, <3>1 DEF Entry
    <3>3. cache'[i].age = cache[i].age + 1 /\ cache[i].age <= Ttl
      BY <1>0, <2>5, <2>6, <3>1, <3>2 DEF Smaller
    <3>4. Stored(u) \/ gone[u] <= cache[i].age + MaxSearch
      BY <3>1, <3>2, <3>3 DEF Shown
    <3>5. cache[i].age + MaxSearch \in Nat /\ cache[i].age + MaxSearch < LongGone
      BY <1>0, <3>2, <3>3
    <3>6. Stored(u) \/ gone'[u] <= (cache[i].age + MaxSearch) + 1
      BY <2>3, <3>2, <3>4, <3>5
    <3>7. (cache[i].age + MaxSearch) + 1 = cache'[i].age + MaxSearch
      BY <1>0, <3>2, <3>3
    <3> QED BY <3>6, <3>7
  <2> QED BY <2>1, <2>4, <2>6 DEF Shown, Stored
<1>9. CASE ToolCrash
  <2>1. (\A s \in Searchers : search'[s] = None) /\ cache' = <<>>
    BY <1>9 DEF ToolCrash
  <2> QED BY <2>1 DEF Shown
<1>10. CASE Import
  <2>1. stored \subseteq stored' /\ UNCHANGED toolVars
    BY <1>10 DEF Import
  <2> QED BY <2>1, ShownGrows
<1> QED
  BY <1>1, <1>2, <1>3, <1>4, <1>5, <1>6, <1>7, <1>8, <1>9, <1>10 DEF ToolNext, Search

\* A page that was removed is shown for as long at most as one search waits and
\* its answer is kept, for any number of overlapping searches, any timeouts and
\* ttl: though remove_url leaves the cache alone, a search that read the index
\* before the removal puts its answer there after it, and the page may be
\* crawled again in between.
THEOREM RemovedIsSoonGone == ToolSpec => []RemovedSoonGone
<1>1. ToolInit => Shape /\ ToolTyped /\ Shown
  BY ShapeInitial, ToolTypedInitial DEF ToolInit, Shown
<1>2. Shape /\ ToolTyped /\ Shown /\ [ToolNext]_allVars => (Shape /\ ToolTyped /\ Shown)'
  BY ToolShapeKept, ToolTypedKept, ShownKept
<1>3. ToolTyped /\ Shown => RemovedSoonGone
  <2> SUFFICES ASSUME ToolTyped, Shown, NEW q \in Queries, Fresh(q), NEW u \in EntryOf(q).own,
                      ~Stored(u)
               PROVE  gone[u] <= Ttl + MaxSearch
    BY DEF RemovedSoonGone, Stored
  <2>0. /\ cache \in Seq(Entry) /\ gone \in [Listed -> 0 .. Never]
        /\ Never \in Nat /\ MaxSearch \in Nat /\ Ttl \in Nat
    BY ToolAssumption DEF ToolTyped, CacheGood, Never, LongGone
  <2>1. PICK i \in DOMAIN cache : EntryOf(q) = cache[i]
    <3> DEFINE k == CHOOSE i \in DOMAIN cache : cache[i].query = q
    <3>1. k \in DOMAIN cache
      BY DEF Fresh, Cached
    <3>2. EntryOf(q) = cache[k]
      BY DEF EntryOf
    <3> HIDE DEF k
    <3> QED BY <3>1, <3>2
  <2>2. cache[i] \in Entry
    BY <2>0
  <2>3. cache[i].age \in Nat /\ u \in Listed /\ u \in cache[i].own
    BY <2>1, <2>2 DEF Entry
  <2>4. cache[i].age <= Ttl
    BY <2>0, <2>1, <2>3 DEF Fresh, Expired
  <2>5. gone[u] <= cache[i].age + MaxSearch /\ gone[u] \in Nat
    BY <2>0, <2>3, <2>4 DEF Shown
  <2> QED BY <2>0, <2>3, <2>4, <2>5
<1> QED BY <1>1, <1>2, <1>3, PTL DEF ToolSpec

-----------------------------------------------------------------------------
(* How a page that was removed comes back.                                 *)

\* The URL was looked up in the dedup database, and the page is not there yet.
InFlight(j) == j.pc \in {"robots", "sitemap", "fetch"} \/ (j.pc = "add" /\ j.then = "fetch")

\* A crawl without force began before a page with its URL was first indexed, if
\* one is: the text of that page is then in the SimHash index until the process
\* ends.  What it finds is new when it is marked, and while it goes on to the
\* index nothing else runs; if it is blocked in a put no step ends that.
Removed ==
  /\ \A t \in Callers : job[t].pc = "store" => blocked[t] = None
  /\ \A t \in Callers :
       InFlight(job[t]) /\ ~job[t].force => \A r \in crawled : r.url = Url(t) => r.text \in near
  /\ \A t \in Callers :
       OnItsWay(job[t]) /\ blocked[t] = None /\ ~job[t].force => Row(t) \notin crawled

LEMMA MarkDoneBlocked == ASSUME NEW u, NEW n, MarkDone(u, n) PROVE blocked' = blocked
BY DEF MarkDone

\* A put that is not done suspends the caller and nobody else.
LEMMA AddUrlBlocked ==
  ASSUME SchedTypeOK, NEW c \in Callers, NEW item, AddUrl(c, item)
  PROVE  blocked[c] = None /\ \A o \in Callers \ {c} : blocked'[o] = blocked[o]
BY DEF AddUrl, RejectUrl, AcceptUrl, schedVars, SchedTypeOK

\* A job keeps its URL, its force and, on its way, its text.
Keeps(j, k) == k.item = j.item /\ k.force = j.force
OnItsWayAsBefore(j, k) == OnItsWay(k) => OnItsWay(j) /\ Keeps(j, k) /\ k.text = j.text
InFlightAsBefore(j, k) == InFlight(k) => InFlight(j) /\ Keeps(j, k)

LEMMA IdleIsNowhere == ~OnItsWay(Idle) /\ ~InFlight(Idle) /\ Idle.pc = "idle"
BY DEF Idle, OnItsWay, InFlight

LEMMA FreshIsNowhere ==
  \A t \in Callers :
    ~OnItsWay(FreshJobs[t]) /\ ~InFlight(FreshJobs[t]) /\ FreshJobs[t].pc # "store"
<1> DEFINE k == [Idle EXCEPT !.pc = "seeding", !.seeds = Seeds]
<1>1. ~OnItsWay(k) /\ ~InFlight(k) /\ k.pc # "store"
  BY DEF Idle, OnItsWay, InFlight
<1>2. FreshJobs = [t \in Callers |-> IF t = Loop /\ RunsLoop THEN k ELSE Idle]
  BY DEF FreshJobs
<1> HIDE DEF k
<1> QED BY <1>1, <1>2, IdleIsNowhere

\* A step of crawl_url is one task's; a crawl gets in flight by Start only and a
\* page on its way by FetchPage only, and each keeps what it carries.
LEMMA CrawlStepMoves ==
  ASSUME Shape, NEW t \in Callers, CrawlStep(t), job[t].pc = "store" => blocked[t] = None
  PROVE  /\ \A o \in Callers \ {t} : job'[o] = job[o] /\ blocked'[o] = blocked[o]
         /\ blocked'[t] = None => blocked[t] = None
         /\ job'[t].pc = "store" => blocked'[t] = None
         /\ \/ OnItsWayAsBefore(job[t], job'[t])
            \/ \E p \in Pages : FetchPage(t, p) /\ Keeps(job[t], job'[t]) /\ job'[t].text = p.text
         /\ \/ InFlightAsBefore(job[t], job'[t])
            \/ Keeps(job[t], job'[t]) /\ (~HasSeen(Url(t)) \/ job[t].force) /\ Start(t)
<1>0. job \in [Callers -> Job] /\ job[t] \in Job /\ SchedTypeOK
  BY DEF Shape, IInv, JobsGood
<1>00. ASSUME NEW j, Become(t, j) PROVE job'[t] = j /\ \A o \in Callers \ {t} : job'[o] = job[o]
  BY <1>0, <1>00 DEF Become
<1>1. CASE Start(t)
  <2>1. blocked' = blocked
    BY <1>1, MarkDoneBlocked DEF Start, GiveUp, schedVars
  <2> DEFINE k == [job[t] EXCEPT !.pc = "robots"]
  <2>2. k.pc = "robots" /\ Keeps(job[t], k)
    BY <1>0 DEF Job, Keeps
  <2>3. Become(t, Idle) \/ (Become(t, k) /\ (~HasSeen(Url(t)) \/ job[t].force))
    BY <1>1 DEF Start, GiveUp
  <2> HIDE DEF k
  <2> QED
    BY <1>00, <1>1, <2>1, <2>2, <2>3, IdleIsNowhere
    DEF OnItsWay, OnItsWayAsBefore, InFlightAsBefore
<1>2. CASE Robots(t)
  <2>1. blocked' = blocked
    BY <1>2, MarkDoneBlocked DEF Robots, GiveUp, SetCrawlDelay, schedVars
  <2> DEFINE first == SitemapOf[DomainOf[Url(t)]] # {} /\ DomainOf[Url(t)] \notin mapped
             next == IF first THEN "sitemap" ELSE "fetch"
             k == [job[t] EXCEPT !.pc = next]
  <2>2. k.pc \in {"sitemap", "fetch"} /\ Keeps(job[t], k) /\ InFlight(job[t])
    BY <1>0, <1>2 DEF Job, Keeps, Robots, InFlight
  <2>3. Become(t, Idle) \/ Become(t, k)
    BY <1>2 DEF Robots, GiveUp
  <2> HIDE DEF k
  <2> QED
    BY <1>00, <2>1, <2>2, <2>3, IdleIsNowhere DEF OnItsWay, OnItsWayAsBefore, InFlightAsBefore
<1>3. CASE Sitemap(t)
  <2>1. blocked' = blocked
    BY <1>3 DEF Sitemap, schedVars
  <2>2. PICK k : /\ Become(t, k) /\ k.pc = "add" /\ k.then = "fetch" /\ Keeps(job[t], k)
    <3>1. PICK found \in SUBSET SitemapOf[DomainOf[Url(t)]] :
            Become(t, [job[t] EXCEPT !.pc = "add", !.then = "fetch",
                         !.todo = [url : found, depth : {0}]])
      BY <1>3 DEF Sitemap
    <3> DEFINE l == [job[t] EXCEPT !.pc = "add", !.then = "fetch",
                       !.todo = [url : found, depth : {0}]]
    <3>2. l.pc = "add" /\ l.then = "fetch" /\ Keeps(job[t], l)
      BY <1>0 DEF Job, Keeps
    <3> HIDE DEF l
    <3>3. Become(t, l)
      BY <3>1 DEF l
    <3> QED BY <3>2, <3>3
  <2>3. InFlight(job[t])
    BY <1>3 DEF Sitemap, InFlight
  <2> QED
    BY <1>00, <2>1, <2>2, <2>3 DEF OnItsWay, OnItsWayAsBefore, InFlightAsBefore
<1>4. CASE FetchFails(t) \/ \E p \in Pages : FetchDuplicate(t, p)
  <2>1. blocked' = blocked
    BY <1>4, MarkDoneBlocked DEF FetchFails, FetchDuplicate, GiveUp
  <2>2. Become(t, Idle)
    BY <1>4 DEF FetchFails, FetchDuplicate, GiveUp
  <2> QED
    BY <1>00, <2>1, <2>2, IdleIsNowhere DEF OnItsWayAsBefore, InFlightAsBefore
<1>5. CASE \E p \in Pages : FetchCanonical(t, p)
  <2>1. PICK p \in Pages : FetchCanonical(t, p)
    BY <1>5
  <2>2. blocked' = blocked
    BY <2>1, MarkDoneBlocked DEF FetchCanonical
  <2> DEFINE l == [job[t] EXCEPT !.pc = "add", !.then = "idle",
                     !.todo = {[url |-> p.canonical, depth |-> job[t].item.depth]}]
  <2>3. l.pc = "add" /\ l.then = "idle"
    BY <1>0 DEF Job
  <2>4. Become(t, l)
    BY <2>1 DEF FetchCanonical
  <2> HIDE DEF l
  <2> QED
    BY <1>00, <2>2, <2>3, <2>4 DEF OnItsWay, InFlight, OnItsWayAsBefore, InFlightAsBefore
<1>6. CASE \E p \in Pages : FetchPage(t, p)
  <2>1. PICK p \in Pages : FetchPage(t, p)
    BY <1>6
  <2>2. blocked' = blocked
    BY <2>1, MarkDoneBlocked DEF FetchPage
  <2> DEFINE l == [job[t] EXCEPT !.pc = "add", !.then = "store", !.text = p.text,
                     !.todo = Children(job[t].item)]
  <2>3. l.pc = "add" /\ l.then = "store" /\ l.text = p.text /\ Keeps(job[t], l)
    BY <1>0 DEF Job, Keeps
  <2>4. Become(t, l)
    BY <2>1 DEF FetchPage
  <2> HIDE DEF l
  <2>5. /\ job'[t] = l /\ \A o \in Callers \ {t} : job'[o] = job[o]
    BY <1>00, <2>4
  <2>6. InFlightAsBefore(job[t], l)
    BY <2>3 DEF InFlight, InFlightAsBefore
  <2> QED
    BY <2>1, <2>2, <2>3, <2>5, <2>6
<1>7. CASE AddNext(t)
  <2>1. blocked[t] = None /\ \A o \in Callers \ {t} : blocked'[o] = blocked[o]
    BY <1>0, <1>7, AddUrlBlocked DEF AddNext, schedVars
  <2>2. PICK item : Become(t, [job[t] EXCEPT !.todo = job[t].todo \ {item}])
    BY <1>7 DEF AddNext
  <2> DEFINE l == [job[t] EXCEPT !.todo = job[t].todo \ {item}]
  <2>3. /\ l.pc = "add" /\ l.then = job[t].then /\ job[t].pc = "add"
        /\ l.text = job[t].text /\ Keeps(job[t], l)
    BY <1>0, <1>7 DEF AddNext, Job, Keeps
  <2> HIDE DEF l
  <2>4. job'[t] = l /\ \A o \in Callers \ {t} : job'[o] = job[o]
    BY <1>00, <2>2 DEF l
  <2> QED
    BY <2>1, <2>3, <2>4 DEF OnItsWay, InFlight, OnItsWayAsBefore, InFlightAsBefore
<1>8. CASE AddDone(t)
  <2>1. blocked' = blocked /\ blocked[t] = None /\ job[t].pc = "add"
    BY <1>8, MarkDoneBlocked DEF AddDone, schedVars
  <2>2. CASE job[t].then = "idle"
    <3>1. Become(t, Idle)
      BY <1>8, <2>2 DEF AddDone
    <3> QED
      BY <1>00, <2>1, <3>1, IdleIsNowhere DEF OnItsWayAsBefore, InFlightAsBefore
  <2>3. CASE job[t].then # "idle"
    <3> DEFINE k == [job[t] EXCEPT !.pc = job[t].then]
    <3>1. k.pc = job[t].then /\ k.then = job[t].then /\ k.text = job[t].text /\ Keeps(job[t], k)
      BY <1>0 DEF Job, Keeps
    <3>2. Become(t, k)
      BY <1>8, <2>3 DEF AddDone
    <3> HIDE DEF k
    <3>3. job[t].then \in {"idle", "fetch", "store"} \cup Rounds
      BY <2>1 DEF Shape, IInv, JobsGood, GoodJob
    <3>4. job'[t] = k /\ \A o \in Callers \ {t} : job'[o] = job[o]
      BY <1>00, <3>2
    <3>5. OnItsWayAsBefore(job[t], k) /\ InFlightAsBefore(job[t], k)
      BY <2>1, <3>1, <3>3 DEF OnItsWay, InFlight, OnItsWayAsBefore, InFlightAsBefore, Rounds
    <3> QED BY <2>1, <3>4, <3>5
  <2> QED BY <2>2, <2>3
<1>9. CASE AddRaises(t)
  <2>1. blocked' = blocked
    BY <1>9, MarkDoneBlocked DEF AddRaises, schedVars
  <2>2. AfterRaise(job[t].then).pc \in {"idle", "ended"}
    BY RaisedIsGood
  <2> DEFINE k == AfterRaise(job[t].then)
  <2>3. Become(t, k)
    BY <1>9 DEF AddRaises
  <2> HIDE DEF k
  <2> QED
    BY <1>00, <2>1, <2>2, <2>3 DEF k, OnItsWay, InFlight, OnItsWayAsBefore, InFlightAsBefore
<1>10. CASE Store(t)
  <2>1. blocked' = blocked /\ Become(t, Idle)
    BY <1>10 DEF Store, schedVars
  <2> QED
    BY <1>00, <2>1, IdleIsNowhere DEF OnItsWayAsBefore, InFlightAsBefore
<1> QED
  BY <1>1, <1>2, <1>3, <1>4, <1>5, <1>6, <1>7, <1>8, <1>9, <1>10 DEF CrawlStep, Fetch

\* No crawl makes the SimHash index forget, and it stores its own page or none.
LEMMA CrawlStepRemembers ==
  ASSUME NEW t \in Callers, CrawlStep(t)
  PROVE  near \subseteq near' /\ (crawled' = crawled \/ (Store(t) /\ crawled' = crawled \cup {Row(t)}))
BY DEF CrawlStep, Start, GiveUp, Robots, Sitemap, Fetch, FetchFails, FetchCanonical,
       FetchDuplicate, FetchPage, MarkSeen, AddNext, AddDone, AddRaises, Store, durable, dedup, index

\* Where the tasks are, what was indexed and what is known stays as it is.
LEMMA RemovedStays ==
  ASSUME Removed, UNCHANGED <<job, blocked, near, crawled>>
  PROVE  Removed'
BY DEF Removed, Row, Url

LEMMA CrawlKeepsRemoved ==
  ASSUME Shape, Removed, NEW t \in Callers, CrawlStep(t)
  PROVE  Removed'
<1>1. /\ \A o \in Callers \ {t} : job'[o] = job[o] /\ blocked'[o] = blocked[o]
      /\ blocked'[t] = None => blocked[t] = None
      /\ job'[t].pc = "store" => blocked'[t] = None
      /\ \/ OnItsWayAsBefore(job[t], job'[t])
         \/ \E p \in Pages : FetchPage(t, p) /\ Keeps(job[t], job'[t]) /\ job'[t].text = p.text
      /\ \/ InFlightAsBefore(job[t], job'[t])
         \/ Keeps(job[t], job'[t]) /\ (~HasSeen(Url(t)) \/ job[t].force) /\ Start(t)
  BY CrawlStepMoves DEF Removed
<1>2. near \subseteq near' /\ (crawled' = crawled \/ (Store(t) /\ crawled' = crawled \cup {Row(t)}))
  BY CrawlStepRemembers
<1>3. Store(t) => /\ Row(t).text \in near
                  /\ ~OnItsWay(job'[t]) /\ ~InFlight(job'[t])
  <2>1. ASSUME Store(t) PROVE Row(t).text \in near
    BY <2>1, RowOfJob DEF Store, OnItsWay, Shape, Row
  <2>2. ASSUME Store(t) PROVE job'[t] = Idle
    BY <2>2 DEF Store, Become, Shape, IInv, JobsGood
  <2> QED BY <2>1, <2>2, IdleIsNowhere
<1>4. ASSUME NEW o \in Callers, job'[o].pc = "store" PROVE blocked'[o] = None
  BY <1>1, <1>4 DEF Removed
<1>5. ASSUME NEW o \in Callers, InFlight(job'[o]), ~job'[o].force, NEW r \in crawled',
             r.url = job'[o].item.url
      PROVE  r.text \in near'
  <2>1. CASE r \notin crawled
    BY <1>2, <1>3, <2>1
  <2>2. CASE r \in crawled /\ o # t
    BY <1>1, <1>2, <1>5, <2>2 DEF Removed, Url
  <2>3. CASE r \in crawled /\ o = t
    <3>1. CASE InFlightAsBefore(job[t], job'[t])
      BY <1>2, <1>5, <2>3, <3>1 DEF Removed, InFlightAsBefore, Keeps, Url
    <3>2. CASE Keeps(job[t], job'[t]) /\ (~HasSeen(Url(t)) \/ job[t].force)
      <4>1. ~HasSeen(r.url)
        BY <1>5, <2>3, <3>2 DEF Keeps, Url
      <4> QED BY <2>3, <4>1 DEF Shape, IInv, RowsGood, IndexedIsKnown
    <3> QED BY <1>1, <3>1, <3>2
  <2> QED BY <2>1, <2>2, <2>3
<1>6. ASSUME NEW o \in Callers, OnItsWay(job'[o]), blocked'[o] = None, ~job'[o].force
      PROVE  [url |-> job'[o].item.url, text |-> job'[o].text] \notin crawled'
  <2>1. CASE o # t
    <3>1. Running(o)
      BY <1>1, <1>6, <2>1 DEF OnItsWay, Running
    <3> QED BY <2>1, <3>1 DEF CrawlStep, MayRun
  <2>2. CASE o = t
    <3>1. crawled' = crawled /\ blocked[t] = None
      BY <1>1, <1>2, <1>3, <1>6, <2>2
    <3>2. CASE OnItsWayAsBefore(job[t], job'[t])
      BY <1>6, <2>2, <3>1, <3>2 DEF Removed, OnItsWayAsBefore, Keeps, Row, Url
    <3>3. CASE \E p \in Pages : FetchPage(t, p) /\ Keeps(job[t], job'[t]) /\ job'[t].text = p.text
      <4>1. PICK p \in Pages : FetchPage(t, p) /\ Keeps(job[t], job'[t]) /\ job'[t].text = p.text
        BY <3>3
      <4>2. p.text \notin near /\ InFlight(job[t]) /\ ~job[t].force
        BY <1>6, <2>2, <4>1, KnownIsNear DEF FetchPage, Finds, InFlight, Keeps, Shape, IInv
      <4> DEFINE row == [url |-> job'[t].item.url, text |-> p.text]
      <4>3. row.url = Url(t) /\ row.text = p.text
        BY <4>1 DEF Keeps, Url
      <4> HIDE DEF row
      <4>4. row \notin crawled
        BY <4>2, <4>3 DEF Removed
      <4> QED BY <2>2, <3>1, <4>1, <4>4 DEF row
    <3> QED BY <1>1, <3>2, <3>3
  <2> QED BY <2>1, <2>2
<1> QED BY <1>4, <1>5, <1>6 DEF Removed, Row, Url

LEMMA RemovedKept == Shape /\ Removed /\ [ToolNext]_allVars => Removed'
<1> SUFFICES ASSUME Shape, Removed, [ToolNext]_allVars PROVE Removed'
  OBVIOUS
<1>1. ASSUME NEW t \in Callers, CrawlStep(t) PROVE Removed'
  BY <1>1, CrawlKeepsRemoved
<1>2. ASSUME NEW t \in Direct, FetchTool(t) \/ CrawlTool(t) PROVE Removed'
  <2>1. PICK item, force : Become(t, Taken(item, force))
    BY <1>2 DEF FetchTool, CrawlTool, Call
  <2>2. UNCHANGED <<blocked, near, crawled>>
    BY <1>2 DEF FetchTool, CrawlTool, Call, schedVars, durable, dedup, index
  <2>3. t \in Callers /\ job \in [Callers -> Job]
    BY DEF Direct, Shape, IInv, JobsGood
  <2>4. job'[t].pc = "taken" /\ \A o \in Callers \ {t} : job'[o] = job[o]
    BY <2>1, <2>3 DEF Become, Taken, Idle
  <2> QED BY <2>2, <2>3, <2>4 DEF Removed, Row, Url, OnItsWay, InFlight
<1>3. ASSUME NEW s \in Searchers, Search(s) \/ SearchEnd(s) PROVE Removed'
  <2>1. UNCHANGED <<job, blocked, near, crawled>>
    BY <1>3 DEF Search, SearchHit, SearchMiss, SearchEnd, vars, schedVars, durable, dedup, index
  <2> QED BY <2>1, RemovedStays
<1>4. CASE RemoveUrl \/ Import
  <2>1. UNCHANGED <<job, blocked, near, crawled>>
    BY <1>4 DEF RemoveUrl, RemoveUrlRow, Import, schedVars, dedup
  <2> QED BY <2>1, RemovedStays
<1>5. CASE ToolElapse
  <2>1. UNCHANGED <<job, blocked, near, crawled>>
    BY <1>5 DEF ToolElapse, Elapse, Tick, durable, dedup, index
  <2> QED BY <2>1, RemovedStays
<1>6. CASE ToolCrash
  <2>1. job' = FreshJobs
    BY <1>6 DEF ToolCrash, Crash
  <2> QED BY <2>1, FreshIsNowhere DEF Removed
<1>7. CASE UNCHANGED allVars
  <2>1. UNCHANGED <<job, blocked, near, crawled>>
    BY <1>7 DEF allVars, vars, schedVars, durable, dedup, index
  <2> QED BY <2>1, RemovedStays
<1> QED BY <1>1, <1>2, <1>3, <1>4, <1>5, <1>6, <1>7 DEF ToolNext

\* A page that was crawled, and removed, comes back with the text it had only by
\* a forced crawl or an import, for any overlap of calls, any changes of pages,
\* removals and kills: its URL stays in the dedup database, and a crawl that was
\* under way when it was indexed finds its text in the SimHash index.
THEOREM OnlyForcedReturn == ToolSpec => OnlyForcedReturns
<1>1. ToolInit => Shape /\ Removed
  <2> SUFFICES ASSUME ToolInit PROVE Removed
    BY ShapeInitial DEF ToolInit
  <2>1. job = FreshJobs
    BY DEF ToolInit, Init
  <2> QED BY <2>1, FreshIsNowhere DEF Removed
<1>2. Shape /\ Removed /\ [ToolNext]_allVars => (Shape /\ Removed)'
  BY ToolShapeKept, RemovedKept
<1>3. Removed =>
        [\A t \in Callers :
           Store(t) /\ stored' # stored /\ Row(t) \in crawled => job[t].force]_allVars
  BY DEF Removed, Store, OnItsWay
<1> QED BY <1>1, <1>2, <1>3, PTL DEF ToolSpec, OnlyForcedReturns
=============================================================================
