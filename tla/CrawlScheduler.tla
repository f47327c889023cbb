--------------------------- MODULE CrawlScheduler ---------------------------
(***************************************************************************)
(* The URL scheduler of the crawler (src/infomesh/crawler/scheduler.py): a *)
(* bounded FIFO queue shared by every task that discovers links, a         *)
(* per-domain table of pending counts and last request times, and one      *)
(* consumer that is made to wait for the politeness delay and the hourly   *)
(* limit.                                                                  *)
(*                                                                         *)
(* Time is relative.  The code only ever uses time.monotonic() through     *)
(* "now - last_request_at" and "now - _hour_start", so the model keeps     *)
(* those two ages (saturated where no comparison can tell them apart) and  *)
(* no clock; Tick ages everything by one unit.                             *)
(*                                                                         *)
(* asyncio runs one task at a time and switches only at an await that      *)
(* suspends.  One action is one such run: add_url up to a put that blocks, *)
(* get_url from one suspension to the next.                                *)
(***************************************************************************)
EXTENDS Integers, Sequences, FiniteSets

CONSTANTS
  Urls,               \* the URLs that exist
  Domains,            \* their netlocs
  DomainOf,           \* DomainOf[u] is urlparse(u).netloc
  Depths,             \* crawl depths the callers pass
  Callers,            \* tasks that call add_url
  PolitenessDelay,    \* politeness_delay
  CrawlDelays,        \* Crawl-delay values robots.txt may ask for
  MaxCrawlDelay,      \* the 60 s they are capped at
  RateLimits,         \* values of urls_per_hour (0: unlimited)
  Hour,               \* 3600 s
  PendingPerDomain,   \* pending_per_domain
  MaxDepth,           \* max_depth (0: unlimited)
  QueueSize,          \* maxsize of the asyncio.Queue
  PruneThreshold,     \* _DOMAIN_PRUNE_THRESHOLD
  MaxTrackedDomains,  \* _MAX_TRACKED_DOMAINS
  StaleAfter,         \* _DOMAIN_STALE_SECONDS
  None

ASSUME SchedulerAssumption ==
  /\ DomainOf \in [Urls -> Domains]
  /\ Depths \subseteq Nat
  /\ PolitenessDelay \in Nat
  /\ CrawlDelays \subseteq Nat
  /\ RateLimits \subseteq Nat /\ RateLimits # {}
  /\ {Hour, PendingPerDomain, QueueSize, StaleAfter} \subseteq Nat \ {0}
  /\ {MaxDepth, PruneThreshold, MaxTrackedDomains, MaxCrawlDelay} \subseteq Nat
  /\ None \notin Nat \cup [url : Urls, depth : Depths]
  /\ IsFiniteSet(Callers)
  \* every delay is shorter than the age at which a domain is evicted: both
  \* kinds are at most 60 s, config.py:246, and that age is 3600 s
  /\ PolitenessDelay <= StaleAfter /\ MaxCrawlDelay <= StaleAfter

VARIABLES
  domains,      \* _domains: the DomainState of every domain
  tracked,      \* the domains that have an entry in _domains
  queue,        \* _queue
  blocked,      \* blocked[c]: the item whose put c is waiting for, or None
  getter,       \* the task inside get_url
  urlsPerHour,  \* _urls_per_hour
  hourlyCount,  \* _hourly_count
  hourAge       \* now - _hour_start

schedVars == <<domains, tracked, queue, blocked, getter,
               urlsPerHour, hourlyCount, hourAge>>

-----------------------------------------------------------------------------
Item == [url : Urls, depth : Depths]

\* Ages above the longest time the code compares them with are all alike.
LongAgo == StaleAfter + 1

DomainState == [since : 0 .. LongAgo, pending : Nat, delay : (0 .. MaxCrawlDelay) \cup {None}]

\* DomainState(): last_request_at = 0.0, nothing pending, no Crawl-delay.
NewDomain == [since |-> LongAgo, pending |-> 0, delay |-> None]

GetterPc == {"idle", "getting", "sleeping", "putback", "limited"}

GetState == [pc : GetterPc, item : Item \cup {None}, wait : Nat, orphan : BOOLEAN]

NoGet == [pc |-> "idle", item |-> None, wait |-> 0, orphan |-> FALSE]

Dom(item) == DomainOf[item.url]

Larger(a, b) == IF a >= b THEN a ELSE b

\* The delay get_url enforces on d: robots.txt's when known, else the default.
Delay(d) ==
  IF domains[d].delay = None THEN PolitenessDelay ELSE domains[d].delay

Smaller(a, b) == IF a <= b THEN a ELSE b

\* queue.put: first in, first out.
EnqueueInFront(q, item) == <<item>> \o q       \* fault: last in, first out
Enqueue(q, item) == Append(q, item)

\* A domain with this many URLs outstanding takes no more.
FullAboveLimit(n) == n > PendingPerDomain      \* fault: off by one
Full(n) == n >= PendingPerDomain

\* What _prune_stale_domains(threshold) removes from the table.
StaleIgnoresPending(table, keys, threshold) ==  \* fault: pending URLs forgotten
  IF Cardinality(keys) <= threshold THEN {}
  ELSE {d \in keys : table[d].since > StaleAfter}
StaleIgnoresAge(table, keys, threshold) ==      \* fault: recent requests forgotten
  IF Cardinality(keys) <= threshold THEN {}
  ELSE {d \in keys : table[d].pending = 0}
Stale(table, keys, threshold) ==
  IF Cardinality(keys) <= threshold THEN {}
  ELSE {d \in keys : table[d].since > StaleAfter /\ table[d].pending = 0}

\* The table without the entries of S, and the task in get_url left with a
\* DomainState that is no longer in it when its own domain is among them.
Evict(table, S) == [d \in Domains |-> IF d \in S THEN NewDomain ELSE table[d]]

Orphaned(g, S) ==
  [g EXCEPT !.orphan = @ \/ (g.item # None /\ Dom(g.item) \in S)]

SchedInit ==
  /\ domains = [d \in Domains |-> NewDomain]
  /\ tracked = {}
  /\ queue = <<>>
  /\ blocked = [c \in Callers |-> None]
  /\ getter = NoGet
  /\ urlsPerHour \in RateLimits
  /\ hourlyCount = 0
  /\ hourAge = 0

-----------------------------------------------------------------------------
(* add_url *)

\* The table after the eviction add_url starts with.
SweptBeforeAdd == Stale(domains, tracked, PruneThreshold)

DepthExceeded(depth) == MaxDepth > 0 /\ depth > MaxDepth

\* Rejected: too deep (nothing is touched) or the domain is full (its entry
\* and the eviction stay).
RejectUrl(c, item) ==
  LET d == Dom(item)
      swept == SweptBeforeAdd
      table == Evict(domains, swept)
  IN  /\ blocked[c] = None
      /\ \/ /\ DepthExceeded(item.depth)
            /\ UNCHANGED schedVars
         \/ /\ ~DepthExceeded(item.depth)
            /\ Full(table[d].pending)
            /\ domains' = table
            /\ tracked' = (tracked \ swept) \cup {d}
            /\ getter' = Orphaned(getter, swept)
            /\ UNCHANGED <<queue, blocked, urlsPerHour, hourlyCount, hourAge>>

\* Accepted: counted as pending, then put; the put suspends the caller when
\* the queue is full.
AcceptUrl(c, item) ==
  LET d == Dom(item)
      swept == SweptBeforeAdd
      table == Evict(domains, swept)
  IN  /\ blocked[c] = None
      /\ ~DepthExceeded(item.depth)
      /\ ~Full(table[d].pending)
      /\ domains' = [table EXCEPT ![d].pending = @ + 1]
      /\ tracked' = (tracked \ swept) \cup {d}
      /\ getter' = Orphaned(getter, swept)
      /\ IF Len(queue) < QueueSize
         THEN queue' = Enqueue(queue, item) /\ UNCHANGED blocked
         ELSE blocked' = [blocked EXCEPT ![c] = item] /\ UNCHANGED queue
      /\ UNCHANGED <<urlsPerHour, hourlyCount, hourAge>>

AddUrl(c, item) == RejectUrl(c, item) \/ AcceptUrl(c, item)

\* A suspended put goes through once get_url has made room.
FinishPut(c) ==
  /\ blocked[c] # None
  /\ Len(queue) < QueueSize
  /\ queue' = Enqueue(queue, blocked[c])
  /\ blocked' = [blocked EXCEPT ![c] = None]
  /\ UNCHANGED <<domains, tracked, getter, urlsPerHour, hourlyCount, hourAge>>

-----------------------------------------------------------------------------
(* get_url *)

GetUrl ==
  /\ getter.pc = "idle"
  /\ getter' = [NoGet EXCEPT !.pc = "getting"]
  /\ UNCHANGED <<domains, tracked, queue, blocked, urlsPerHour, hourlyCount, hourAge>>

\* The rest of one turn of get_url's loop after the politeness wait, for the
\* item it holds: the hourly limit, then either the return or the put back.
\* keys is the set of tracked domains, rest the queue without the item, lost
\* whether the DomainState it holds has already left the table.
HourOver == urlsPerHour > 0 /\ hourAge >= Hour
CountNow == IF HourOver THEN 0 ELSE hourlyCount
AgeNow == IF HourOver THEN 0 ELSE hourAge
LimitReached == urlsPerHour > 0 /\ CountNow >= urlsPerHour

Return(item, keys, rest, lost) ==
  LET swept == IF HourOver THEN Stale(domains, keys, MaxTrackedDomains) ELSE {}
      held == ~lost /\ Dom(item) \notin swept
      table == Evict(domains, swept)
  IN  /\ ~LimitReached
      /\ tracked' = keys \ swept
      /\ domains' = IF held THEN [table EXCEPT ![Dom(item)].since = 0] ELSE table
      /\ queue' = rest
      /\ hourlyCount' = IF urlsPerHour > 0 THEN CountNow + 1 ELSE hourlyCount
      /\ hourAge' = AgeNow
      /\ getter' = NoGet
      /\ UNCHANGED <<blocked, urlsPerHour>>

PutBack(item, keys, rest) ==
  LET swept == IF HourOver THEN Stale(domains, keys, MaxTrackedDomains) ELSE {}
  IN  /\ LimitReached
      /\ tracked' = keys \ swept
      /\ domains' = Evict(domains, swept)
      /\ hourlyCount' = CountNow
      /\ hourAge' = AgeNow
      /\ IF Len(rest) < QueueSize
         THEN /\ queue' = Enqueue(rest, item)
              /\ getter' = [NoGet EXCEPT !.pc = "limited", !.wait = Larger(Hour - AgeNow, 1)]
         ELSE /\ queue' = rest
              /\ getter' = [NoGet EXCEPT !.pc = "putback", !.item = item,
                                         !.wait = Larger(Hour - AgeNow, 1)]
      /\ UNCHANGED <<blocked, urlsPerHour>>

Turn(item, keys, rest, lost) ==
  Return(item, keys, rest, lost) \/ PutBack(item, keys, rest)

\* queue.get() hands over the first item; the turn ends here unless the last
\* request to its domain is too recent.
Dequeue ==
  LET item == Head(queue)
      d == Dom(item)
  IN  /\ getter.pc = "getting"
      /\ queue # <<>>
      /\ IF domains[d].since >= Delay(d)
         THEN Turn(item, tracked \cup {d}, Tail(queue), FALSE)
         ELSE /\ getter' = [pc |-> "sleeping", item |-> item,
                            wait |-> Delay(d) - domains[d].since, orphan |-> FALSE]
              /\ queue' = Tail(queue)
              /\ tracked' = tracked \cup {d}
              /\ UNCHANGED <<domains, blocked, urlsPerHour, hourlyCount, hourAge>>

\* The politeness sleep is over; the elapsed time is not looked at again.
Wake ==
  /\ getter.pc = "sleeping"
  /\ getter.wait = 0
  /\ Turn(getter.item, tracked, queue, getter.orphan)

\* The item went back to a queue that was full for a while.
FinishPutBack ==
  /\ getter.pc = "putback"
  /\ Len(queue) < QueueSize
  /\ queue' = Enqueue(queue, getter.item)
  /\ getter' = [getter EXCEPT !.pc = "limited", !.item = None]
  /\ UNCHANGED <<domains, tracked, blocked, urlsPerHour, hourlyCount, hourAge>>

\* The hour is over: take the next item.
ResumeAfterLimit ==
  /\ getter.pc = "limited"
  /\ getter.wait = 0
  /\ getter' = [getter EXCEPT !.pc = "getting"]
  /\ UNCHANGED <<domains, tracked, queue, blocked, urlsPerHour, hourlyCount, hourAge>>

GetStep == Dequeue \/ Wake \/ FinishPutBack \/ ResumeAfterLimit

\* The URL a step hands to the caller of get_url, and whether it hands one.
Returns(item) ==
  /\ getter.pc \in {"getting", "sleeping"}
  /\ getter'.pc = "idle"
  /\ item = IF getter.pc = "sleeping" THEN getter.item ELSE Head(queue)

-----------------------------------------------------------------------------
(* mark_done, set_crawl_delay, set_urls_per_hour and the passing of time *)

DecreasedBelowZero(k, n) == k - n               \* fault: no max(0, ...)
Decreased(k, n) == Larger(k - n, 0)

\* n calls of mark_done(url) in a row: the count of the domain (never below
\* zero), then the eviction.  mark_error adds to a counter nothing reads and
\* calls mark_done.
MarkDone(u, n) ==
  LET d == DomainOf[u]
      table == [domains EXCEPT ![d].pending = Decreased(@, n)]
      swept == Stale(table, tracked, PruneThreshold)
  IN  /\ IF d \in tracked
         THEN /\ domains' = Evict(table, swept)
              /\ tracked' = tracked \ swept
              /\ getter' = Orphaned(getter, swept)
         ELSE UNCHANGED <<domains, tracked, getter>>
      /\ UNCHANGED <<queue, blocked, urlsPerHour, hourlyCount, hourAge>>

Cap(x) == Smaller(x, MaxCrawlDelay)

SetCrawlDelay(d, x) ==
  /\ domains' = [domains EXCEPT ![d].delay = Cap(x)]
  /\ tracked' = tracked \cup {d}
  /\ UNCHANGED <<queue, blocked, getter, urlsPerHour, hourlyCount, hourAge>>

SetUrlsPerHourUnlessZero(n) ==                 \* fault: 0 taken for no value
  /\ urlsPerHour' = IF n = 0 THEN urlsPerHour ELSE n
  /\ UNCHANGED <<domains, tracked, queue, blocked, getter, hourlyCount, hourAge>>

SetUrlsPerHour(n) ==
  /\ urlsPerHour' = n
  /\ UNCHANGED <<domains, tracked, queue, blocked, getter, hourlyCount, hourAge>>

\* One unit of time.
Tick ==
  /\ domains' = [d \in Domains |-> [domains[d] EXCEPT !.since = IF @ < LongAgo THEN @ + 1 ELSE @]]
  /\ hourAge' = IF hourAge < Hour THEN hourAge + 1 ELSE hourAge
  /\ getter' = [getter EXCEPT !.wait =
                  IF getter.pc \in {"sleeping", "limited"} THEN Larger(@ - 1, 0) ELSE @]
  /\ UNCHANGED <<tracked, queue, blocked, urlsPerHour, hourlyCount>>

-----------------------------------------------------------------------------
(* Shape of the scheduler's state, for the modules that run it. *)

SchedTypeOK ==
  /\ domains \in [Domains -> DomainState]
  /\ tracked \subseteq Domains
  /\ queue \in Seq(Item)
  /\ blocked \in [Callers -> Item \cup {None}]
  /\ getter \in GetState
  /\ urlsPerHour \in RateLimits
  /\ hourlyCount \in Nat
  /\ hourAge \in 0 .. Hour
=============================================================================
