-------------------------- MODULE SchedulerContract --------------------------
(***************************************************************************)
(* What the Scheduler class promises to a client that keeps to its         *)
(* interface: every URL get_url returns is marked done once, get_url has   *)
(* one caller at a time and is never cancelled, and a Crawl-delay is set   *)
(* while a page is being crawled, not while get_url waits (the worker sets *)
(* it in crawl_url, which the crawl loop calls between two get_url calls). *)
(* CrawlLoop checks what happens with the client the program really has.   *)
(***************************************************************************)
EXTENDS CrawlScheduler

VARIABLES
  inflight,  \* inflight[d]: URLs of d returned and not yet marked done
  idleFor,   \* idleFor[d]: time since get_url last returned a URL of d
  last       \* the item get_url returned last, None while it runs again

contractVars == <<schedVars, inflight, idleFor, last>>

ContractInit ==
  /\ SchedInit
  /\ inflight = [d \in Domains |-> 0]
  /\ idleFor = [d \in Domains |-> LongAgo]
  /\ last = None

Add ==
  /\ \E c \in Callers, item \in Item : AddUrl(c, item)
  /\ UNCHANGED <<inflight, idleFor, last>>

Resume ==
  /\ \E c \in Callers : FinishPut(c)
  /\ UNCHANGED <<inflight, idleFor, last>>

StartGet == GetUrl /\ last' = None /\ UNCHANGED <<inflight, idleFor>>

\* get_url runs on; the item it returns, if it does, is now in flight.
RunGet ==
  /\ GetStep
  /\ \/ /\ getter'.pc # "idle"
        /\ UNCHANGED <<inflight, idleFor, last>>
     \/ \E item \in Item :
          /\ Returns(item)
          /\ inflight' = [inflight EXCEPT ![Dom(item)] = @ + 1]
          /\ idleFor' = [idleFor EXCEPT ![Dom(item)] = 0]
          /\ last' = item

Finish(u) ==
  /\ inflight[DomainOf[u]] > 0
  /\ MarkDone(u, 1)
  /\ inflight' = [inflight EXCEPT ![DomainOf[u]] = @ - 1]
  /\ UNCHANGED <<idleFor, last>>

LearnDelay ==
  /\ getter.pc = "idle"
  /\ \E d \in Domains, x \in CrawlDelays : SetCrawlDelay(d, x)
  /\ UNCHANGED <<inflight, idleFor, last>>

ChangeRate ==
  /\ \E n \in RateLimits : SetUrlsPerHour(n)
  /\ UNCHANGED <<inflight, idleFor, last>>

ContractElapse ==
  /\ Tick
  /\ idleFor' = [d \in Domains |-> Smaller(idleFor[d] + 1, LongAgo)]
  /\ UNCHANGED <<inflight, last>>

ContractNext ==
  \/ Add \/ Resume \/ StartGet \/ RunGet
  \/ \E u \in Urls : Finish(u)
  \/ LearnDelay \/ ChangeRate \/ ContractElapse

ContractSpec == ContractInit /\ [][ContractNext]_contractVars

\* The event loop runs every task that is ready and time passes; nothing
\* forces a client to add URLs or to finish them.
ContractFairSpec ==
  /\ ContractSpec
  /\ WF_contractVars(StartGet) /\ WF_contractVars(RunGet)
  /\ WF_contractVars(Resume) /\ WF_contractVars(ContractElapse)

-----------------------------------------------------------------------------
ContractTypeOK ==
  /\ SchedTypeOK
  /\ inflight \in [Domains -> Nat]
  /\ idleFor \in [Domains -> 0 .. LongAgo]
  /\ last \in Item \cup {None}

\* The URLs of d that were accepted and are not done yet.
Queued(d) == Cardinality({i \in DOMAIN queue : Dom(queue[i]) = d})
Waiting(d) == Cardinality({c \in Callers : blocked[c] # None /\ Dom(blocked[c]) = d})
Held(d) == IF getter.item # None /\ Dom(getter.item) = d THEN 1 ELSE 0

\* pending_count is exact: it counts the URLs of the domain that are queued,
\* waiting for a put, held by get_url or in flight, whatever add_url, the put
\* back at the hourly limit and the eviction of stale domains do in between.
PendingExact ==
  \A d \in Domains :
    domains[d].pending = Queued(d) + Waiting(d) + Held(d) + inflight[d]

\* A domain never has more than pending_per_domain URLs outstanding.
PendingWithinLimit == \A d \in Domains : domains[d].pending <= PendingPerDomain

\* Only tracked domains carry state: an entry that is evicted takes nothing
\* with it that get_url, add_url or mark_done still needs.
NothingEvictedInUse ==
  /\ ~getter.orphan
  /\ \A d \in Domains \ tracked : domains[d] = NewDomain

\* Politeness: get_url returns a URL of a domain only when the delay in force
\* for it has passed since it last returned one, also across evictions of the
\* domain's state, put backs at the hourly limit and hour changes.
ContractPoliteness ==
  [][\A item \in Item : Returns(item) => idleFor[Dom(item)] >= Delay(Dom(item))]_contractVars

\* At the hourly limit get_url puts the URL it holds back into the queue that it
\* alone empties: when add_url has filled it meanwhile, nothing makes room again
\* and get_url, with every put that waits, is stuck for ever (await self._queue.put
\* in get_url).
Stuck == getter.pc = "putback" /\ Len(queue) >= QueueSize

PutBackNeverEnds == [](Stuck => []Stuck)

\* As long as there is no hourly limit every queued URL is returned: no
\* domain's delay and no stream of new URLs keeps it in the queue for ever.
\* (With the limit get_url puts a URL back itself and can block in that put.)
QueuedIsReturned ==
  [](urlsPerHour = 0)
    => \A u \in Urls :
         (\E i \in DOMAIN queue : queue[i].url = u) ~> (last # None /\ last.url = u)
=============================================================================
