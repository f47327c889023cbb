# A TLA+ model of InfoMesh

InfoMesh is a peer-to-peer search engine in Python: every node crawls the web,
keeps a local index, answers queries (from AI assistants through MCP, from the
command line and from other peers), publishes what it indexed to a distributed
hash table, and keeps a ledger of what it contributed and consumed. This
directory holds TLA+ modules for the parts of it whose correctness depends on
order, timing and failure, the TLC runs that check them on small instances and
theorems about them that TLAPS proves for every size.

Line numbers below are those of `src/infomesh/`; paths that begin with `docs/`
or are `README.md:n` are the repository's own documents.

## 1. The system

| Component | State it keeps | Operations | Talks to |
|---|---|---|---|
| URL scheduler (`crawler/scheduler.py`) | a queue of (url, depth) with room for 10,000; per domain a count of pending URLs, the time of the last request and a Crawl-delay; the hourly count | `add_url`, `get_url`, `mark_done`, `mark_error`, `set_crawl_delay`, `set_urls_per_hour`, two evictions of idle domains | worker, crawl loop |
| Crawl worker (`crawler/worker.py`) | none of its own; robots and HTTP caches, an optional scope | `crawl_url` | scheduler, dedup database, robots cache, web |
| Crawl loop (`crawler/crawl_loop.py`) | times of the last checks, of the last crawl | seeding, the loop, reseeding, priority crawls, the feed poll loop, the hourly index optimization | all of the crawler, index, ledger |
| Dedup database (`crawler/dedup.py`) | `seen_urls`: normalized URL, text hash, SimHash | `is_url_seen`, `is_content_seen`, `is_near_duplicate`, `mark_seen` | worker, loop |
| Feeds and priority queue (`feed_monitor.py`, `freshness.py`) | feeds with intervals, seen item URLs; a heap with lazy deletion | poll, `enqueue`, `dequeue`, `discard` | crawl loop |
| Document store (`index/local_store.py`) | `documents` and its full-text tables, one connection per process | add, remove, search, page through, optimize | services, MCP, imports |
| Services (`services.py`) | the wiring of a process | `crawl_and_index`, `index_document`, `republish_local_index` | nearly everything |
| Search (`search/cache.py`, `search/query.py`, `mcp/handlers.py`) | a cache of answers in the MCP process | `web_search`; `fetch_page`, `crawl_url`, `remove_url` beside it | index, crawler, node |
| Credit ledger (`credits/ledger.py`) | entries, spending, the start of the grace period, one SQLite file per node | `record_action`, `spend`, `credit_state`, `search_allowance`, score and tier | serve process, MCP process, CLI |
| Credit sync (`credits/sync.py`) | summaries of the owner's other nodes, the peers known to have that owner | announce, exchange, receive, purge | P2P node |
| Distributed index (`index/distributed.py`, `p2p/dht.py`) | lists of pointers under keyword keys at other peers; publish times | batch, merge, publish | node, crawl loop |
| P2P node (`p2p/node.py`) | a second event loop (trio) in a thread, connections, the peer store on disk | start, stop, bootstrap, refresh, peer exchange, LAN rounds, sync rounds | all of `p2p/` |
| Peer discovery and store (`peer_store.py`, `pex.py`, `mdns.py`, `sybil.py`) | rows with successes and failures, who asked for peers, a count per subnet | save, prune, load, exchange | node |
| Query routing (`routing.py`, `peer_profile.py`) | latency and interaction counts per peer | rank, fan out, record | search |
| Processes (`cli/serve.py`, `runtime.py`, dashboard) | a start-up lock, a PID file | start, `_serve`, stop, update, restart | operating system |
| Not modelled | | replication, index submission, message authentication, trust, takedowns, governor, recrawling, ranking, parsing | see 6 |

A node usually runs two processes on one data directory: `infomesh serve`
(crawl loop, P2P node, feed polling) and an MCP server (tool calls: search,
fetch, crawl, remove). They share the SQLite files and nothing else. Within a
process asyncio switches between tasks only at an `await` that suspends; the P2P
node's trio loop is a thread of its own. That decides the grain of the actions.

What is hard in it:

* **tasks and suspension points**: the scheduler hands out references to a
  domain's state, sleeps, and uses them afterwards; a URL is checked as unseen
  before several requests and marked as seen after them; due feeds are listed
  before the requests and used after them;
* **cancellation and timeouts**: the loop gives `get_url` five seconds and
  cancels it wherever it waits; a search gives each peer a deadline made from
  its past answers; a publisher gives up after 60 s on a batch that goes on;
* **bounded queues** whose consumer is also a producer, a queue that drops;
* **processes on one database**: checks and updates in different transactions,
  transactions that are left open, a lock file and a PID file;
* **kills** between two writes, PIDs that are given out again;
* **networks**: requests that fail or overlap, late and overtaken messages,
  connections that break, peers that restart.

What makes the components correct:

* scheduler: exact counts, politeness, no URL overtaken for ever, no state lost
  by eviction;
* worker, loop and databases: a text is crawled successfully once, what a crawl
  has indexed is known as seen after any kill, a URL is lost only to a delay longer
  than the loop's patience, the loop goes on asking for URLs;
* feeds: an item is offered once, lost only to a full queue, feeds are polled
  for ever;
* tool calls: what was removed is not shown for long, and only a forced crawl or
  an import brings it back;
* document store: an id names one page, republishing covers what stays, a write
  lock is given back;
* ledger: debt always has a grace period, and searches cost double at its end,
  not before;
* credit sync: no credit is invented or counted twice, nodes of an owner hear of
  each other again and again;
* keyword index: pointers published stay, the rate is kept;
* peers: connected peers are remembered, a node gets back to its bootstrap nodes
  and its neighbours;
* routing: no peer is starved among few candidates, a peer that answers in time
  keeps its time and is heard;
* processes: one node per data directory, found by its PID file.

## 2. The modules

| Module | What it is |
|---|---|
| `CrawlScheduler` | the scheduler's state and every operation as an action, without a client; used by the next two |
| `SchedulerContract`, `MCSchedulerContract` | the scheduler with any client that keeps to its interface: what the class promises; an instance with two domains, three URLs |
| `CrawlLoop`, `MCCrawlLoop` | the scheduler with the client it has: worker, crawl loop, overlapping crawls, dedup and document databases, time and kills; a `serve` process with four URLs on two domains |
| `ToolCalls`, `MCToolCalls` | the other client process: an MCP server, `CrawlLoop` with search and its cache, `fetch_page`, `remove_url` and an import on top; two URLs, one of whose pages changes |
| `ItemDelivery` | abstract: what feed polling and the priority queue promise together |
| `FeedLoop`, `MCFeedLoop` | feed monitor, poll task, priority queue and crawl loop, which implement `ItemDelivery` |
| `PageIndex` | abstract: the index as its users see it, a set of pages |
| `DocumentStore`, `MCDocumentStore` | the index database as several processes use it, which implements `PageIndex` |
| `CreditScore`, `CreditLedger`, `MCCreditLedger` | score, cap, tiers and prices as operators; the ledger, one action per SQL statement or transaction |
| `CreditSync`, `MCCreditSync` | summaries between nodes over a network that loses and delays them |
| `KeywordIndex`, `MCKeywordIndex` | keyword publishing of several nodes, each with several batches at once, over an external DHT |
| `PeerNetwork`, `MCPeerNetwork` | the P2P node's task, connections, peer store, exchange, LAN |
| `QueryRouting`, `MCQueryRouting` | a search that fans out, with the profiles it is steered by |
| `NodeProcesses`, `MCNodeProcesses` | the processes of a data directory, the lock and the PID file |
| `Crawler_proofs` | the theorems about `SchedulerContract`, `CrawlLoop` and `ToolCalls` |
| `P2P_proofs` | the theorems about `PeerNetwork` and `QueryRouting` |
| `..._proofs` | the theorems about `CreditLedger`, `KeywordIndex`, `FeedLoop`, `CreditSync`, `NodeProcesses`, `DocumentStore` |

`CrawlScheduler` has no `Next`: `SchedulerContract` and `CrawlLoop` compose its
actions with two different clients. The first shows what the class guarantees
when it is used as intended, the second what is left of it in the program. The
definitions of the first are called `Contract...` where the second has its own of
that kind, so that a module can extend both: the theorems about the crawler rest
on those about the class. For the same reason `QueryRouting`'s are called
`Routing...`.

### 2.1 CrawlScheduler

| Code | Model |
|---|---|
| `_domains` (a `defaultdict`) | `domains`, total, and `tracked`, the keys that exist |
| `DomainState.last_request_at` | `domains[d].since`, the time since then |
| `_queue` | `queue`; `blocked[c]` is the item task `c` is waiting to put |
| a task in `get_url` | `getter`: where it is suspended, its item, how long it still sleeps, and whether the `DomainState` it refers to has left the table (`orphan`) |
| `add_url` | `RejectUrl`, `AcceptUrl`, `FinishPut` |
| `get_url` | `GetUrl`, `Dequeue`, `Wake`, `FinishPutBack`, `ResumeAfterLimit` |
| `mark_done`, `mark_error` | `MarkDone(u, n)`, n calls in a row |
| `set_crawl_delay`, `set_urls_per_hour` | `SetCrawlDelay`, `SetUrlsPerHour` |
| `_refresh_hour`, `_prune_stale_domains` | part of `Turn` and of the actions that call them (`Stale`, `Evict`) |

Time is relative: the code uses `time.monotonic()` only in differences, so the
model keeps ages, saturated at `LongAgo`, one more than the longest time they
are compared with. `Tick` ages everything. The assumption that every delay is
at most `StaleAfter` is what the code has: both kinds of delay are at most
60 s, `_DOMAIN_STALE_SECONDS` is 3600.

A deletion from `_domains` while `get_url` sleeps leaves it with a state nobody
else sees: `orphan`. `NothingEvictedInUse` says that this does not happen.

### 2.2 CrawlLoop

A job is one run of `crawl_url` (or of the seeding) by one task. Its control
points are the places where the code waits: for robots.txt, sitemaps, the page,
a put. What happens between two of them is one action, except that the links of
a page are offered one at a time (`AddNext`), since each offer may block. No
other task runs between two offers that do not block (`Running`, `MayRun`,
`Quiet`), as in asyncio; a kill can come between them.

| Code | Model |
|---|---|
| `crawl_url` up to the first request (worker.py:126-204) | `Start` |
| robots.txt, Crawl-delay, sitemaps (206-226, 502-567) | `Robots`, `Sitemap` |
| the request, its retries and every refusal (228-310, 414-500) | `FetchFails` |
| canonical link (312-332) | `FetchCanonical` |
| duplicate, near-duplicate (334-356) | `FetchDuplicate` |
| success (358-412) | `FetchPage`, `AddNext`, `AddDone`; `AddRaises` when a link cannot be parsed or a call fails |
| `mark_seen`, `is_content_seen`, `is_near_duplicate` (dedup.py:160-220) | `mark[n]`, the text in the row of a URL, which INSERT OR REPLACE overwrites; `near`, the SimHash index in memory, which only grows and is rebuilt from the rows at a start; `MarkSeen`, `ContentSeen` |
| the `finally` clause (162-169) | the counts `DonesOn...` and `AddDone` |
| `index_document`, `add_document` | `Store` |
| a crawl on demand | `Call`, see 2.11 |
| seeding and reseeding (crawl_loop.py:224-316) | `SeedNext`, `SeedDone`; the links of a seed that is fetched again are offered as those of a page are (`AddNext`), and an exception among them ends the loop in Phase 1 (291-304, which catches only those of the requests) and nothing later (389-393): `AfterRaise` |
| `wait_for(get_url(), 5.0)` and its timeout (375-413) | `LoopGet`, `LoopRunGet`, `LoopTimeout` |
| `_process_priority_queue` (110-180) | `LoopPriority`; `news` are feed items, each announced once per process |
| a kill and a new start | `Crash`: the databases stay, the limits are again those configured |
| `set_urls_per_hour(0)` after the seeds (crawl_loop.py:319) | `SetUrlsPerHour(0)` in `SeedDone`; until then `urlsPerHour` is a configured limit, one of `RateLimits` |

A page may change: `PagesOf[u]` are the pages a fetch of u may find, each with
its text and its canonical URL; links, sitemaps and normal forms are constants.
Every request may fail in each way the worker tells apart, which is
how often `mark_done` ends up being called: once when an exception leaves
`_crawl_url_inner`, twice when a path returns early, three times after
`mark_error`. A domain's sitemaps answer or not each for itself, so that any of
their URLs may be missing. Texts closer than the SimHash threshold are one text,
and the SimHash index never comes to its cap of 500,000. Which links pass the
worker's scope filter is part of `LinksOf`.

`wins` and `fate` are history: whether a crawl took a text for a new one or only
recorded it, and whether its mark has been overwritten with another text
("replaced") and the process started again since ("forgotten"). `crawled` are
the rows that crawls inserted, as opposed to those an import did.

A put that finds the queue full is never finished in this composition: only the
loop takes URLs from the queue, and it does so between its own crawls, so the
blocked task is the one everybody waits for. `Next` therefore has no step that
finishes one. Nothing restarts a loop that an exception has ended: the command
waits for the task (`await task`, cli/serve.py:776) and exits with it, which
is the job `ended` until the next `Crash`.

### 2.3 CreditScore and CreditLedger

Each process is in at most one call (nothing in the calls awaits). A call is a
sequence of steps as the code's transactions are: `record_action` commits its
entry (`Earn`), then reads the balance (`Check`), then looks for a grace period
(`Look`) and clears it (`Wipe`); `deduct_search_cost` does the same in
`credit_state`, judges (`Judge`), prices (`Price`), asks for the state again for
`grace_remaining_hours`, and spends in one transaction (`Spend`). `Crash(p)`
abandons the call.

Credits are integers in a suitable unit; a score is counted in halves so that
the factor 0.60 / 0.40 of the cap is exact. Rounding of floats is left out. The
history variable `dry` counts the hours since the balance was last positive;
`overtaken` says that a step has relied on a check of the balance which a step of
another process had overtaken (a grace period cleared in debt, or kept or
started although the balance had been positive) and that the grace period was
not put in order since. Properties alone read them.

### 2.4 KeywordIndex

Each slot is a `publish_batch` that may run on a node. `publish_batch` and
`publish_keyword` give way to other trio tasks only where they wait for the DHT,
so `Start`, `Read`, `MergeRaises`, `Reach`, `Published` and `PutRaises` are what
lies between two waits; the loop over the keywords (`NextKeyword`) is part of the action that
comes before it.

| Code | Model |
|---|---|
| the batches of the crawl loop and of `republish_local_index` (services.py:112, 152) | `Batches(n)`, started at any time in a free slot |
| a batch whose caller gave up after 60 s (node.py:436) | nothing changes: it keeps its slot, the caller may start another one |
| `publish_batch`: the pointers per keyword, cut at the limit (distributed.py:292-329) | `PointersOf` |
| the rate check (dht.py:106, 365) | `MayPublish` on `fresh[n][k]`, the records of the past hour |
| the read, and the merge of what it returned (dht.py:113-128, 143) | `Read`; `MergeRaises` when the entry holds something that is no pointer (dht.py:391), which ends the batch |
| the put: takes effect, returns, raises | `Reach` (external), `Published`, `PutRaises` |
| a record older than an hour, which the next check drops | `Expire` |
| `stop` and a new start, which forget `_publish_times` | `Restart` |

The DHT is a register per keyword. Its reads may fail (the code then goes on
with an empty list, dht.py:152) and its puts may raise before or after they take
effect. Entries are sets: their order decides only which old pointers a full
entry drops, and the model allows every choice. Clock time is left out: a record
may become an hour old at any moment, which covers every real timing.

`acked` and the flag `loses` are history: what `publish_keyword` has returned
True for, and whether the environment has done one of the three things that
excuse a loss (a write from a read older than another write, a failed read, a
full entry). Nothing else depends on them.

### 2.5 FeedLoop and ItemDelivery

| Code | Model |
|---|---|
| `FeedMonitor.due_feeds`, `feed_poll_loop` (crawl_loop.py:60-107) | `PollWake`, `PollAnswer`, `PollFails`; `PollDies` for the `httpx.InvalidURL` nobody catches |
| `enqueue` of the items of an answer, one at a time | `EnqueueNext`; no other task runs in between (`Quiet`) |
| `_process_priority_queue` (crawl_loop.py:110-180), `dequeue`, `discard` | `LoopTurn`, `ItemDone` |
| feeds that a page names (`register_feed`, `rss_max_feeds`) | `LoopPage` |
| a restart, which forgets everything | `Restart` |

`FeedLoop` implements `ItemDelivery` under the mapping *queued* = `_urls`,
*offered* = what `crawl_url` was given, *dropped* = what was marked as seen and
is none of the two (`Delivered`, an INSTANCE of the abstract specification with
its fairness). The interval of a feed is constant: nothing in the program
registers one with another priority.

### 2.6 DocumentStore

Each process has one `sqlite3` connection in WAL mode. `sqlite3` begins a
transaction before a write and only `commit()` ends it. What SQLite does is
external and modelled from there: `auto` (no transaction), `open` (begun, has
neither read nor locked), `reading` (has a snapshot), `writing` (has the lock).

| Code | Model |
|---|---|
| `add_document` (local_store.py:198-251) | `Insert`, then `CommitInsert`; `Refuse` for the IntegrityError, which returns without a commit or a rollback; `InsertBusy` when the lock is not had within five seconds |
| `handle_remove_url` (mcp/handlers.py:1400), `delete_document` | `Find`, `Delete`, `CommitDelete`; a delete that finds nothing does not commit; `DeleteBusy` |
| `search` | `Search`: inside an open transaction it keeps a snapshot |
| the hourly `optimize` (crawl_loop.py:485, local_store.py:528), which the loop reaches only behind a crawl | `Crawled`, `Optimize`, `CommitMerge` |
| `republish_local_index` (services.py:152) with `get_documents_for_publish` | `Republish`, one action per page, `sweep` |
| opening, closing, a kill | `Open`, `Close`: SQLite rolls back what was not committed |

Which pages come in is free: the dedup database (in `CrawlLoop`) filters them,
but a forced crawl or an import brings any. `named` and the sweep's `owed` and
`removed` are history. A page counts as republished once it is read and handed over: a batch
whose publishing fails or times out is logged and not tried again
(services.py:202-207, p2p/node.py:435-444).

`PageIndex` is what all this looks like from outside: a page joins when no other
has its address or its text, or goes. `DocumentStore` implements it under the
mapping *index* = the pages of `docs`, without their ids (`PagesComeAndGo`); an
insert joins at its commit, so what was free when it looked must still be free
then. `CrawlLoop` and `ToolCalls` have a set of rows, `stored`, in its place, which
implements the same specification (`ToolsUseTheIndex`).

### 2.7 CreditSync

| Code | Model |
|---|---|
| `_announce_credit_sync` after the bootstrap | `AnnounceNext`, `AnnounceDone`, `ReadAnswer`, `GiveUp` |
| the round of the main loop: `needs_sync`, `build_summary`, the request | `RoundStart`, `RoundSkip`, `RoundSend`, `RoundDone`, `Unread`, `GiveUp` |
| the two stream handlers | `HandleAnnounce`, `HandleExchange` |
| `receive_summary`, `store_summary`, `purge_stale` | `Accepts`, `ReceiveSummary`, `Upsert`, `Live` inside those actions |

The wire is a set of messages with an age; any of them may be lost or handled
late, up to `MaxDelay`. `IdOf` is the id a manager was created with: the host's
own in `CreditSync.cfg`, none in `CreditSyncNoId.cfg`, which is what the program
passes.

### 2.8 PeerNetwork

A node's task is in one phase at a time: `boot`, `cached`, the main `loop` and
its rounds `refresh`, `pex`, `mdns`. Each round may begin at any time in the
loop, which stands for its timer. Nodes outside `Rounds` start, stop, answer and
connect (`StartNode`, `Reach`, `StopNode`, `Kill`), but their own rounds are
left out. A row's standing is `4 * success_count - fail_count`, which decides
`load_recent` together with the order in which peers were seen: a row's `age` is
the number of peers seen after it. `save_connected` gives all peers of a save the
same time, so that any order among them is possible (`Places`). `leaving` is the
time between `stop()` and the end of the task's turn, during which
`get_connected_peers` already answers with nobody (`Reported`). A connect of the
LAN round has no time limit of its own (node.py:1310): the task may wait in it
until the process ends (`MdnsHangs`, phase `hung`). A LAN announcement that is
no dictionary raises in the thread that listens (mdns.py:197), which nothing
starts again (`Deafen`, `deaf`).

### 2.9 QueryRouting

`Search` begins a lookup, which leaves one of the sets `Finds` of candidates: nobody
(`NobodyFound`), or peers, of which route_query hands on the best
2 * `MaxFanout` (routing.py:184). `FanOut` chooses targets and deadlines from the
profiles, and each target has a task that is `Answer`ed or refused, `Deliver`ed, or
`Expire`d; `Return` ends the query.
`stage[q]` is where a query is, `ask[q][p]` how far its task for p is.
`Change` lets a peer become slower, faster or silent. The moving average is one
of the two values its rounding can give (`Moved`).

### 2.10 NodeProcesses

A process is its PID. `Check` and what follows are one action per step between
which another process may act: read the PID file, unlink it, launch, write it,
signal, wait. `start` and `_serve` hold the lock between their check and their
write; `stop`, `update` and an ending node act without it. A PID is given out
again when the process has ended and, for a child nobody waits for, its parent.
`wiped` is history: whether the entry of a working node has been removed or
replaced.

### 2.11 ToolCalls

`ToolCalls` extends `CrawlLoop` and composes its steps with those of the other
tool calls; time and kills are steps of both.

| Code | Model |
|---|---|
| `QueryCache.get`, `put` (search/cache.py:70-124) | `Fresh`, `Without`, `PutIn` in the actions that call them |
| `handle_search` up to its first wait (mcp/handlers.py:395-495) | `SearchHit`, or `SearchMiss`, which reads the index |
| its end (496-542) | `SearchEnd` puts what was read then |
| `fetch_page_async` (services.py:258) | `FetchTool`: for a page that is not indexed, an unforced crawl |
| `crawl_and_index` (services.py:354) | `CrawlTool` |
| `handle_remove_url` (mcp/handlers.py:1400) | `RemoveUrl`: one step here; `DocumentStore` takes it apart |
| `infomesh index import`, another process (index/snapshot.py:208-240) | `Import`: a row without a mark in the dedup database |
| time, a kill | `ToolElapse`, `ToolCrash` |

Of an answer the model keeps the pages of this node's index. A search that waits
is a `Reading`: what it has read of the index, and when. `gone` is history.
`calls` are the calls that are made in a behaviour, one of the sets `Clients`. The
run checks the crawler's properties in this process besides its own.

## 3. The runs

There are twelve: eleven that pass and one that shows a disagreement.

| Run | Shows | Bounds |
|---|---|---|
| `SchedulerContract` | counts, eviction, politeness, and that every queued URL is returned | 2 domains, 3 URLs, 2 pending per domain, queue of 2, hour of 2 ticks, delays of 1 and 2, hourly limit 0 or 1, thresholds of 1 domain: every limit and both evictions are reached. 255,812 states |
| `CrawlServe` | no put back at the hourly limit, politeness for URLs from the queue, no leaked count, losses explained, the loop's progress, with seeds, a feed item, a sitemap and a canonical link | 4 URLs, 2 domains, 2 pending per domain, patience 2 below the longest delay 3 (5 s and 60 s in the code), a configured limit of one URL an hour or none, room for one URL in the queue, so that it fills and the loop blocks in its own put; kills. 275,306 states |
| `ToolCalls` | a text is crawled once, what is indexed is known, duplicates are explained; removed pages go and stay away | two overlapping crawls, or a crawl beside a search or an import; forced or not, removals, kills; 2 URLs without links: one page changes its text and then names the other, which has the old text; a cache of one answer for two queries; lifetime and longest search of one tick. 1,109,000 states, crawls and queries symmetric |
| `FeedLoop` | the refinement of `ItemDelivery`, the heap, polling | 2 feeds and a malformed one with room for two, 3 items, a queue of 2 (so that it overflows), batches of 2. 9,045 states |
| `DocumentStore` | the refinement of `PageIndex`, ids, republishing, the write lock | serve beside an MCP server or an import; 3 pages on 2 URLs with 2 texts (so that both UNIQUE constraints refuse); 3 documents ever added; pages of one document. 143,793 states |
| `Ledger` | the ledger of two processes, killed anywhere, with the race between them | amounts -1, 0, 1, 3; 8 credits; a grace period of 2 hours; prices 3, 2, 1. 684,157 states |
| `CreditSync` | nothing invented, one side kept up to date | two nodes, the clock of one ahead by the tolerance, one credit, one request under way each, restarts. 136,815 states |
| `KeywordIndex` | rate, merging and limit of shared keyword entries | a node with two batches at once and two documents, a node with one of each, a keyword they share and one they do not; entries of two pointers, so that three overflow; one publish an hour, so that a second batch exceeds it. 1,407,504 states, batches of one node symmetric |
| `PeerNetwork` | remembering, rejoining, meeting on the LAN | a node with all its rounds between its bootstrap node and a neighbour, all three on one LAN; room for one in store and load and for two in the limiter, so that each overflows and the limiter still has room after the first connect. 120,811 states |
| `QueryRouting` | the fan-out is filled, no starvation among few candidates, who is in time stays in time and is heard | lookups that find none, 3 or 4 of 4 peers; fan-out 2; latencies 0 to 3 with timeouts of twice the average, so that one peer jumps beyond its timeout and back and another comes and goes; the longest timeout 4; one query at a time. 27,728 states |
| `NodeProcesses` | lock and PID file | 4 PIDs, every command, kills: enough for a dashboard, its node, a stop and another start. 682,413 states, PIDs symmetric |
| `CreditSyncNoId` | a disagreement, see 4 | as `CreditSync`, without ids |

The bounds are small because the hazards are: a domain that fills, empties and
is evicted needs one domain more than the threshold; a duplicate needs two crawls
of one text; a peer is starved by two faster ones; the mark of a page is
overwritten by one change. `MaxTotal`, `MaxEarned`,
`MaxId`, `MaxStanding`, `MaxPace`, `UnderWay` and `MaxDelay` bound what the code
does not; everything else is finite by saturation. `MaxDelay` is 0 in
`CreditSync`: a message arrives within the tick it was sent in or never, but
still before or after any other and after its sender gave up; messages that are
older are covered by the proof.

Deadlock is checked in every run. Every property of a passing run is broken by
at least one mutant of the code's definitions (the operators marked *fault*).

**Fairness.** Always of tasks, timers and time, never of users, failures, kills
or other nodes' starts.

* `SchedulerContract`: a client goes on calling `get_url`, the event loop resumes
  what can be resumed, time passes. `CrawlLoop`, `FeedLoop`: the same of the
  tasks: requests and sleeps end by their timeouts, and asyncio serves ready
  tasks in order. All weak. `LoopGoesOn` excepts a process that is killed again and
  again, a loop that Phase 1 has ended and one that waits for room in its own
  queue. The governor (crawl_loop.py:352) and a full disk (:362) may keep the
  loop from `get_url` as long as they last, which the model leaves out. In
  `FeedLoop` the weak fairness of the loop assumes that it is not stuck in such a
  put.
* `DocumentStore`: a statement comes to its end (the code between is
  synchronous), weakly. Nothing is assumed of the loop: that it comes to the
  optimization, which stands behind a crawl and so behind a `get_url` that
  returned, is a condition of `LockGivenBack`.
* `CreditSync`: rounds go on; strongly, of the requests to a peer that are tried
  again and again some get through, and of the summaries sent some are handled:
  a network that is not down for ever. Announcements and answers may all be lost.
* `PeerNetwork`: timers go off; strongly, of the connections tried again and
  again to a node that is up some succeed, and a LAN node that is up is heard while
  the listening thread lives. That a connect on the LAN ends is not assumed.
* `QueryRouting`: tasks end by their deadlines. `BusySpec` adds that searches go
  on and, strongly, that a peer which may be promoted at random again and again is
  so some time, and that of answers which come in time some are sent on in time.
  What a lookup finds is left open.

`QueuedIsReturned` is stated for the time without an hourly limit, the setting
of the serve process. With a limit `get_url` can block in its own put
(scheduler.py:153) when the queue has filled in the meantime, and then for good
(`PutBackIsForEver`). `NeverAtLimit` checks that the serve process lifts the limit
first, whatever is configured.

## 4. Where code and documents disagree

With a run:

* **Credit sync without an id** (`CreditSyncNoId`). `CreditSyncManager` is made
  without `local_peer_id` (services.py:581, cli/serve.py:666), so every summary
  carries the empty id, which each receiver takes for its own and rejects: no
  node ever has another's credits (docs/en/03-credit-system.md:180).

Without one, met while modelling; those marked (m) the models contain:

Crawling

* A URL that sleeps for its Crawl-delay when the loop gives up is lost and keeps
  counting for its domain until a restart (m, `LostOnlyWhenSlow`, `NoLeak`).
* The loop blocks in its own put for ever when the queue is full, since nobody
  else takes from it (m; `LoopGoesOn` excepts it).
* Phase 1 catches only the exceptions of the requests: a malformed link on the page of
  a seed ends the loop and with it the serve process (crawl_loop.py:291-304,
  cli/serve.py:776), while a later reseeding survives it (m, `LoopGoesOn`).
* A malformed link on a page ends `crawl_url` after `mark_seen` (worker.py:365):
  the page is seen and never indexed (m, `AddRaises`).
* `mark_seen` replaces the row of a URL, so a page that has changed, or a crawl
  that began before and returns another text, takes the old text out of
  `seen_urls` while the index keeps the old row: after the next start another page
  with that text is crawled successfully and refused by the index (m,
  `OneSuccessPerText`, `IndexedIsKnown`).
* At the hourly limit `get_url` puts a URL back into the queue that only it
  empties and may wait there for ever (m, `PutBackNeverEnds`). The program does
  not: the crawl loop lifts the limit (m, `NeverAtLimit`), and `infomesh crawl`
  (cli/crawl.py:171), which gets to it after `urls_per_hour` pages, has one task,
  so that nobody takes the place `get_url` has just emptied.
* Items of the priority queue are crawled without regard to politeness (m).
* The page that names a canonical URL marks the text as seen, so the canonical
  page is refused as its duplicate (m, `DuplicateIsExplained`).
* A kill between `mark_seen` and the insert leaves a page that is never indexed.
  `IndexedIsKnown` shows that the opposite cannot happen.
* A malformed feed URL ends the poll task for good (crawl_loop.py:100; m,
  `FeedsPolledAgain`).

Document store

* A refused insert and a removal that finds nothing leave the transaction open
  and the write lock with the process (local_store.py:249, :418). Serve gives it
  back with the next new page or the hourly optimization, which stands behind a
  crawl: a loop that waits for URLs (crawl_loop.py:413), for the governor (:352) or
  for the disk (:362) keeps it (m, `LockGivenBack`); an
  MCP server only with its next new page or at its end. Until then every write of
  the other process fails after five seconds with "database is locked", and the
  page, which is marked as seen already, is not indexed.
* A connection whose write timed out and which then reads keeps an old snapshot:
  after the other's next commit it can neither write nor see newer documents
  until the process ends (m: `newest`).
* An imported page has no mark in the dedup database (snapshot.py:219), so that it is
  crawled again, and refused, when a crawl meets it, and comes back once it was
  removed (m, `OnlyForcedReturns` excepts it).
* A batch of `republish_local_index` whose publishing fails or times out is logged and
  not tried again before the next round (services.py:202-207).
* A forced crawl of an indexed URL reports success and leaves the stored text as
  it is: `add_document` refuses it, and `update_document` has no caller
  (docs/en/02-architecture.md:117).
* `remove_url` leaves the query cache, the vector and the published pointers in
  place: a cached answer shows the page until it expires (m, `RemovedSoonGone`), a
  hybrid search for ever, since nothing calls `VectorStore.delete_document`
  (mcp/handlers.py:1421; docs/en/06-legal.md:53). It leaves the URL seen, so
  `fetch_page`, which "Returns cached content or crawls live" (mcp/tools.py:148),
  fails for that page ever after (m, `OnlyForcedReturns`); it reports "Removed" also when another process was faster.

Search

* The key of the query cache does not tell a local search from another
  (mcp/handlers.py:403): a `local_only` search, "search local index only" (:1458),
  may be answered with what other nodes sent for an earlier one.

Credits

* A process that saw a positive balance clears the grace period another process
  has started since; the debt then counts as NORMAL until the next search (m,
  `overtaken`: the one exception of `OverdrawnHasGrace` and `NoPenaltyInGrace`).
* Two nodes that hear of each other may be kept up to date on one side only:
  `needs_sync` asks when a peer was last heard of (m, `OneSideKeepsUp`).
* A peer whose owner address changes keeps the old hash in the others' tables:
  the upsert does not touch it (sync.py:171).

Peers

* The PEX handler keeps the value `self._pex` has when it is registered, None at
  the first start (node.py:808): no peer list is served before the object is
  started again (m, `answering`; docs/en/05-getting-started.md:177).
* Peers that were learned by exchange are stored as successes although nobody
  connected to them (m).
* `stop()` sets the state first, so the save at the end of the task finds no
  connected peer (node.py:757; m, `Reported`; docs/en/02-architecture.md:215), and
  a stop during a refresh prunes without having saved.
* Nothing calls `SubnetLimiter.remove`: three peers of a subnet, also ones that
  have left, close the LAN round until a restart (m, `LanMeets`).
* A LAN announcement whose payload is no dictionary ends the listening thread
  (mdns.py:197), and a connect of the LAN round that does not end stops every
  round of the node (node.py:1310; m, `LanMeets`, `Rejoins`).
* `load_recent` leaves a peer out at exactly the rate at which it keeps it
  elsewhere, and the fallback `/p2p/pid` overwrites a stored address.

Routing

* "Slower peers are included with a small probability to avoid starving them"
  (peer_profile.py:176) fails with twice as many known candidates as the fan-out:
  the fast half fills it (routing.py:189), and the others are not asked as long as
  it stays the faster one (m, `NoPeerStarved` excepts it).
* "Slower peers get more time" (peer_profile.py:217): a timeout does not change the
  average the next deadline is made from (:124, :231), so a peer that becomes
  more than 25 times slower at once may never be heard again, though it would
  answer within the longest timeout (m; `HeardAgain` and `InTimeStays` are about
  peers within their timeout). Peers that never answered have average 0 and, once
  known, rank as the fastest.

Keyword index

* "Max 10 publish operations per keyword hash per node per hour"
  (docs/en/07-trust-integrity.md:313) is exceeded by one for each further batch
  that runs at once (m, `RateNearlyKept`).
* "Merge pointer lists instead of replacing" (docs/en/02-architecture.md:72)
  holds between writes that do not overlap (m, `PublishedIsKept`).

Processes

* "`StartupLock` + PID cmdline validation prevent duplicate node processes"
  (README.md:635): `read_live_pid` and `clear_pid_file` unlink what they read
  before, and stop, update and an ending node call them without the lock; one
  that read a dead PID removes the entry a node wrote in between, and the next
  start launches a second node (m: `wiped`, `EntryKept`, `OneNodeUnlessWiped`).
* A foreground `start` never waits for its child, so its zombie counts as running
  and stop reports "did not exit within timeout" (m).
* After a restart from the dashboard `stop_all` signals the old PID
  (serve.py:329). The relaunch after 5 s ends at once when the old node still
  shuts down, and then none is left (m).
* A PID that was given to another InfoMesh process blocks a start, and stop ends
  that process (m).
* A P2P start whose thread fails waits its full 120 s; one that timed out leaves
  its thread running; stop gives up after 10 s. `/index/submit` has no server
  (`bootstrap_p2p` passes no receiver), and node.py:904 awaits a handler that is
  not asynchronous.

## 5. The theorems

All are proved for every value of the constants that satisfies the assumptions
in the modules; TLC evaluates those in every run.

**Scheduler** (`Crawler_proofs`): `ContractTypeCorrect`, `PendingCorrect`,
`EvictionSafe`, `LimitKept`, `PolitenessKept`, `PutBackIsForEver`.

* The inductive invariant `Exact` is type correctness, the shape of the task in
  `get_url` (when it holds an item), `PendingExact` and `NothingEvictedInUse`
  together. None of the last two is inductive alone: the counts stay exact
  because an evicted domain has nothing pending, and an eviction cannot hit the
  domain `get_url` holds because its count is exact and so positive.
* The counts are cardinalities of sets of positions; the lemmas `OfEnqueue` and
  `OfTail` say what an append and a removal at the head do to them.
* `LimitKept` needs only that `AcceptUrl` is the one action that raises a count.
* `PolitenessKept` rests on `Polite`: the age in the table is never more than
  the true gap, and a sleeping `get_url` has enough of the delay left. It uses
  `Exact` for evictions and needs the assumption that delays are at most
  `StaleAfter`.
* `PutBackIsForEver` is about the deadlock of the class: a `get_url` that waits to
  put a URL back into a full queue (`Stuck`) stays so in every step, of any
  client, because the one task that takes from the queue is itself. A cancellation
  would end it, but only the crawl loop cancels, and `LimitIsNeverMet` below says
  that it never gets there.

**Crawler** (`Crawler_proofs`), what is recorded and indexed: `SuccessOnce`,
`IndexedKnown`, `DuplicatesExplained`, for any web, any number of overlapping crawls
and any kills, whatever the scheduler does and however the pages change. The strengthening says that a text which a crawl took for
new is in a row of `seen_urls` or in the SimHash index until it was "forgotten",
that a page on its way to the index has its URL marked and its text known in the
same way, and that a text which is known is that of a crawl that took or recorded
it. A changed page may put another text over a mark: then the old text is "replaced"
and still in the SimHash index, which only grows while the process lives. A kill
rebuilds that index from the rows and turns "replaced" into "forgotten".

**Crawler**, the scheduler in use: `LoopTypeCorrect`, `NothingLeaks`,
`LimitIsNeverMet`, `LoopIsPolite`, `OnlySlowUrlsAreLost`. The steps of `CrawlLoop` are steps of the
scheduler with a client that calls `mark_done` too often, so the lemmas about the
class say what one call does, and the invariants
what is left of them in the program.

* `LoopTypeCorrect` needs `Shape`: the types, with what each control point of a
  job and of `get_url` implies about its item and its URL.
* `NothingLeaks`: `PendingExact` is false here, since a timeout loses a URL after
  it was counted and a page is marked done up to three times. What stays true
  is one inequality (`Leak`): the count of a domain is at most the queued
  and blocked URLs, the one in `get_url`, those being crawled and those lost. A
  step may lower the left side by more, never the right side alone. It is
  inductive (`Counted`) with `Shape`, with `TableOK` (a domain that was evicted
  has nothing pending) and with `Apart` (while `get_url` holds a URL, the loop
  crawls none).
* `LimitIsNeverMet`: with its kills and any configured limit the crawl loop never
  comes to the put back. The invariant (`Unlimited`) says that once the seeds are in
  the limit is 0, and that until then nobody is in `get_url`; a kill brings the
  configured limit and the seeding back together.
* `LoopIsPolite` and `OnlySlowUrlsAreLost` are about a `serve` process, as its run
  is: `Callers = {Loop}`, since crawls on demand are made by the other processes.
  A kill forgets when the old process last asked a domain, and `gap` with it: across
  a restart nothing is kept and nothing is claimed. The invariant `Serves` adds
  that get_url is called only after the seeds and without an hourly limit
  (`Asking`), that the table never thinks a request longer ago than it is and a
  sleeping `get_url` has what is left of the delay to sleep (`Waited`), and that
  the loop's patience has shrunk by no more than that sleep unless something
  held up the event loop (`Patient`).

**Tool calls** (`Crawler_proofs`): `ToolTypeCorrect`,
`ToolSuccessOnce`, `ToolIndexedKnown`, `ToolDuplicatesExplained`, `ToolsUseTheIndex`,
`RemovedIsSoonGone`, `OnlyForcedReturn`.

* The three properties of the crawler are proved again for the process that also
  removes pages, beside an import: a removal and an import change the index and leave
  the dedup database as it is, which each part of the invariant survives. They
  speak of `crawled`, what crawls inserted, not of imported rows.
* `ToolsUseTheIndex` ties the two views of the index together: what `CrawlLoop` and
  `ToolCalls` do to `stored` in one step and what `DocumentStore` does to its
  documents over several both implement `PageIndex`. It needs that a job on its
  way to the index has a URL (`Shape`) and that every row is that of a URL.
* `RemovedSoonGone` bounds how long a removed page is shown. The invariant
  `Shown` dates everything that may still show it: a search that waits has read
  the page before it was removed, so the removal is no older than the search, and
  an answer in the cache is older by one search (`MaxSearch`) at most.
* `OnlyForcedReturns` needs that the URL of every row a crawl ever inserted stays
  marked, so that an unforced crawl of it ends at once, and that one which was under
  way before, with the same text, finds that text in the rows or in the SimHash
  index of the process that inserted it; a kill ends both.

**Ledger** (`CreditLedger_proofs`): `LlmShare` and `ScoreMonotone` about the
operators; `TypeCorrect`, `ShareCapped`, `ContributionPays`, `Overdrawn` and
`NoEarlyPenalty` for any number of processes; `SoloInOrder` for one. The
strengthening of the two says what a debt and a running grace period have to do
with each other while no check was overtaken: the grace period is never older than
the debt. `SoloInOrder` shows that the exception is no more than the race:
with one process it never applies, because nothing else can change the balance
between `Check` and `Wipe`.

**Keyword index** (`KeywordIndex_proofs`): `TypeCorrect`, `RateIsNearlyKept`,
`EntriesAreSound`, `PublishedStays`, for any number of nodes, batches, documents
and keywords.

* `RateNearlyKept` is inductive: it counts the recorded publishes of the hour
  and the batches between their check and their record together. A batch that
  passes the check finds at most `MaxPublishes - 1` records, and there are never
  more batches than slots; a record only moves a batch from one summand to the
  other.
* `EntriesSound` needs that what a batch is about to write fits already
  (`WritesFit`).
* `PublishedIsKept` needs what a batch's copy of the entry still means
  (`WritesKeep`): unless it is known to lose something, the copy covers the
  entry, and a write that has taken effect is still there.

**Feeds** (`FeedLoop_proofs`): `TypeCorrect`, `QueueExact`, `LimitKept`,
`Delivers`, for any feeds, items, sizes and intervals.

* `QueueExact` needs that `enqueue` refuses what waits already: then heap and set
  stay two views of one thing, and the lazy deletion never finds a stale entry.
* `Delivers` is the safety part of the refinement: every step of `FeedLoop` is a
  step of `ItemDelivery` or a stutter. It rests on the invariant that what is
  queued, offered or about to be enqueued is marked as seen, and that these are
  apart. The abstract fairness is left to TLC (`Delivered`).

**Credit sync** (`CreditSync_proofs`): `TypeCorrect`, `NothingInvented`, for any
nodes, owners, ids, delays and restarts. The strengthening says of every message
under way what of its sender it may still tell (id, owner, credits no larger than
its ledger has now: credits only grow), so that it does not matter when and in
which order messages arrive.

**Document store** (`DocumentStore_proofs`): `TypeCorrect`, `IdsAreKept`,
`SkipsAreRemovals`, `StoreIsAnIndex`, for any processes, roles and pages.

* `IdsNameOnePage` is not inductive alone: it needs that every id given out is
  below the next one and that an insert under way has that one (`IdsBelowNext`),
  hence that only one process can be in an insert, which is the lock part of
  `TypeOK`.
* `SkipsAreRemovals` is about ranks: with `ORDER BY id LIMIT .. OFFSET ..` a document
  is on the page when its rank, the number of documents with a smaller id, is in
  the window. An insertion has the greatest id and changes no rank (`RankGrows`); a
  removal of k documents lowers a rank by at most k, so that at most k more of the
  documents still owed fall below the offset (`RankFalls`, `PassedGrow`). The
  invariant `Fair` counts them together with the removals that a snapshot
  does not show yet; when a page comes back empty the offset has passed all ranks
  (`LastPage`).
* `StoreIsAnIndex` is the refinement of `PageIndex`: the initial states agree, a
  committed insert is an `Add`, a committed removal a `Drop`, everything else
  leaves the pages as they are. The insert looks for its address and its text in
  one step and joins in a later one; the invariant `Distinct` says that the page
  of an insert under way is still unlike every document, for which `TypeOK` has to
  say that nobody else has the write lock meanwhile. A removal takes out
  exactly one page because no two documents have the same (`Distinct` again).

**Peers** (`P2P_proofs`): `TypeCorrect`, `ConnectedAreKept`, for any nodes,
connections and limits.

* `TypeCorrect` says that links join nodes that run and that a standing never
  falls below zero, on which the reading of the success rate rests. The
  invariant needs what a round has still to try (`Sensible`): never the node
  itself, on the LAN only neighbours, and, among the cached peers, only rows with
  standing left, one for a peer, until each has been tried once.
* `ConnectedAreKept` counts: after a save of k peers the rows of age below j are, for
  every j up to k, just j of these peers (`NewestAreSaved`, a bijection between
  ages and places), whatever the prune by age has taken. So a trim to `MaxPeers`
  keeps all of them, or, when there are more, only some of them (`TrimKeepsSaved`).
  It holds only while the node is not stopping, as the property says.

**Routing** (`P2P_proofs`): `RoutingTypeCorrect`, `FanoutIsFull`, `TimeIsKept`, for any
peers, candidates, latencies and limits.

* `RoutingTypeCorrect` says besides the types that whoever is asked has at least
  the shortest timeout and nobody more than the longest (`TimeoutClamped`), and
  needs of the records of a peer that they keep every profile within its bounds.
* `FanoutIsFull` counts: the fast half and the promoted slow ones are apart, so
  that together they are as many as the fan-out and the candidates allow
  (`TargetsFill`), and no answer, failure or deadline begins or forgets a task.
* `TimeIsKept`: an answer moves the average towards the latency of the peer, never
  beyond it, so that the timeout made from it stays above that latency; a
  failure leaves the average, and a pruned profile has the longest timeout.

**Processes** (`NodeProcesses_proofs`): `TypeCorrect`, `EntryAlwaysKept`,
`OneNodeUnlessWiped`, for any PIDs and commands. The strengthening says what a
process that has passed its check still knows: while it holds the lock and
nothing was wiped, no node works (`NoneWorks`), except, for a `_serve` whose own
PID the file names, itself. `OneNodeUnlessWiped` then follows: the file names
every working node and has one entry.

Some invariants and action properties have theorems and no run of their own, since
a property the runs check is near: `PendingWithinLimit`, `PutBackNeverEnds`,
`LlmShareCapped`, `NeverDearer`, `EntriesSound`, `FeedsWithinLimit`. So have the type
invariants of `SchedulerContract`, `CrawlLoop`, `KeywordIndex`, `FeedLoop`,
`CreditSync` and `QueryRouting`, once TLC had agreed with them.

Every invariant and every action property of the passing runs has its theorem.
Only model-checked: all liveness (`QueuedIsReturned`, `LoopGoesOn`,
`FeedsPolledAgain`, the fairness in `Delivered`, `LockGivenBack`,
`OneSideKeepsUp`, `Rejoins`, `LanMeets`, `NoPeerStarved`, `HeardAgain`), which is
out of the prover's reach, and the violation.

## 6. What is not modelled

* **What the program does not run.** Nothing imports `message_auth.py`,
  `load_guard.py`, `recrawl.py`, `credits/farming.py`, `trust/audit.py`,
  `trust/detector.py`, `trust/dmca.py`, `trust/gdpr.py` and what only they use; the
  crawl lock of `dht.py` and the URL assigner have no caller that asks them; no
  node sends a replica or serves a submission. A model would have to invent
  their clients.
* **The rest of the P2P node**: its thread and start-up wait, the stream
  handlers of replication and submission, the bandwidth throttle, the status file.
* **Governor**: it pauses the loop; what that means for `LoopGoesOn` and
  `LockGivenBack` is said in 3.
* **JavaScript rendering, parsing, ranking and merging of results, summaries, formatting, the screens of
  the dashboard, the HTTP API, the SDK**: input and output around the services,
  with no order of steps TLC would add to. They are most of the code's lines.
* Inside modelled components: the worker's scope, attestations, signatures,
  reports, statistics, compression, `update_document` and `soft_delete` (no
  callers), Common Crawl imports, the vector store, floating-point rounding; of the
  dedup database the SimHash cap of 500,000 and what another process (`infomesh crawl`)
  writes into it.
* **Some hazards** of the code are what it does, so that a property can only except them:
  `PROJECT.json` says so in their notes.

`PROJECT.json` lists every component with what is left out of it.

## 7. Plan

The state spaces leave room for these, in this order:

1. `CrawlLoop` with `FeedLoop` in place of its feed items, and with
   `DocumentStore` in place of its set of documents, so that a busy index, a page
   that is seen and never stored, and a kill meet in one model.
2. Theorems about that composition, from those about its parts.
3. Message authentication, audits and the crawl lock, once the program runs them.
