------------------------------ MODULE CrawlLoop ------------------------------
(***************************************************************************)
(* The crawler of one process: the Scheduler, the CrawlWorker that crawls  *)
(* a URL (worker.py), the dedup and document databases it writes, and the  *)
(* tasks that call it: the endless loop of "infomesh serve"                *)
(* (crawl_loop.py) and, in an MCP server process, the tool calls that      *)
(* crawl a URL on demand and may overlap (services.py).                    *)
(*                                                                         *)
(* A page may change: every fetch of a URL finds one of its pages, with a  *)
(* text and a canonical URL, and may fail in every way the worker tells    *)
(* apart.  Texts that differ by less than the SimHash threshold are one    *)
(* text, and the SimHash index never comes to its cap of 500000.           *)
(*                                                                         *)
(* asyncio switches tasks only where one waits.  A task in "add" or        *)
(* "store" that is not blocked in a put is in the middle of a run: nothing *)
(* but a crash of the process comes between its steps.                     *)
(***************************************************************************)
EXTENDS CrawlScheduler

CONSTANTS
  Loop,        \* the task that runs seed_and_crawl_loop, one of Callers
  RunsLoop,    \* whether this process runs it (serve) or not (MCP server)
  Seeds,       \* the seed URLs
  FeedUrls,    \* URLs the RSS feeds put in the priority queue
  Forces,      \* values of force that tool calls pass
  CallDepths,  \* and depths they name
  LinksOf,     \* LinksOf[u]: the links of the page at u
  SitemapOf,   \* SitemapOf[d]: the URLs in the sitemaps robots.txt names
  PagesOf,     \* PagesOf[u]: what a fetch of u may find, its text and its canonical
               \* URL, u itself when it names none
  NormOf,      \* NormOf[u]: normalize_url(u)
  GetTimeout   \* the 5 s the loop gives get_url

ASSUME LoopAssumption ==
  /\ Loop \in Callers
  /\ RunsLoop \in BOOLEAN
  /\ Seeds \cup FeedUrls \subseteq Urls
  /\ Forces \subseteq BOOLEAN /\ Forces # {}
  /\ CallDepths \subseteq Depths
  /\ LinksOf \in [Urls -> SUBSET Urls]
  /\ SitemapOf \in [Domains -> SUBSET Urls]
  /\ DOMAIN PagesOf = Urls
  /\ \A u \in Urls : \A p \in PagesOf[u] :
       /\ p = [text |-> p.text, canonical |-> p.canonical]
       /\ p.text # None /\ p.canonical \in Urls
  /\ NormOf \in [Urls -> Urls]
  /\ GetTimeout \in Nat
  /\ MaxDepth > 0 /\ Depths = 0 .. MaxDepth
  /\ 0 \in RateLimits

Pages == UNION {PagesOf[u] : u \in Urls}
Texts == {p.text : p \in Pages}
Direct == Callers \ {Loop}

VARIABLES
  job,       \* job[t]: what task t is doing
  patience,  \* time left before the loop gives up on get_url
  mark,      \* mark[n]: seen_urls.content_hash of the normalized URL n, or None
  near,      \* the texts in the SimHash index, which is in memory
  mapped,    \* domains whose sitemaps were scheduled (seen_urls, __sitemap_processed__)
  stored,    \* the rows of documents
  news,      \* feed items that have not been crawled yet
  wins,      \* wins[x].plain: unforced crawls that took text x for a new one;
             \* wins[x].other: a forced crawl, or one that a canonical URL ended,
             \* recorded it
  fate,      \* fate[x]: a mark with text x was overwritten with another text
             \* ("replaced"), and the process started again since ("forgotten")
  crawled,   \* the rows that crawls ever inserted into documents
  gap,       \* gap[d]: time since get_url last gave this process's loop a URL of d
  lost,      \* lost[d]: URLs of d that a timeout took from get_url
  late       \* time has passed while get_url, called by the loop, could go on

dedup == <<mark, near, fate>>
index == <<stored, crawled>>
durable == <<dedup, mapped, index>>
timeouts == <<lost, late>>
vars == <<schedVars, job, patience, durable, news, wins, gap, timeouts>>

Idle == [pc |-> "idle", item |-> None, force |-> FALSE, text |-> None,
         todo |-> {}, then |-> "idle", seeds |-> {}]

\* What a start of the process puts in memory.
FreshJobs ==
  [t \in Callers |->
     IF t = Loop /\ RunsLoop THEN [Idle EXCEPT !.pc = "seeding", !.seeds = Seeds] ELSE Idle]

Init ==
  /\ SchedInit
  /\ job = FreshJobs
  /\ patience = 0
  /\ mark = [n \in Urls |-> None] /\ near = {} /\ mapped = {} /\ stored = {}
  /\ news = FeedUrls
  /\ wins = [x \in Texts |-> [plain |-> 0, other |-> FALSE]]
  /\ fate = [x \in Texts |-> "kept"]
  /\ crawled = {}
  /\ gap = [d \in Domains |-> LongAgo]
  /\ lost = [d \in Domains |-> 0]
  /\ late = FALSE

Running(t) == job[t].pc \in {"add", "store"} /\ blocked[t] = None
MayRun(t) == \A o \in Callers \ {t} : ~Running(o)
Quiet == \A t \in Callers : ~Running(t)

Become(t, j) == job' = [job EXCEPT ![t] = j]
Url(t) == job[t].item.url

\* A task takes up the crawl of item.
Taken(item, force) == [Idle EXCEPT !.pc = "taken", !.item = item, !.force = force]

\* The loop goes through the seeds: before its first get_url (Phase 1), and
\* after ten idle seconds (_reseed_queue).
Rounds == {"seeding", "reseeding"}

\* is_url_seen
HasSeen(u) == mark[NormOf[u]] # None

-----------------------------------------------------------------------------
(* crawl_url *)

\* How often mark_done is called for a URL before crawl_url is left: by the
\* path that gives up on it, by mark_error if it was a failed request, and by
\* the finally clause in every case.
DonesOnRaise == 1
DonesForgotten == 0                     \* fault: a skipped URL stays counted
DonesOnSkip == 2
DonesOnFailure == 3

\* crawl_url gives up on the URL of t.
GiveUp(t, dones) ==
  /\ MarkDone(Url(t), dones)
  /\ Become(t, Idle)
  /\ UNCHANGED <<patience, news, wins, gap, timeouts>>

\* The checks before the first request.
Start(t) ==
  /\ job[t].pc = "taken"
  /\ \/ /\ GiveUp(t, DonesOnSkip)  \* blocked address
        /\ UNCHANGED durable
     \/ /\ HasSeen(Url(t)) /\ ~job[t].force
        /\ GiveUp(t, DonesOnSkip)
        /\ UNCHANGED durable
     \/ /\ ~HasSeen(Url(t)) \/ job[t].force
        /\ Become(t, [job[t] EXCEPT !.pc = "robots"])
        /\ UNCHANGED <<schedVars, patience, durable, news, wins, gap, timeouts>>

\* robots.txt has arrived: disallowed, or allowed with or without a
\* Crawl-delay; the sitemaps it names are fetched once per domain.
Robots(t) ==
  LET d == DomainOf[Url(t)]
      first == SitemapOf[d] # {} /\ d \notin mapped
  IN  /\ job[t].pc = "robots"
      /\ \/ GiveUp(t, DonesOnSkip) /\ UNCHANGED durable
         \/ /\ UNCHANGED schedVars \/ \E x \in CrawlDelays : SetCrawlDelay(d, x)
            /\ Become(t, [job[t] EXCEPT !.pc = IF first THEN "sitemap" ELSE "fetch"])
            /\ mapped' = IF first THEN mapped \cup {d} ELSE mapped
            /\ UNCHANGED <<patience, dedup, index, news, wins, gap, timeouts>>

\* The sitemap requests are over: those that were answered name URLs to add.
Sitemap(t) ==
  /\ job[t].pc = "sitemap"
  /\ \E found \in SUBSET SitemapOf[DomainOf[Url(t)]] :
       Become(t, [job[t] EXCEPT !.pc = "add", !.then = "fetch",
                    !.todo = [url : found, depth : {0}]])
  /\ UNCHANGED <<schedVars, patience, durable, news, wins, gap, timeouts>>

\* The texts that a row of seen_urls holds.
Marked == {mark[n] : n \in Urls} \ {None}

\* mark_seen: INSERT OR REPLACE by URL; the SimHash index only grows.
MarkSeenUrlOnly(u, x) ==                \* fault: no fingerprint is recorded
  /\ mark' = [mark EXCEPT ![NormOf[u]] = x]
  /\ UNCHANGED <<near, fate>>
MarkSeen(u, x) ==
  LET old == mark[NormOf[u]]
  IN  /\ mark' = [mark EXCEPT ![NormOf[u]] = x]
      /\ near' = near \cup {x}
      /\ fate' = IF old \in Texts \ {x} /\ fate[old] = "kept"
                 THEN [fate EXCEPT ![old] = "replaced"] ELSE fate

\* is_content_seen or is_near_duplicate
ContentSeen(x) == x \in Marked \cup near

\* The links of the page, one level deeper, unless the crawl is deep enough.
Follows(depth) == MaxDepth = 0 \/ depth < MaxDepth

Children(item) ==
  IF Follows(item.depth) THEN [url : LinksOf[item.url], depth : {item.depth + 1}] ELSE {}

\* The fetch and its retries are over.
FetchFailsSeen(t) ==                    \* fault: a failed page is recorded as seen
  /\ job[t].pc = "fetch"
  /\ \E dones \in {DonesOnRaise, DonesOnSkip, DonesOnFailure} : GiveUp(t, dones)
  /\ \E p \in PagesOf[Url(t)] : MarkSeen(Url(t), p.text)
  /\ UNCHANGED <<mapped, index>>
FetchFails(t) ==
  /\ job[t].pc = "fetch"
  /\ \E dones \in {DonesOnRaise, DonesOnSkip, DonesOnFailure} : GiveUp(t, dones)
  /\ UNCHANGED durable

\* They found page p of the URL.
Finds(t, p) == job[t].pc = "fetch" /\ p \in PagesOf[Url(t)]

Recorded(x) == [wins EXCEPT ![x].other = TRUE]

FetchCanonical(t, p) ==
  /\ Finds(t, p)
  /\ p.canonical # Url(t)
  /\ MarkSeen(Url(t), p.text)
  /\ MarkDone(Url(t), 1)
  /\ Become(t, [job[t] EXCEPT !.pc = "add", !.then = "idle",
                  !.todo = {[url |-> p.canonical, depth |-> job[t].item.depth]}])
  /\ wins' = Recorded(p.text)
  /\ UNCHANGED <<patience, mapped, index, news, gap, timeouts>>

FetchDuplicate(t, p) ==
  /\ Finds(t, p)
  /\ p.canonical = Url(t)
  /\ ContentSeen(p.text) /\ ~job[t].force
  /\ MarkSeen(Url(t), p.text)
  /\ GiveUp(t, DonesOnSkip)
  /\ UNCHANGED <<mapped, index>>

FetchPage(t, p) ==
  /\ Finds(t, p)
  /\ p.canonical = Url(t)
  /\ ~ContentSeen(p.text) \/ job[t].force
  /\ MarkSeen(Url(t), p.text)
  /\ MarkDone(Url(t), 1)
  /\ Become(t, [job[t] EXCEPT !.pc = "add", !.then = "store", !.text = p.text,
                  !.todo = Children(job[t].item)])
  /\ wins' = IF job[t].force THEN Recorded(p.text)
             ELSE [wins EXCEPT ![p.text].plain = Smaller(@ + 1, 2)]
  /\ UNCHANGED <<patience, mapped, index, news, gap, timeouts>>

Fetch(t) ==
  \/ FetchFails(t)
  \/ \E p \in Pages : FetchCanonical(t, p) \/ FetchDuplicate(t, p) \/ FetchPage(t, p)

\* The next link: skipped when it was seen, else offered to the scheduler.
AddNext(t) ==
  /\ job[t].pc = "add"
  /\ blocked[t] = None
  /\ \E item \in job[t].todo :
       /\ Become(t, [job[t] EXCEPT !.todo = @ \ {item}])
       /\ IF HasSeen(item.url) THEN UNCHANGED schedVars ELSE AddUrl(t, item)
  /\ UNCHANGED <<patience, durable, news, wins, gap, timeouts>>

\* All links were offered; at the end of crawl_url the finally clause runs.
AddDone(t) ==
  /\ job[t].pc = "add"
  /\ blocked[t] = None
  /\ job[t].todo = {}
  /\ IF job[t].then \in {"idle", "store"} THEN MarkDone(Url(t), 1) ELSE UNCHANGED schedVars
  /\ Become(t, IF job[t].then = "idle" THEN Idle ELSE [job[t] EXCEPT !.pc = job[t].then])
  /\ UNCHANGED <<patience, durable, news, wins, gap, timeouts>>

\* A link or a sitemap's URL cannot be parsed, or a database call fails: the
\* rest is not offered.  A page marked as seen is then not indexed; the seed
\* loop is not left alive by it, a later round of the seeds is (except
\* Exception).
AfterRaise(then) == IF then = "seeding" THEN [Idle EXCEPT !.pc = "ended"] ELSE Idle

AddRaises(t) ==
  /\ job[t].pc = "add"
  /\ blocked[t] = None
  /\ job[t].todo # {}
  /\ IF job[t].then \in Rounds THEN UNCHANGED schedVars ELSE MarkDone(Url(t), 1)
  /\ Become(t, AfterRaise(job[t].then))
  /\ UNCHANGED <<patience, durable, news, wins, gap, timeouts>>

\* index_document: the row is inserted, refused by UNIQUE (url or text_hash),
\* or the insert raises and the caller logs it and goes on.
Rows == [url : Urls, text : Texts]
Index == INSTANCE PageIndex WITH Pages <- Rows, index <- stored

Row(t) == [url |-> Url(t), text |-> job[t].text]

Fits(r) == \A o \in stored : o.url # r.url /\ o.text # r.text

Store(t) ==
  /\ job[t].pc = "store"
  /\ Become(t, Idle)
  /\ \/ /\ Fits(Row(t))
        /\ stored' = stored \cup {Row(t)}
        /\ crawled' = crawled \cup {Row(t)}
     \/ UNCHANGED index
  /\ UNCHANGED <<schedVars, patience, dedup, mapped, news, wins, gap, timeouts>>

CrawlStep(t) ==
  /\ MayRun(t)
  /\ \/ Start(t) \/ Robots(t) \/ Sitemap(t) \/ Fetch(t)
     \/ AddNext(t) \/ AddDone(t) \/ AddRaises(t) \/ Store(t)

\* A tool call crawls a URL, with or without force, at the depth it names.
Call(t) ==
  /\ Quiet
  /\ job[t] = Idle
  /\ \E item \in [url : Urls, depth : CallDepths], force \in Forces :
       Become(t, Taken(item, force))
  /\ UNCHANGED <<schedVars, patience, durable, news, wins, gap, timeouts>>

-----------------------------------------------------------------------------
(* seed_and_crawl_loop *)

\* One seed: added when it is new; otherwise fetched again for its links, which
\* are offered as those of a page are (AddNext, AddRaises).
SeedNext ==
  /\ Quiet
  /\ job[Loop].pc \in Rounds
  /\ blocked[Loop] = None
  /\ \E s \in job[Loop].seeds :
       LET j == [job[Loop] EXCEPT !.seeds = @ \ {s}]
       IN  IF ~HasSeen(s)
           THEN AddUrl(Loop, [url |-> s, depth |-> 0]) /\ Become(Loop, j)
           ELSE /\ UNCHANGED schedVars
                /\ \/ Become(Loop, j)
                   \/ Become(Loop, [j EXCEPT !.pc = "add", !.then = job[Loop].pc,
                                      !.todo = [url : LinksOf[s], depth : {1}]])
  /\ UNCHANGED <<patience, durable, news, wins, gap, timeouts>>

SeedDone ==
  /\ Quiet
  /\ job[Loop].pc \in Rounds
  /\ blocked[Loop] = None
  /\ job[Loop].seeds = {}
  /\ Become(Loop, Idle)
  /\ IF job[Loop].pc = "seeding" THEN SetUrlsPerHour(0) ELSE UNCHANGED schedVars
  /\ UNCHANGED <<patience, durable, news, wins, gap, timeouts>>

\* wait_for(get_url(), 5 s)
PatienceLeft == patience                \* fault: what the last call left
NewPatience == GetTimeout
LoopGet ==
  /\ Quiet
  /\ RunsLoop /\ job[Loop] = Idle
  /\ GetUrl
  /\ patience' = NewPatience
  /\ late' = FALSE
  /\ UNCHANGED <<job, durable, news, wins, gap, lost>>

LoopRunGet ==
  /\ Quiet
  /\ GetStep
  /\ \/ /\ getter'.pc # "idle"
        /\ UNCHANGED <<job, gap>>
     \/ \E item \in Item :
          /\ Returns(item)
          /\ Become(Loop, Taken(item, FALSE))
          /\ gap' = [gap EXCEPT ![Dom(item)] = 0]
  /\ UNCHANGED <<patience, durable, news, wins, timeouts>>

\* A URL of the priority queue is crawled without going through get_url.  The
\* feed monitor announces an item once, at a time nobody knows.
LoopPriority ==
  /\ Quiet
  /\ RunsLoop /\ job[Loop] = Idle /\ getter.pc = "idle"
  /\ \E u \in news :
       /\ Become(Loop, Taken([url |-> u, depth |-> 0], FALSE))
       /\ news' = news \ {u}
  /\ UNCHANGED <<schedVars, patience, durable, wins, gap, timeouts>>

\* Fault: get_url is awaited without a timeout, as long as it takes.
NeverTimesOut(pc) == pc = "sleeping"
\* Where get_url waits: for the queue to fill, or for the domain's delay.  A
\* queue that is not empty makes it wait for nothing.
Waits(pc) == pc = "sleeping" \/ (pc = "getting" /\ queue = <<>>)

\* The five seconds are over: get_url is cancelled where it waits, and an
\* item it holds is gone; after ten idle seconds the seeds are gone through.
LoopTimeout ==
  /\ Quiet
  /\ Waits(getter.pc)
  /\ patience = 0
  /\ getter' = NoGet
  /\ lost' = IF getter.item = None THEN lost
             ELSE [lost EXCEPT ![Dom(getter.item)] = Smaller(@ + 1, PendingPerDomain)]
  /\ job' \in {job, [job EXCEPT ![Loop] = [Idle EXCEPT !.pc = "reseeding", !.seeds = Seeds]]}
  /\ UNCHANGED <<domains, tracked, queue, blocked, urlsPerHour, hourlyCount, hourAge,
                 patience, durable, news, wins, gap, late>>

LoopStep ==
  SeedNext \/ SeedDone \/ LoopGet \/ LoopRunGet \/ LoopPriority \/ LoopTimeout

-----------------------------------------------------------------------------
\* get_url could go on at once: the event loop is held up by something else.
HeldUp == \/ getter.pc = "getting" /\ queue # <<>>
          \/ getter.pc = "sleeping" /\ getter.wait = 0

Elapse ==
  /\ Quiet
  /\ Tick
  /\ late' = (late \/ HeldUp)
  /\ patience' = Larger(patience - 1, 0)
  /\ gap' = [d \in Domains |-> Smaller(gap[d] + 1, LongAgo)]
  /\ UNCHANGED <<job, durable, news, wins, lost>>

\* The process is killed and started again: only the databases are left.
Crash ==
  /\ domains' = [d \in Domains |-> NewDomain]
  /\ tracked' = {}
  /\ queue' = <<>>
  /\ blocked' = [c \in Callers |-> None]
  /\ getter' = NoGet
  /\ hourlyCount' = 0 /\ hourAge' = 0
  /\ job' = FreshJobs
  /\ patience' = 0
  /\ news' = FeedUrls
  /\ gap' = [d \in Domains |-> LongAgo]
  /\ lost' = [d \in Domains |-> 0]
  /\ late' = FALSE
  /\ urlsPerHour' \in RateLimits        \* as configured
  /\ near' = Marked                     \* _reload_simhash_index
  /\ fate' = [x \in Texts |-> IF fate[x] = "kept" THEN "kept" ELSE "forgotten"]
  /\ UNCHANGED <<mark, mapped, index, wins>>

\* No step finishes a blocked put (FinishPut): only the loop takes URLs from
\* the queue, between its own crawls, and a process without it never does, so
\* a put that finds the queue full waits until the process ends.
Alive ==
  \/ \E t \in Callers : CrawlStep(t)
  \/ \E t \in Direct : Call(t)
  \/ LoopStep
  \/ Elapse

Next == Alive \/ Crash

Spec == Init /\ [][Next]_vars

\* Every task that can run does in the end (asyncio serves ready tasks in
\* order, requests and sleeps end by their timeouts) and time passes.
FairSpec ==
  /\ Spec
  /\ \A t \in Callers : WF_vars(CrawlStep(t))
  /\ WF_vars(LoopStep)
  /\ WF_vars(Elapse)

-----------------------------------------------------------------------------
JobPc == {"idle", "taken", "robots", "sitemap", "fetch", "add", "store", "seeding",
          "reseeding", "ended"}
Job == [pc : JobPc, item : Item \cup {None}, force : BOOLEAN, text : Texts \cup {None},
        todo : SUBSET Item, then : JobPc, seeds : SUBSET Urls]

TypeOK ==
  /\ SchedTypeOK
  /\ job \in [Callers -> Job]
  /\ patience \in 0 .. GetTimeout
  /\ mark \in [Urls -> Texts \cup {None}]
  /\ near \subseteq Texts
  /\ fate \in [Texts -> {"kept", "replaced", "forgotten"}]
  /\ mapped \subseteq Domains
  /\ stored \subseteq Rows /\ crawled \subseteq Rows
  /\ news \subseteq FeedUrls
  /\ wins \in [Texts -> [plain : 0 .. 2, other : BOOLEAN]]
  /\ gap \in [Domains -> 0 .. LongAgo]
  /\ lost \in [Domains -> 0 .. PendingPerDomain]
  /\ late \in BOOLEAN

\* However many tasks crawl at once, at most one unforced crawl takes a text
\* for a new one: the check and mark_seen of a page are not separated by a wait
\* (worker.py:335-359), though the check of its URL and the requests are.  A
\* kill does not change that, unless the page has changed: INSERT OR REPLACE
\* then puts its new text over the old one (dedup.py:206), which the SimHash
\* index still knows, but only until the process ends.
OneSuccessPerText == \A x \in Texts : wins[x].plain <= 1 \/ fate[x] = "forgotten"

\* Whatever a crawl has indexed is known to the dedup database, in every state
\* a kill can leave behind and after it was removed from the index: its URL for
\* ever, and its text unless the page has changed and the process has been
\* started again since.
IndexedIsKnown ==
  \A r \in crawled : HasSeen(r.url) /\ (ContentSeen(r.text) \/ fate[r.text] = "forgotten")

\* The loop starts a crawl, and does so when the domain's delay is over.
Starts == job[Loop].pc # "taken" /\ job'[Loop].pc = "taken"
OnTime == LET d == Dom(job'[Loop].item) IN gap[d] >= Delay(d)

\* Two URLs of a domain that the loop takes from the queue are crawled at
\* least the delay in force apart, although get_url is cancelled again and
\* again and every crawl may change the delay.
Politeness == [][Starts /\ getter.pc # "idle" => OnTime]_vars

\* A URL that get_url has taken from the queue is lost, short of a kill, only when
\* its domain's delay is as long as the loop's patience, or something else held
\* up the event loop: patience is measured from the call that took the URL.
LostOnlyWhenSlow ==
  [][getter.item # None /\ getter'.item = None /\ job'[Loop].item # getter.item
       => late \/ Delay(Dom(getter.item)) >= GetTimeout \/ Crash]_vars

\* get_url never comes to the hourly limit, where it would put a URL back into the
\* queue that it alone empties and could wait for itself: the limit is lifted
\* between the seeds and the first get_url, after every start
\* (seed_and_crawl_loop), whatever limit is configured.
NeverAtLimit == getter.pc \notin {"putback", "limited"}

\* URLs of d that the scheduler may still hear of: queued, with get_url, or in
\* a crawl.
Underway(d) ==
  Cardinality({i \in DOMAIN queue : Dom(queue[i]) = d})
    + Cardinality({c \in Callers : blocked[c] # None /\ Dom(blocked[c]) = d})
    + (IF getter.item # None /\ Dom(getter.item) = d THEN 1 ELSE 0)
    + Cardinality({c \in Callers : job[c].item # None /\ Dom(job[c].item) = d})

\* The pending count of a domain never exceeds the URLs under way and those the
\* timeout lost: every way out of crawl_url takes its URL off, so only lost URLs
\* use up the limit of the domain.
NoLeak == \A d \in Domains : domains[d].pending <= Underway(d) + lost[d]

\* A page is refused as a duplicate only when a crawl took its text for a new
\* one, or a forced crawl or a page that names another URL as its canonical one
\* recorded it: no failed or refused crawl leaves a text behind, with calls
\* overlapping, pages changing and kills.  A crawl that raises among the links,
\* after mark_seen, is one that took its text (worker.py:359-371).
DuplicateIsExplained ==
  [][\A t \in Callers : \A p \in Pages :
       FetchDuplicate(t, p) => wins[p.text].plain > 0 \/ wins[p.text].other]_vars

\* The loop is over, by an exception in Phase 1, which catches only those of the
\* requests (crawl_loop.py:291-304); or it waits for room in the queue that only
\* it empties.
Stopped == job[Loop].pc = "ended" \/ blocked[Loop] # None

\* The crawl loop of a process that is not killed again and again asks for a
\* URL again and again, whatever becomes of the requests and however empty the
\* queue is, while neither the governor nor a full disk keeps it waiting; only
\* the two ways to stop end that.
LoopGoesOn == []<><<LoopGet>>_vars \/ []<><<Crash>>_vars \/ <>[]Stopped
=============================================================================
