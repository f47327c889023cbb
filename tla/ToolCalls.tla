------------------------------ MODULE ToolCalls ------------------------------
(***************************************************************************)
(* An MCP server process: the tool calls web_search, with its cache of     *)
(* answers (search/cache.py), fetch_page, crawl_url and remove_url         *)
(* (mcp/handlers.py, services.py) over the crawler of CrawlLoop.  Calls    *)
(* overlap: a search waits for other nodes and for the language model      *)
(* between its reading of the index and its answer, a crawl for the web.   *)
(*                                                                         *)
(* A query stands for everything in the key of the cache: the query, the   *)
(* filters and the limit.  Of an answer only the pages of this node's text *)
(* index are kept: what other nodes add, the order and the wording are not *)
(* told apart.  The node has no vector store (an optional extra, from      *)
(* which nothing is ever removed).                                         *)
(***************************************************************************)
EXTENDS CrawlLoop

CONSTANTS
  Searchers,   \* the calls of web_search that may overlap
  Importer,    \* the command that imports a snapshot
  Clients,     \* the sets of those calls that are made side by side
  Queries,
  Matches,     \* Matches[q]: the URLs whose pages q finds
  CacheSize,   \* max_size
  Ttl,         \* ttl_seconds
  MaxSearch,   \* the longest a search waits: both waits have timeouts
  Imports      \* the pages of the snapshots that may be imported

ASSUME ToolAssumption ==
  /\ Clients \subseteq SUBSET (Direct \cup Searchers \cup {Importer})
  /\ Matches \in [Queries -> SUBSET Urls]
  /\ CacheSize \in Nat \ {0} /\ Ttl \in Nat /\ MaxSearch \in Nat
  /\ Imports \subseteq Rows

VARIABLES
  calls,  \* the calls that are made in this behaviour
  search, \* search[s]: the search s waits for, or None
  cache,  \* _cache, the least recently used entry first
  gone    \* gone[u], for a URL that queries find: time since its page was last
          \* removed from the index, or Never

toolVars == <<calls, search, cache, gone>>
allVars == <<vars, toolVars>>

Listed == UNION {Matches[q] : q \in Queries}

LongGone == Ttl + MaxSearch + 1
Never == LongGone + 1

ToolInit ==
  /\ Init
  /\ ~RunsLoop                         \* the loop is the serve process's
  /\ calls \in Clients
  /\ search = [s \in Searchers |-> None]
  /\ cache = <<>>
  /\ gone = [u \in Listed |-> Never]

-----------------------------------------------------------------------------
(* QueryCache *)

Cached(q) == \E i \in DOMAIN cache : cache[i].query = q
EntryOf(q) == cache[CHOOSE i \in DOMAIN cache : cache[i].query = q]
Without(q) ==
  LET i == CHOOSE i \in DOMAIN cache : cache[i].query = q
  IN  IF Cached(q) THEN SubSeq(cache, 1, i - 1) \o SubSeq(cache, i + 1, Len(cache)) ELSE cache

NeverExpires(e) == FALSE                \* fault: the age is not looked at
Expired(e) == e.age > Ttl

\* get has an answer.
Fresh(q) == Cached(q) /\ ~Expired(EntryOf(q))

\* put: at capacity the least recently used entry makes room.
PutInBeside(q, own) ==                  \* fault: nothing makes room
  Append(Without(q), [query |-> q, own |-> own, age |-> 0])
PutIn(q, own) ==
  LET full == ~Cached(q) /\ Len(cache) >= CacheSize
  IN  Append(IF full THEN Tail(cache) ELSE Without(q), [query |-> q, own |-> own, age |-> 0])

-----------------------------------------------------------------------------
(* web_search *)

\* search_local: the pages of the text index.
Found(q) == {u \in Matches[q] : \E r \in stored : r.url = u}

\* get: a hit moves the entry to the end.
SearchHit(q) ==
  /\ Fresh(q)
  /\ cache' = Append(Without(q), EntryOf(q))
  /\ UNCHANGED <<vars, calls, search, gone>>

\* get deletes an expired entry; the index is read before the search waits.
SearchMiss(s, q) ==
  /\ ~Fresh(q)
  /\ cache' = Without(q)
  /\ search' = [search EXCEPT ![s] = [query |-> q, own |-> Found(q), age |-> 0]]
  /\ UNCHANGED <<vars, calls, gone>>

Search(s) ==
  /\ Quiet
  /\ s \in calls
  /\ search[s] = None
  /\ \E q \in Queries : SearchHit(q) \/ SearchMiss(s, q)

\* Everyone asked has answered or was given up; the answer is kept.
SearchEnd(s) ==
  /\ Quiet
  /\ search[s] # None
  /\ cache' = PutIn(search[s].query, search[s].own)
  /\ search' = [search EXCEPT ![s] = None]
  /\ UNCHANGED <<vars, calls, gone>>

-----------------------------------------------------------------------------
(* fetch_page, crawl_url and remove_url *)

\* A URL that is not in the index is crawled without force; one that is costs
\* a look at the index only.
FetchTool(t) ==
  /\ t \in calls
  /\ Call(t)
  /\ LET j == job'[t]
     IN  ~j.force /\ j.item.depth = 0 /\ \A r \in stored : r.url # j.item.url
  /\ UNCHANGED toolVars

CrawlTool(t) == t \in calls /\ Call(t) /\ UNCHANGED toolVars

\* The document is deleted, and nothing else: the cache, the searches that have
\* read it and the dedup database stay as they are.
RemoveUrlForgets(r) ==                  \* fault: the URL is forgotten with the page
  /\ mark' = [mark EXCEPT ![NormOf[r.url]] = None] /\ near' = near \ {r.text}
  /\ stored' = stored \ {r}
  /\ UNCHANGED fate
RemoveUrlRow(r) ==
  /\ stored' = stored \ {r}
  /\ UNCHANGED dedup

RemoveUrl ==
  /\ Quiet
  /\ \E r \in stored :
       /\ RemoveUrlRow(r)
       /\ gone' = [gone EXCEPT ![r.url] = 0]
  /\ UNCHANGED <<schedVars, job, patience, mapped, crawled, news, wins, gap, timeouts,
                 calls, search, cache>>

\* "infomesh index import", another process, adds a page of a snapshot to the
\* database: a row without a mark (snapshot.py:219).
Import ==
  /\ Importer \in calls
  /\ \E r \in Imports : Fits(r) /\ stored' = stored \cup {r}
  /\ UNCHANGED <<schedVars, job, patience, dedup, mapped, crawled, news, wins, gap, timeouts,
                 toolVars>>

-----------------------------------------------------------------------------
ToolElapse ==
  /\ Elapse
  /\ \A s \in Searchers : search[s] # None => search[s].age < MaxSearch
  /\ search' = [s \in Searchers |->
                  IF search[s] = None THEN None ELSE [search[s] EXCEPT !.age = @ + 1]]
  /\ cache' = [i \in DOMAIN cache |-> [cache[i] EXCEPT !.age = Smaller(@ + 1, Ttl + 1)]]
  /\ gone' = [u \in Listed |->
               IF gone[u] = Never THEN Never ELSE Smaller(gone[u] + 1, LongGone)]
  /\ UNCHANGED calls

\* The cache is in memory.
ToolCrash ==
  /\ Crash
  /\ search' = [s \in Searchers |-> None]
  /\ cache' = <<>>
  /\ UNCHANGED <<calls, gone>>

ToolNext ==
  \/ \E t \in Callers : CrawlStep(t) /\ UNCHANGED toolVars
  \/ \E t \in Direct : FetchTool(t) \/ CrawlTool(t)
  \/ \E s \in Searchers : Search(s) \/ SearchEnd(s)
  \/ RemoveUrl
  \/ Import
  \/ ToolElapse
  \/ ToolCrash

ToolSpec == ToolInit /\ [][ToolNext]_allVars

-----------------------------------------------------------------------------
\* What a search has read, and what the cache keeps of it.
Reading == [query : Queries, own : SUBSET Listed, age : 0 .. MaxSearch]
Entry == [query : Queries, own : SUBSET Listed, age : 0 .. Ttl + 1]

\* The types of CrawlLoop; the cache is a sequence of entries for different
\* queries and at most CacheSize of them.
ToolTypeOK ==
  /\ TypeOK
  /\ calls \in Clients
  /\ search \in [Searchers -> Reading \cup {None}]
  /\ cache \in Seq(Entry) /\ Len(cache) <= CacheSize
  /\ \A i, j \in DOMAIN cache : cache[i].query = cache[j].query => i = j
  /\ gone \in [Listed -> 0 .. Never]

\* "Remove from local index on request" (docs/en/06-legal.md:53): a page that
\* was removed is shown for a bounded time only, as long at most as one search
\* waits and its answer is kept, though no removal touches the cache, a search
\* that read the index before puts its answer there after, and the page may be
\* crawled again, by force, in between.
RemovedSoonGone ==
  \A q \in Queries :
    Fresh(q) => \A u \in EntryOf(q).own :
                  (\A r \in stored : r.url # u) => gone[u] <= Ttl + MaxSearch

\* A page that a crawl had indexed and remove_url removed comes back, with the
\* text it had, only by a forced crawl or an import: its URL stays in the dedup
\* database across kills, and a crawl that was under way when it was first
\* indexed finds its text there, or in the SimHash index when a changed page has
\* put another text over it.
OnlyForcedReturns ==
  [][\A t \in Callers :
       Store(t) /\ stored' # stored /\ Row(t) \in crawled => job[t].force]_allVars
=============================================================================
