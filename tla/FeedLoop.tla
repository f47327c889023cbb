------------------------------ MODULE FeedLoop ------------------------------
(***************************************************************************)
(* RSS feeds in the serve process.  One task polls the feeds that are due  *)
(* (crawl_loop.py, feed_poll_loop) and puts their new items in the         *)
(* priority queue (freshness.py); the crawl loop empties that queue in     *)
(* batches between its own crawls and registers the feeds it discovers on  *)
(* pages (feed_monitor.py).  Both run on one event loop and switch only    *)
(* while they wait for a request or sleep: one action is one run, except   *)
(* that the items of an answer are queued one at a time.                   *)
(*                                                                         *)
(* Every feed the program registers has normal priority and the default    *)
(* interval, and every item is queued with the same trigger, so the heap   *)
(* is ordered by the time of arrival: a sequence.                          *)
(***************************************************************************)
EXTENDS Naturals, Sequences, FiniteSets

CONSTANTS
  Feeds,      \* feed URLs that pages may name
  Malformed,  \* those of them httpx refuses with InvalidURL, which is no HTTPError
  Items,      \* item URLs
  Interval,   \* POLL_INTERVALS[NORMAL]
  MaxFeeds,   \* rss_max_feeds
  MaxSize,    \* max_size of the PriorityRecrawlQueue
  Batch,      \* batch_size of _process_priority_queue
  Absent,     \* not registered
  Never       \* registered and never polled

ASSUME FeedAssumption ==
  /\ Malformed \subseteq Feeds
  /\ IsFiniteSet(Feeds) /\ IsFiniteSet(Items)
  /\ {Interval, MaxSize, Batch} \subseteq Nat \ {0}
  /\ MaxFeeds \in Nat
  /\ Absent \notin Nat /\ Never \notin Nat /\ Absent # Never

VARIABLES
  feed,   \* feed[f]: Absent, Never or the time since last_poll_at
  poll,   \* the poll task: where it is, the rest of due_feeds, items to enqueue
  seen,   \* _seen_urls of the monitor
  heap,   \* _heap of the queue
  urls,   \* _urls of the queue
  loop,   \* the crawl loop: where it is, what is left of a batch
  taken   \* items given to crawl_url (history)

vars == <<feed, poll, seen, heap, urls, loop, taken>>

Registered == {f \in Feeds : feed[f] # Absent}

Init ==
  /\ feed = [f \in Feeds |-> Absent]
  /\ poll = [pc |-> "resting", todo |-> {}, new |-> {}]
  /\ seen = {} /\ heap = <<>> /\ urls = {} /\ taken = {}
  /\ loop = [pc |-> "turn", left |-> 0]

-----------------------------------------------------------------------------
(* PriorityRecrawlQueue *)

\* enqueue: refused when the URL waits already or the heap is full.
Enqueue(u) ==
  IF u \in urls \/ Len(heap) >= MaxSize
  THEN UNCHANGED <<heap, urls>>
  ELSE heap' = Append(heap, u) /\ urls' = urls \cup {u}

\* dequeue takes the first entry whose URL still waits.
Live == {i \in DOMAIN heap : heap[i] \in urls}
First == CHOOSE i \in Live : \A j \in Live : i <= j

DequeuedKept(i) == urls                 \* fault: the URL stays in _urls
DequeuedUrls(i) == urls \ {heap[i]}

-----------------------------------------------------------------------------
(* feed_poll_loop *)

\* Never polled, or the interval is over (ages stop there).
Due(f) == feed[f] \in {Never, Interval}

At(pc, todo, new) == [pc |-> pc, todo |-> todo, new |-> new]

\* The sleep of five or ten seconds is over.  The order of the due feeds
\* depends on how long each is overdue; here it is any.
PollWake ==
  /\ poll.pc = "resting"
  /\ \E f \in Feeds : Due(f)
  /\ poll' = At("polling", {f \in Feeds : Due(f)}, {})
  /\ UNCHANGED <<feed, seen, heap, urls, loop, taken>>

\* The rest of due_feeds, or the sleep after it.
GoOn(todo) == IF todo = {} THEN At("resting", {}, {}) ELSE At("polling", todo, {})

Polls(f) == poll.pc = "polling" /\ f \in poll.todo

\* process_feed_response: the new items of the feed are marked as seen, in the
\* same run in which they are enqueued.
SeenForgotten(new) == seen              \* fault: the items are not remembered
SeenWith(new) == seen \cup new

PollAnswer(f) ==
  /\ Polls(f) /\ f \notin Malformed
  /\ \E new \in SUBSET (Items \ seen) :
       /\ seen' = SeenWith(new)
       /\ poll' = IF new = {} THEN GoOn(poll.todo \ {f})
                  ELSE At("enqueueing", poll.todo \ {f}, new)
  /\ feed' = [feed EXCEPT ![f] = 0]
  /\ UNCHANGED <<heap, urls, loop, taken>>

EnqueueNext(u) ==
  /\ poll.pc = "enqueueing" /\ u \in poll.new
  /\ Enqueue(u)
  /\ poll' = IF poll.new = {u} THEN GoOn(poll.todo)
             ELSE [poll EXCEPT !.new = @ \ {u}]
  /\ UNCHANGED <<feed, seen, loop, taken>>

PollFailsUncaught(f) ==                 \* fault: a failed request ends the task
  /\ Polls(f) /\ f \notin Malformed
  /\ poll' = At("dead", {}, {})
  /\ UNCHANGED <<feed, seen, heap, urls, loop, taken>>
\* An HTTP error, a failed connection or a feed that does not parse.
PollFails(f) ==
  /\ Polls(f) /\ f \notin Malformed
  /\ feed' = [feed EXCEPT ![f] = 0]
  /\ poll' = GoOn(poll.todo \ {f})
  /\ UNCHANGED <<seen, heap, urls, loop, taken>>

\* Any other exception leaves the loop and ends the task; nobody looks at it.
PollDies(f) ==
  /\ Polls(f) /\ f \in Malformed
  /\ poll' = At("dead", {}, {})
  /\ UNCHANGED <<feed, seen, heap, urls, loop, taken>>

PollStep ==
  \/ PollWake
  \/ \E f \in Feeds : PollAnswer(f) \/ PollFails(f) \/ PollDies(f)
  \/ \E u \in Items : EnqueueNext(u)

\* Whether another task may run.
Quiet == poll.pc # "enqueueing"

-----------------------------------------------------------------------------
(* The crawl loop *)

NextOfBatchUnbounded(left) ==          \* fault: the batch is not bounded
  IF Live = {}
  THEN /\ loop' = [pc |-> "page", left |-> 0]
       /\ heap' = <<>>
       /\ UNCHANGED <<urls, taken>>
  ELSE /\ loop' = [pc |-> "crawling", left |-> left - 1]
       /\ heap' = SubSeq(heap, First + 1, Len(heap))
       /\ urls' = DequeuedUrls(First)
       /\ taken' = taken \cup {heap[First]}
\* The next item of a batch goes to crawl_url, or the loop goes on to get_url.
NextOfBatch(left) ==
  IF left = 0 \/ Live = {}
  THEN /\ loop' = [pc |-> "page", left |-> 0]
       /\ heap' = IF left = 0 THEN heap ELSE <<>>
       /\ UNCHANGED <<urls, taken>>
  ELSE /\ loop' = [pc |-> "crawling", left |-> left - 1]
       /\ heap' = SubSeq(heap, First + 1, Len(heap))
       /\ urls' = DequeuedUrls(First)
       /\ taken' = taken \cup {heap[First]}

\* _process_priority_queue starts; it does nothing when no URL waits.
LoopTurn ==
  /\ loop.pc = "turn"
  /\ IF urls = {}
     THEN loop' = [pc |-> "page", left |-> 0] /\ UNCHANGED <<heap, urls, taken>>
     ELSE NextOfBatch(Batch)
  /\ UNCHANGED <<feed, poll, seen>>

\* The crawl of an item is over, with or without success or with an exception.
ItemDone ==
  /\ loop.pc = "crawling"
  /\ NextOfBatch(loop.left)
  /\ UNCHANGED <<feed, poll, seen>>

\* get_url and the crawl of a page, if there is one: the feeds the page names
\* are registered one after the other as long as there is room.
RoomIgnored(old, named) == {old \cup named}     \* fault: rss_max_feeds is ignored
WithRoom(old, named) ==
  {new \in SUBSET (old \cup named) :
     /\ old \subseteq new
     /\ \/ new = old \cup named /\ Cardinality(new) <= MaxFeeds
        \/ Cardinality(new) = MaxFeeds
        \/ new = old /\ Cardinality(old) >= MaxFeeds}

LoopPage ==
  /\ loop.pc = "page"
  /\ loop' = [pc |-> "turn", left |-> 0]
  /\ \E named \in SUBSET Feeds : \E new \in WithRoom(Registered, named) :
       feed' = [f \in Feeds |-> IF f \in new \ Registered THEN Never ELSE feed[f]]
  /\ UNCHANGED <<poll, seen, heap, urls, taken>>

LoopStep == Quiet /\ (LoopTurn \/ ItemDone \/ LoopPage)

-----------------------------------------------------------------------------
\* Time passes; ages beyond the interval are all alike.
Elapse ==
  /\ Quiet
  /\ feed' = [f \in Feeds |->
                IF feed[f] \in Nat /\ feed[f] < Interval THEN feed[f] + 1 ELSE feed[f]]
  /\ UNCHANGED <<poll, seen, heap, urls, loop, taken>>

\* The process ends and is started again: all of this lives in memory.
Restart ==
  /\ feed' = [f \in Feeds |-> Absent]
  /\ poll' = At("resting", {}, {})
  /\ seen' = {} /\ heap' = <<>> /\ urls' = {} /\ taken' = {}
  /\ loop' = [pc |-> "turn", left |-> 0]

Next == PollStep \/ LoopStep \/ Elapse \/ Restart

Spec == Init /\ [][Next]_vars

\* Requests and sleeps end, asyncio serves both tasks, and time passes.
FairSpec == Spec /\ WF_vars(PollStep) /\ WF_vars(LoopStep) /\ WF_vars(Elapse)

-----------------------------------------------------------------------------
TypeOK ==
  /\ feed \in [Feeds -> {Absent, Never} \cup (0 .. Interval)]
  /\ poll \in [pc : {"resting", "polling", "enqueueing", "dead"},
              todo : SUBSET Feeds, new : SUBSET Items]
  /\ seen \subseteq Items
  /\ heap \in Seq(Items)
  /\ urls \subseteq Items
  /\ loop \in [pc : {"turn", "crawling", "page"}, left : 0 .. Batch]
  /\ taken \subseteq Items

\* The queue's two structures agree: every entry of the heap waits, once, so
\* that the size check counts what waits and the lazy deletion of freshness.py
\* never leaves anything behind in the program.
HeapIsExact ==
  /\ {heap[i] : i \in DOMAIN heap} = urls
  /\ \A i, j \in DOMAIN heap : heap[i] = heap[j] => i = j
  /\ Len(heap) <= MaxSize

\* The monitor never has more feeds than rss_max_feeds, over any pages.
FeedsWithinLimit == Cardinality(Registered) <= MaxFeeds

\* An item is marked as seen before it is queued and is never looked at again:
\* even so it is offered at most once, lost only to a full queue, and offered
\* in the end when it was queued.
NoRoom(waiting) == Cardinality(waiting) = MaxSize

Delivery == INSTANCE ItemDelivery
  WITH Full <- NoRoom, queued <- urls, offered <- taken,
       dropped <- seen \ (urls \cup taken \cup poll.new)

Delivered == Delivery!FairSpec

\* Every registered feed is polled again and again, whatever its answers, until
\* a malformed feed URL on some page ends the poll task.
FeedsPolledAgain ==
  \A f \in Feeds :
    []<>(\/ feed[f] \in {Absent, 0}
         \/ poll.pc = "dead" /\ Registered \cap Malformed # {})
=============================================================================
