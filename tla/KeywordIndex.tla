---------------------------- MODULE KeywordIndex ----------------------------
(***************************************************************************)
(* Publishing of the distributed inverted index: publish_batch             *)
(* (src/infomesh/index/distributed.py) calls publish_keyword               *)
(* (src/infomesh/p2p/dht.py) once per keyword, which reads the keyword's   *)
(* entry from the DHT, merges its own pointers in and writes it back.      *)
(*                                                                         *)
(* The crawl loop, the republishing of the local index and calls whose 60 s*)
(* (node.py:436) have passed, which go on in the trio thread, run as       *)
(* several batches of one node at once, each in a slot of it.  A batch    *)
(* gives way to the others where it waits for the DHT, and only there.     *)
(*                                                                         *)
(* The DHT (py-libp2p's KadDHT, external) is a register per keyword whose  *)
(* reads may fail and whose writes may take effect although they raise.    *)
(* A pointer is its (peer_id, doc_id), an entry the set of its pointers:   *)
(* its order decides only which old ones a full entry drops, which is left *)
(* open.  An hour is not counted: a record may pass out of it at any time. *)
(***************************************************************************)
EXTENDS Integers, FiniteSets

CONSTANTS
  Nodes,
  Node,         \* Node[s]: the node that slot s is of
  Keywords,
  Words,        \* Words[n][d]: extract_keywords of document d of node n
  PageSize,     \* batch_size of republish_local_index
  MaxPointers,  \* MAX_POINTERS_PER_KEYWORD
  MaxPublishes, \* MAX_PUBLISHES_PER_KEYWORD_HR
  NoKeyword

Slots == DOMAIN Node
Docs(n) == DOMAIN Words[n]

ASSUME KeywordIndexAssumption ==
  /\ IsFiniteSet(Slots) /\ Node \in [Slots -> Nodes]
  /\ DOMAIN Words = Nodes
  /\ \A n \in Nodes :
       /\ IsFiniteSet(Docs(n)) /\ Docs(n) = 1 .. Cardinality(Docs(n))
       /\ Words[n] \in [Docs(n) -> SUBSET Keywords]
  /\ {PageSize, MaxPointers, MaxPublishes} \subseteq Nat \ {0}
  /\ NoKeyword \notin Keywords

VARIABLES
  dht,     \* dht[k]: the pointers in the entry of keyword k
  task,    \* task[s]: the batch in slot s
  fresh,   \* fresh[n][k]: how many of n's _publish_times[k] are within the hour
  acked    \* history: the pointers publish_keyword has returned True for since
           \* the last write to the entry that may have taken pointers from it

vars == <<dht, task, fresh, acked>>

-----------------------------------------------------------------------------
Pointers == UNION {{n} \X Docs(n) : n \in Nodes}

(* "get": waiting for the old entry, "put": its write has not reached the  *)
(* DHT yet, "sent": it has, and has not returned.                          *)
TaskPc == {"idle", "get", "put", "sent"}

(* loses: "put", writing the entry may take pointers from the DHT's;       *)
(* "sent", such a write may have taken the ones this task has written.     *)
Task == [pc : TaskPc, batch : SUBSET Nat, todo : SUBSET Keywords,
         kw : Keywords \cup {NoKeyword}, entry : SUBSET Pointers,
         loses : BOOLEAN]

Idle == [pc |-> "idle", batch |-> {}, todo |-> {}, kw |-> NoKeyword,
         entry |-> {}, loses |-> FALSE]

(* One document the crawl loop has stored, or a page in doc_id order.      *)
Batches(n) ==
  LET Page(i, stored) ==
        {d \in Docs(n) : d <= stored /\ i * PageSize < d /\ d <= (i + 1) * PageSize}
      pages == {Page(i, stored) : i \in 0 .. Cardinality(Docs(n)), stored \in Docs(n)}
  IN  {{d} : d \in Docs(n)} \cup (pages \ {{}})

KeywordsOf(n, batch) == UNION {Words[n][d] : d \in batch}

(* keyword_pointers[k] of publish_batch: the first documents of the batch. *)
PointersOf(n, batch, k) ==
  LET with == {d \in batch : k \in Words[n][d]}
  IN  {n} \X {d \in with : Cardinality({e \in with : e < d}) < MaxPointers}

\* fault: the old entry is replaced
MergesReplacing(existing, new) == {new}

\* fault: no limit
MergesUncut(existing, new) == {existing \cup new}

(* _merge_pointers: all of the new pointers, and old ones up to the limit. *)
Merges(existing, new) ==
  LET all == existing \cup new
  IN  {entry \in SUBSET all :
         /\ new \subseteq entry
         /\ \/ Cardinality(all) <= MaxPointers /\ entry = all
            \/ Cardinality(all) > MaxPointers /\ Cardinality(entry) = MaxPointers}

\* fault: one too many
MayPublishOneMore(count, k) == count[k] <= MaxPublishes

(* _check_publish_rate *)
MayPublish(count, k) == count[k] < MaxPublishes

(* The loop of publish_batch up to its next wait: keywords over the rate   *)
(* are passed over, in whatever order the keywords come.                   *)
NextKeyword(s, batch, todo, count) ==
  \/ /\ \A k \in todo : ~MayPublish(count, k)
     /\ task' = [task EXCEPT ![s] = Idle]
  \/ \E k \in todo : \E over \in SUBSET {j \in todo : ~MayPublish(count, j)} :
       /\ MayPublish(count, k)
       /\ task' = [task EXCEPT ![s] =
            [Idle EXCEPT !.pc = "get", !.batch = batch, !.kw = k,
                         !.todo = todo \ (over \cup {k})]]

-----------------------------------------------------------------------------
Init ==
  /\ dht = [k \in Keywords |-> {}]
  /\ task = [s \in Slots |-> Idle]
  /\ fresh = [n \in Nodes |-> [k \in Keywords |-> 0]]
  /\ acked = [k \in Keywords |-> {}]

Start(s, batch) ==
  /\ task[s].pc = "idle"
  /\ NextKeyword(s, batch, KeywordsOf(Node[s], batch), fresh[Node[s]])
  /\ UNCHANGED <<dht, fresh, acked>>

(* _read_keyword_pointers returns: the entry, or nothing when it fails.    *)
Read(s, found) ==
  LET t == task[s]
      existing == IF found THEN dht[t.kw] ELSE {}
      new == PointersOf(Node[s], t.batch, t.kw)
      overflows == Cardinality(existing \cup new) > MaxPointers
  IN
  /\ t.pc = "get"
  /\ \E entry \in Merges(existing, new) :
       task' = [task EXCEPT ![s] =
         [t EXCEPT !.pc = "put", !.entry = entry,
                   !.loses = ~found \/ overflows]]
  /\ UNCHANGED <<dht, fresh, acked>>

(* The entry holds something that is not a pointer: merging it raises, and *)
(* the exception ends the batch.                                           *)
MergeRaises(s) ==
  /\ task[s].pc = "get"
  /\ task' = [task EXCEPT ![s] = Idle]
  /\ UNCHANGED <<dht, fresh, acked>>

(* The write takes effect: who has read the entry before holds an old one, *)
(* and who has written it may be undone.                                   *)
Reach(s) ==
  LET t == task[s]
      Hit(u) == u.kw = t.kw /\ (u.pc = "put" \/ (u.pc = "sent" /\ t.loses))
  IN
  /\ t.pc = "put"
  /\ dht' = [dht EXCEPT ![t.kw] = t.entry]
  /\ acked' = IF t.loses THEN [acked EXCEPT ![t.kw] = {}] ELSE acked
  /\ task' = [r \in Slots |->
       IF r = s THEN [t EXCEPT !.pc = "sent", !.loses = FALSE]
       ELSE [task[r] EXCEPT !.loses = @ \/ Hit(task[r])]]
  /\ UNCHANGED fresh

(* put_value returns: the publish is recorded and publish_keyword is True. *)
Published(s) ==
  LET t == task[s] IN
  /\ t.pc = "sent"
  /\ fresh' = [fresh EXCEPT ![Node[s]][t.kw] = @ + 1]
  /\ acked' = IF t.loses THEN acked
               ELSE [acked EXCEPT ![t.kw] = @ \cup PointersOf(Node[s], t.batch, t.kw)]
  /\ NextKeyword(s, t.batch, t.todo, fresh'[Node[s]])
  /\ UNCHANGED dht

(* put_value raises, before or after its write has taken effect.           *)
PutRaises(s) ==
  LET t == task[s] IN
  /\ t.pc \in {"put", "sent"}
  /\ NextKeyword(s, t.batch, t.todo, fresh[Node[s]])
  /\ UNCHANGED <<dht, fresh, acked>>

\* fault: two records pass out for one
ExpireTwice(n, k) ==
  /\ fresh[n][k] > 0
  /\ fresh' = [fresh EXCEPT ![n][k] = @ - 2]
  /\ UNCHANGED <<dht, task, acked>>

(* A recorded publish turns an hour old.                                   *)
Expire(n, k) ==
  /\ fresh[n][k] > 0
  /\ fresh' = [fresh EXCEPT ![n][k] = @ - 1]
  /\ UNCHANGED <<dht, task, acked>>

(* The node stops, whatever it is doing, and starts again.                 *)
Restart(n) ==
  /\ task' = [s \in Slots |-> IF Node[s] = n THEN Idle ELSE task[s]]
  /\ fresh' = [fresh EXCEPT ![n] = [k \in Keywords |-> 0]]
  /\ UNCHANGED <<dht, acked>>

BatchStep(s) ==
  \/ \E batch \in Batches(Node[s]) : Start(s, batch)
  \/ \E found \in BOOLEAN : Read(s, found)
  \/ MergeRaises(s)
  \/ Reach(s)
  \/ Published(s)
  \/ PutRaises(s)

Next ==
  \/ \E s \in Slots : BatchStep(s)
  \/ \E n \in Nodes, k \in Keywords : Expire(n, k)
  \/ \E n \in Nodes : Restart(n)

Spec == Init /\ [][Next]_vars

-----------------------------------------------------------------------------
TypeOK ==
  /\ dht \in [Keywords -> SUBSET Pointers]
  /\ task \in [Slots -> Task]
  /\ fresh \in [Nodes -> [Keywords -> Nat]]
  /\ acked \in [Keywords -> SUBSET Pointers]
  /\ \A s \in Slots :
       /\ task[s].pc = "idle" <=> task[s].kw = NoKeyword
       /\ task[s].batch \subseteq Docs(Node[s])

SlotsOf(n) == {s \in Slots : Node[s] = n}
Publishing(n, k) == {s \in SlotsOf(n) : task[s].kw = k}

(* The rate limit of a keyword (dht.py:106) is checked before the read and *)
(* counted after the write: every further batch of the node may slip       *)
(* through once, and no more, however the batches interleave.              *)
RateNearlyKept ==
  \A n \in Nodes, k \in Keywords :
    fresh[n][k] + Cardinality(Publishing(n, k))
      <= MaxPublishes + Cardinality(SlotsOf(n)) - 1

(* Entries merge instead of replacing (docs/en/02-architecture.md:72):     *)
(* what publish_keyword has reported published is in the entry until one   *)
(* of three things happens: a write from a read older than another write,  *)
(* from a read that failed, or one that overflows the entry.               *)
PublishedIsKept ==
  \A k \in Keywords : acked[k] \subseteq dht[k]

(* An entry never outgrows the limit (dht.py:38), and points at documents  *)
(* that have the keyword.                                                  *)
EntriesSound ==
  \A k \in Keywords :
    /\ Cardinality(dht[k]) <= MaxPointers
    /\ \A p \in dht[k] : k \in Words[p[1]][p[2]]

=============================================================================
