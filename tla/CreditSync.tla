----------------------------- MODULE CreditSync -----------------------------
(***************************************************************************)
(* Nodes of one owner tell each other their credits (credits/sync.py) over *)
(* the streams of the P2P node (p2p/node.py).  A node announces its owner  *)
(* once, after it has connected to its first peers; the peer that has the  *)
(* same owner answers with a summary of its credits and remembers the      *)
(* announcer.  Every few minutes a node sends its summary to each peer it  *)
(* remembers and has not heard of for a while.                             *)
(*                                                                         *)
(* The node's main task waits for one answer at a time and gives up after  *)
(* five seconds; streams are handled beside it.  Messages are delayed, lost*)
(* and overtake each other; nodes restart and keep only what is on disk.   *)
(* Five seconds are short against the interval of the rounds: giving up is *)
(* possible at any time.                                                   *)
(***************************************************************************)
EXTENDS Naturals, Integers, FiniteSets

CONSTANTS
  Nodes,      \* the nodes, named by the peer id of their P2P host
  Owners,     \* hashes of owner addresses
  NoOwner,    \* the hash of a node without an owner address
  OwnerOf,    \* OwnerOf[n]: the owner's hash n is configured with
  IdOf,       \* IdOf[n]: the local_peer_id its CreditSyncManager was given
  Reach,      \* Reach[n]: the peers that n may be connected to after its bootstrap
  Ahead,      \* Ahead[n]: how far the clock of n is ahead
  Tolerance,  \* the 5 min a summary may be from the future
  Interval,   \* SYNC_INTERVAL_SECONDS and the interval of the rounds
  TTL,        \* SUMMARY_TTL_HOURS
  MaxPeers,   \* MAX_PEER_SUMMARIES
  MaxEarned,  \* MaxEarned[n]: bound of the credits of n in the model
  UnderWay,   \* bound of a node's requests under way at once in the model
  MaxDelay,   \* after this time a message is lost with its stream
  None

ASSUME SyncAssumption ==
  /\ NoOwner \notin Owners
  /\ OwnerOf \in [Nodes -> Owners \cup {NoOwner}]
  /\ \A n \in Nodes : Reach[n] \subseteq Nodes \ {n}
  /\ Ahead \in [Nodes -> Nat]
  /\ Tolerance \in Nat
  /\ MaxEarned \in [Nodes -> Nat]
  /\ Interval \in Nat \ {0}
  /\ TTL \in Nat \ {0}
  /\ MaxPeers \in Nat
  /\ None \notin Nodes
  /\ UnderWay \in Nat \ {0}
  /\ MaxDelay \in Nat

VARIABLES
  earned,     \* earned[n]: the credits in the ledger of n
  table,      \* table[n]: the rows of peer_credit_summaries at n
  known,      \* known[n]: _same_owner_peers, [id, since] with the time since the last sync
  task,       \* task[n]: where the main task of n is
  sinceRound, \* now - last_credit_sync
  wire        \* messages under way

vars == <<earned, table, known, task, sinceRound, wire>>

Ids == {IdOf[n] : n \in Nodes} \cup Nodes
Smaller(a, b) == IF a <= b THEN a ELSE b

Row == [id : Ids, owner : Owners, earned : Nat, age : Int]

\* An announcement names a peer id and an owner, a summary (sent in a round or
\* as an answer) credits besides.  age: the time since it was built; read:
\* whether the sender still waits for what the handler writes.
Message == [kind : {"announce", "exchange", "answer"}, from : Nodes, to : Nodes,
            id : Ids, owner : Owners \cup {NoOwner}, earned : Nat,
            age : 0 .. MaxDelay, read : BOOLEAN]

TaskState == [pc : {"announce", "loop", "round"}, todo : SUBSET Ids, waits : Nodes \cup {None}]

HasIdentity(n) == OwnerOf[n] # NoOwner
SameOwner(n, m) == HasIdentity(n) /\ OwnerOf[n] = OwnerOf[m]

Other(n) == Nodes \ {n}

\* The main task after a start; _announce_credit_sync goes to the peers that
\* the bootstrap has reached.
Started(n, connected) ==
  [pc |-> "announce", todo |-> IF HasIdentity(n) THEN connected ELSE {}, waits |-> None]

Init ==
  /\ earned = [n \in Nodes |-> 0]
  /\ table = [n \in Nodes |-> {}]
  /\ known = [n \in Nodes |-> {}]
  /\ \E connected \in [Nodes -> SUBSET Nodes] :
       task = [n \in Nodes |-> Started(n, connected[n] \cap Reach[n])]
  /\ sinceRound = [n \in Nodes |-> 0]
  /\ wire = {}

-----------------------------------------------------------------------------
(* CreditSyncManager *)

\* What _announce_credit_sync sends.
Announcement(n, p) ==
  [kind |-> "announce", from |-> n, to |-> p, id |-> n, owner |-> OwnerOf[n], earned |-> 0,
   age |-> 0, read |-> TRUE]

\* build_summary, sent to p.
BuildSummary(n, p, kind) ==
  [kind |-> kind, from |-> n, to |-> p, id |-> IdOf[n], owner |-> OwnerOf[n],
   earned |-> earned[n], age |-> 0, read |-> TRUE]

\* The peers in entries once id was heard of that long ago.
Noted(entries, id, since) == {e \in entries : e.id # id} \cup {[id |-> id, since |-> since]}

\* register_same_owner_peer: due at once.
Registered(n, id) ==
  IF id = IdOf[n] THEN known[n] ELSE Noted(known[n], id, Interval + 1)

\* needs_sync
NeedsSyncOnce(n, id) == \A e \in known[n] : e.id # id     \* fault: known peers are never due
NeedsSync(n, id) == \A e \in known[n] : e.id = id => e.since > Interval

\* store_summary: one row per peer id, whatever its timestamp was.
InsertOnly(rows, row) == rows \cup {row}        \* fault: peer_id is not a key
Upsert(rows, row) == {r \in rows : r.id # row.id} \cup {row}

\* The row n makes of the summary in m, with the age its own clock gives it.
RowOf(n, m) ==
  [id |-> m.id, owner |-> m.owner, earned |-> m.earned,
   age |-> Smaller(m.age + Ahead[n] - Ahead[m.from], TTL + 1)]

\* get_peer_summaries, peer_count, has_peer: rows younger than the TTL.
Live(rows) == {r \in rows : r.age < TTL}

\* What receive_summary lets in: summaries of the same owner's other nodes, not
\* from the future, of peers it has already or while there is room.
OwnersAgree(n, row) == HasIdentity(n) /\ row.owner = OwnerOf[n]

Room(n, row) ==
  \/ \E r \in Live(table[n]) : r.id = row.id
  \/ Cardinality(Live(table[n])) < MaxPeers

Accepts(n, row) ==
  /\ OwnersAgree(n, row)
  /\ row.id # IdOf[n]
  /\ row.age >= -Tolerance
  /\ Room(n, row)

ReceiveSummary(n, m) ==
  LET row == RowOf(n, m)
  IN  IF Accepts(n, row)
      THEN /\ table' = [table EXCEPT ![n] = Upsert(@, row)]
           /\ known' = [known EXCEPT ![n] = Noted(@, row.id, 0)]
      ELSE UNCHANGED <<table, known>>

\* purge_stale
Unpurged(rows) == {r \in rows : r.age <= TTL}

-----------------------------------------------------------------------------
(* The main task of the node *)

Continue(n, t) == task' = [task EXCEPT ![n] = t]
Without(n, id) == [task[n] EXCEPT !.todo = @ \ {id}]
Send(n, p, message) ==
  /\ Cardinality({m \in wire : m.kind # "answer" /\ m.from = n}) < UnderWay
  /\ wire' = wire \cup {message}
  /\ Continue(n, [Without(n, p) EXCEPT !.waits = p])

\* _announce_credit_sync: one peer after the other, in any order; a peer that
\* cannot be reached is skipped.
AnnounceNext(n) ==
  /\ task[n].pc = "announce" /\ task[n].waits = None
  /\ \E p \in task[n].todo \cap Nodes :
       \/ Send(n, p, Announcement(n, p))
       \/ Continue(n, Without(n, p)) /\ UNCHANGED wire
  /\ UNCHANGED <<earned, table, known, sinceRound>>

AnnounceDone(n) ==
  /\ task[n].pc = "announce" /\ task[n].waits = None /\ task[n].todo = {}
  /\ Continue(n, [task[n] EXCEPT !.pc = "loop"])
  /\ sinceRound' = [sinceRound EXCEPT ![n] = 0]
  /\ UNCHANGED <<earned, table, known, wire>>

\* A round of _run_credit_sync_round begins.
RoundStart(n) ==
  /\ task[n].pc = "loop"
  /\ sinceRound[n] >= Interval
  /\ sinceRound' = [sinceRound EXCEPT ![n] = 0]
  /\ IF HasIdentity(n)
     THEN /\ table' = [table EXCEPT ![n] = Unpurged(@)]
          /\ Continue(n, [task[n] EXCEPT !.pc = "round", !.todo = {e.id : e \in known[n]}])
     ELSE UNCHANGED <<table, task>>
  /\ UNCHANGED <<earned, known, wire>>

\* The next peer of the round.
RoundSkip(n) ==
  /\ task[n].pc = "round" /\ task[n].waits = None
  /\ \E id \in task[n].todo : Continue(n, Without(n, id))
  /\ UNCHANGED <<earned, table, known, sinceRound, wire>>

RoundSend(n) ==
  /\ task[n].pc = "round" /\ task[n].waits = None
  /\ \E p \in task[n].todo \cap Nodes :
       /\ NeedsSync(n, p)
       /\ Send(n, p, BuildSummary(n, p, "exchange"))
  /\ UNCHANGED <<earned, table, known, sinceRound>>

RoundDone(n) ==
  /\ task[n].pc = "round" /\ task[n].waits = None /\ task[n].todo = {}
  /\ Continue(n, [task[n] EXCEPT !.pc = "loop"])
  /\ UNCHANGED <<earned, table, known, sinceRound, wire>>

\* An answer with a summary has arrived.
ReadAnswer(n) ==
  /\ \E a \in wire :
       /\ a.kind = "answer" /\ a.to = n /\ a.from = task[n].waits
       /\ ReceiveSummary(n, a)
       /\ wire' = wire \ {a}
  /\ Continue(n, [task[n] EXCEPT !.waits = None])
  /\ UNCHANGED <<earned, sinceRound>>

\* What is left under way when n has closed its stream: its requests, whose
\* answers nobody reads any more, and everything between other nodes.
Unread(n) ==
  {m \in wire : m.kind = "answer" /\ m.to # n}
    \cup {m \in wire : m.kind # "answer" /\ m.from # n}
    \cup {[m EXCEPT !.read = FALSE] : m \in {q \in wire : q.kind # "answer" /\ q.from = n}}

\* Five seconds are over, the stream broke, or it was closed without an answer.
GiveUp(n) ==
  /\ task[n].waits # None
  /\ Continue(n, [task[n] EXCEPT !.waits = None])
  /\ wire' = Unread(n)
  /\ UNCHANGED <<earned, table, known, sinceRound>>

-----------------------------------------------------------------------------
(* _handle_credit_sync *)

HandleAnnounce(n) ==
  /\ \E m \in wire :
       /\ m.kind = "announce" /\ m.to = n
       /\ IF m.owner # NoOwner /\ m.owner = OwnerOf[n]
          THEN /\ known' = [known EXCEPT ![n] = Registered(n, m.id)]
               /\ wire' = (wire \ {m}) \cup
                          (IF m.read THEN {BuildSummary(n, m.from, "answer")} ELSE {})
          ELSE wire' = wire \ {m} /\ UNCHANGED known
  /\ UNCHANGED <<earned, table, task, sinceRound>>

\* The summary is received; nothing is written back.
HandleExchange(n) ==
  /\ \E m \in wire :
       /\ m.kind = "exchange" /\ m.to = n
       /\ ReceiveSummary(n, m)
       /\ wire' = wire \ {m}
  /\ UNCHANGED <<earned, task, sinceRound>>

\* A stream that breaks before the handler has read it.
Lose ==
  /\ \E m \in wire : m.kind # "answer" /\ wire' = wire \ {m}
  /\ UNCHANGED <<earned, table, known, task, sinceRound>>

-----------------------------------------------------------------------------
Earn(n) ==
  /\ earned[n] < MaxEarned[n]
  /\ earned' = [earned EXCEPT ![n] = @ + 1]
  /\ UNCHANGED <<table, known, task, sinceRound, wire>>

\* What is still under way one unit of time later.
OlderForever(m) == {[m EXCEPT !.age = @ + 1]}    \* fault: streams never break
Older(m) == IF m.age = MaxDelay THEN {} ELSE {[m EXCEPT !.age = @ + 1]}

Elapse ==
  /\ table' = [n \in Nodes |-> {[r EXCEPT !.age = Smaller(@ + 1, TTL + 1)] : r \in table[n]}]
  /\ known' = [n \in Nodes |-> {[e EXCEPT !.since = Smaller(@ + 1, Interval + 1)] : e \in known[n]}]
  /\ sinceRound' = [n \in Nodes |-> Smaller(sinceRound[n] + 1, Interval)]
  /\ wire' = UNION {Older(m) : m \in wire}
  /\ UNCHANGED <<earned, task>>

\* The node stops and starts: the databases stay.
Restart(n) ==
  /\ known' = [known EXCEPT ![n] = {}]
  /\ \E connected \in SUBSET Reach[n] : Continue(n, Started(n, connected))
  /\ sinceRound' = [sinceRound EXCEPT ![n] = 0]
  /\ wire' = Unread(n)
  /\ UNCHANGED <<earned, table>>

TaskStep(n) ==
  \/ AnnounceNext(n) \/ AnnounceDone(n)
  \/ RoundStart(n) \/ RoundSkip(n) \/ RoundSend(n) \/ RoundDone(n)
  \/ ReadAnswer(n) \/ GiveUp(n)

Next ==
  \/ \E n \in Nodes : \/ TaskStep(n)
                      \/ HandleAnnounce(n) \/ HandleExchange(n)
                      \/ Earn(n) \/ Restart(n)
  \/ Lose
  \/ Elapse

Spec == Init /\ [][Next]_vars

\* A node's task goes on and time passes; a peer tried again and again is
\* reached in the end, and of the summaries it sends some arrive.  Nothing is
\* assumed of announcements, answers and restarts.
FairSpec ==
  /\ Spec
  /\ WF_vars(Elapse)
  /\ \A n \in Nodes : /\ WF_vars(TaskStep(n))
                     /\ WF_vars(RoundStart(n))
                     /\ SF_vars(RoundSend(n))
                     /\ SF_vars(HandleExchange(n))

-----------------------------------------------------------------------------
TypeOK ==
  /\ earned \in [Nodes -> Nat] /\ \A n \in Nodes : earned[n] <= MaxEarned[n]
  /\ table \in [Nodes -> SUBSET Row]
  /\ known \in [Nodes -> SUBSET [id : Ids, since : 0 .. Interval + 1]]
  /\ task \in [Nodes -> TaskState]
  /\ sinceRound \in [Nodes -> 0 .. Interval]
  /\ wire \subseteq Message

\* Whatever is delayed, lost or overtaken and whoever restarts: what a node adds
\* to its own credits are credits another node of its owner has earned, once
\* for each node ("no double-counting", sync.py:13).
NoCreditInvented ==
  \A n \in Nodes :
    /\ \A r \in table[n] :
         \E m \in Other(n) : SameOwner(n, m) /\ r.id = IdOf[m] /\ r.earned <= earned[m]
    /\ \A r, q \in table[n] : r.id = q.id => r = q

Knows(n, m) == \E e \in known[n] : e.id = m
UpToDate(n, m) == \E r \in Live(table[n]) : r.id = IdOf[m] /\ r.earned = earned[m]

\* Of two nodes of one owner, one of which knows the other and is not restarted
\* for ever, one has the other's present credits again and again, although a delayed summary may
\* replace a newer one (sync.py:448).  It need not be both: a summary received
\* puts off the receiver's own next one, and nothing is sent back.
OneSideKeepsUp ==
  \A n, m \in Nodes :
    SameOwner(n, m) /\ n # m =>
      (<>[]Knows(n, m) => []<>(UpToDate(n, m) \/ UpToDate(m, n)))
=============================================================================
