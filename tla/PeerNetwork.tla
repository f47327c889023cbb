---------------------------- MODULE PeerNetwork ----------------------------
(***************************************************************************)
(* How nodes find and remember each other: the main task of the P2P node   *)
(* (p2p/node.py) with its bootstrap, its cached peers, its rounds of peer  *)
(* exchange and its connections on the LAN; the peer store on disk         *)
(* (p2p/peer_store.py), peer exchange (p2p/pex.py), the subnet limiter     *)
(* (p2p/sybil.py) and the announcements of p2p/mdns.py.                    *)
(*                                                                         *)
(* The task does one thing at a time and waits in between; meanwhile other *)
(* nodes connect to it, connections break, and processes are killed.  Each *)
(* round may begin at any time in the loop, which stands for its timer.    *)
(***************************************************************************)
EXTENDS Naturals, FiniteSets, Functions

CONSTANTS
  Nodes,
  Boot,         \* Boot[n]: the bootstrap nodes n has configured or discovered
  Lan,          \* the nodes that hear each other's announcements, one subnet
  Rounds,       \* the nodes whose task is modelled; the others start and stop at once, and answer
  Reused,       \* the nodes whose object is started again after a stop
  MaxPerSubnet, \* subnet_max_per_bucket
  LoadLimit,    \* DEFAULT_LOAD_LIMIT
  MaxPeers,     \* DEFAULT_MAX_PEERS
  Weight,       \* how many failures one success outweighs: 4
  MaxStanding,  \* bound of a peer's standing in the model
  PerRound,     \* PEX_MAX_PEERS_PER_ROUND
  PexMax        \* PEX_MAX_PEERS

ASSUME NetworkAssumption ==
  /\ IsFiniteSet(Nodes)
  /\ Boot \in [Nodes -> SUBSET Nodes]
  /\ Lan \subseteq Nodes /\ Reused \subseteq Nodes /\ Rounds \subseteq Nodes
  /\ MaxPerSubnet \in Nat /\ LoadLimit \in Nat /\ MaxPeers \in Nat
  /\ Weight \in Nat \ {0} /\ MaxStanding \in Nat \ {0}
  /\ PerRound \in Nat /\ PexMax \in Nat

VARIABLES
  links,     \* connections, as sets of two nodes
  task,      \* task[n]: where the main task of n is
  store,     \* store[n]: the rows of peer_store.db, one for a peer
  leaving,   \* leaving[n]: stop() of n was called, its task goes on to the end of its turn
  pex,       \* pex[n]: the object of n has a PeerExchange
  answering, \* answering[n]: the PEX handler of n has one
  heard,     \* heard[n]: who has asked n for peers less than a minute ago
  limiter,   \* limiter[n]: the peers the limiter of n has counted
  deaf       \* deaf[n]: the thread of n that listens to announcements has ended

vars == <<links, task, store, leaving, pex, answering, heard, limiter, deaf>>

\* A row: standing is 4 * success_count - fail_count.  A row is made with a
\* success; below five attempts or above a success rate of 20 % means just
\* that standing is positive.  age is the number of peers seen after this one,
\* which is what an order by last_seen tells.
Row == [peer : Nodes, standing : 0 .. MaxStanding, age : Nat]

\* todo: the peers the phase has still to try; reached: whether a bootstrap node
\* was connected to; known: the peers an exchange round knows.
Phases == {"down", "stopped", "boot", "cached", "loop", "refresh", "pex", "mdns", "hung"}
Task == [pc : Phases, todo : SUBSET Nodes, reached : BOOLEAN, known : SUBSET Nodes]

At(n, pc) == task[n].pc = pc
Running(n) == ~At(n, "down") /\ ~At(n, "stopped")
Linked(n, m) == {n, m} \in links
Connected(n) == {m \in Nodes \ {n} : Linked(n, m)}

\* get_connected_peers: nobody once the state is not RUNNING any more.
Reported(n) == IF leaving[n] THEN {} ELSE Connected(n)

Idle(pc) == [pc |-> pc, todo |-> {}, reached |-> FALSE, known |-> {}]
Phase(n, pc, todo) == task' = [task EXCEPT ![n] = [Idle(pc) EXCEPT !.todo = todo]]
Tried(n, p) == task' = [task EXCEPT ![n].todo = @ \ {p}]
Pick(n, p) == p \in task[n].todo

Init ==
  /\ links = {}
  /\ task = [n \in Nodes |-> Idle("down")]
  /\ store = [n \in Nodes |-> {}]
  /\ leaving = [n \in Nodes |-> FALSE]
  /\ pex = [n \in Nodes |-> FALSE]
  /\ answering = [n \in Nodes |-> FALSE]
  /\ heard = [n \in Nodes |-> {}]
  /\ limiter = [n \in Nodes |-> {}]
  /\ deaf = [n \in Nodes |-> FALSE]

-----------------------------------------------------------------------------
(* PeerStore *)

Smaller(a, b) == IF a <= b THEN a ELSE b
Stored(rows) == {r.peer : r \in rows}
Standing(rows, p) == LET r == CHOOSE r \in rows : r.peer = p
                     IN IF p \in Stored(rows) THEN r.standing ELSE 0
Newer(rows, r) == {o \in rows : o.age < r.age}

\* save_connected of some peers, the last of them at place 0: whoever was not
\* saved comes after them.
Places(peers) == Bijection(peers, 0 .. Cardinality(peers) - 1)
Saved(rows, p, age) ==
  [peer |-> p, standing |-> Smaller(MaxStanding, Weight + Standing(rows, p)), age |-> age]
Save(rows, peers, place) ==
  LET others == {r \in rows : r.peer \notin peers}
  IN {Saved(rows, p, place[p]) : p \in peers} \cup
     {[r EXCEPT !.age = Cardinality(peers) + Cardinality(Newer(others, r))] : r \in others}

Upsert(rows, p) == Save(rows, {p}, [q \in {p} |-> 0])

\* record_failure
Failed(rows, p) == {IF r.peer = p THEN [r EXCEPT !.standing = @ - 1] ELSE r : r \in rows}

\* load_recent
Unfiltered(rows) == rows                      \* fault: the clause on the success rate is dropped
Eligible(rows) == {r \in rows : r.standing > 0}
Newest(rows, k) == {r \in rows : Cardinality(Newer(rows, r)) < k}
LoadRecent(rows) == Newest(Eligible(rows), LoadLimit)

\* prune: the rows older than a week go, then the oldest above the limit.
Young(rows, kept) ==
  {{r \in rows : r.age < k} : k \in {k \in 0 .. Cardinality(rows) :
                                      \A r \in rows : r.peer \in kept => r.age < k}}
TrimNewest(rows) == rows \ Newest(rows, Cardinality(rows) - MaxPeers)  \* fault: ORDER BY last_seen DESC
Trim(rows) == Newest(rows, MaxPeers)

-----------------------------------------------------------------------------
(* A start.  The handlers are registered before the PeerExchange is made: a  *)
(* handler keeps the one an earlier start of the same object has left.       *)
StartNode(n) ==
  /\ ~Running(n)
  /\ answering' = [answering EXCEPT ![n] = pex[n]]
  /\ pex' = [pex EXCEPT ![n] = TRUE]
  /\ heard' = [heard EXCEPT ![n] = {}]
  /\ leaving' = [leaving EXCEPT ![n] = FALSE]
  /\ deaf' = [deaf EXCEPT ![n] = FALSE]
  /\ IF n \in Rounds THEN Phase(n, "boot", Boot[n] \ {n}) ELSE Phase(n, "loop", {})
  /\ UNCHANGED <<links, store, limiter>>

-----------------------------------------------------------------------------
(* _bootstrap, at the start and in every refresh of the routing table *)

Connect(n, p) == Running(p) /\ links' = links \cup {{n, p}}

BootConnect(n, p) ==
  /\ task[n].pc \in {"boot", "refresh"} /\ Pick(n, p)
  /\ Connect(n, p)
  /\ task' = [task EXCEPT ![n].todo = @ \ {p}, ![n].reached = TRUE]
  /\ UNCHANGED <<store, leaving, pex, answering, heard, limiter, deaf>>

\* Refused, or ten seconds are over.
BootFails(n) ==
  /\ task[n].pc \in {"boot", "refresh"}
  /\ \E p \in task[n].todo : Tried(n, p)
  /\ UNCHANGED <<links, store, leaving, pex, answering, heard, limiter, deaf>>

\* _post_bootstrap_setup goes on: the cached peers only when no bootstrap node was
\* reached.
BootDone(n) ==
  /\ At(n, "boot") /\ task[n].todo = {}
  /\ IF task[n].reached
     THEN Phase(n, "loop", {})
     ELSE Phase(n, "cached", Stored(LoadRecent(store[n])) \ {n})
  /\ UNCHANGED <<links, store, leaving, pex, answering, heard, limiter, deaf>>

-----------------------------------------------------------------------------
(* _connect_cached_peers, those seen last first *)

Freshest(n, p) ==
  /\ Pick(n, p)
  /\ \A r, o \in store[n] : r.peer = p /\ o.peer \in task[n].todo => r.age <= o.age

CachedConnect(n, p) ==
  /\ At(n, "cached") /\ Freshest(n, p)
  /\ Connect(n, p)
  /\ store' = [store EXCEPT ![n] = Upsert(@, p)]
  /\ Tried(n, p)
  /\ UNCHANGED <<leaving, pex, answering, heard, limiter, deaf>>

CachedFails(n, p) ==
  /\ At(n, "cached") /\ Freshest(n, p)
  /\ store' = [store EXCEPT ![n] = Failed(@, p)]
  /\ Tried(n, p)
  /\ UNCHANGED <<links, leaving, pex, answering, heard, limiter, deaf>>

CachedDone(n) ==
  /\ At(n, "cached") /\ task[n].todo = {}
  /\ Phase(n, "loop", {})
  /\ UNCHANGED <<links, store, leaving, pex, answering, heard, limiter, deaf>>

-----------------------------------------------------------------------------
(* _run_main_loop: refresh of the routing table *)

NothingToRefresh(n) == {}                       \* fault: only the start bootstraps
RefreshTargets(n) == Boot[n] \ {n}
RefreshBegin(n) ==
  /\ n \in Rounds /\ At(n, "loop")
  /\ Phase(n, "refresh", RefreshTargets(n))
  /\ UNCHANGED <<links, store, leaving, pex, answering, heard, limiter, deaf>>

\* _save_connected_peers and prune.
RefreshDone(n) ==
  /\ At(n, "refresh") /\ task[n].todo = {}
  /\ \E place \in Places(Reported(n)) :
       \E rows \in Young(Save(store[n], Reported(n), place), Reported(n)) :
         store' = [store EXCEPT ![n] = Trim(rows)]
  /\ Phase(n, "loop", {})
  /\ UNCHANGED <<links, leaving, pex, answering, heard, limiter, deaf>>

-----------------------------------------------------------------------------
(* Peer exchange *)

PexBegin(n) ==
  /\ n \in Rounds /\ At(n, "loop") /\ Reported(n) # {}
  /\ \E targets \in SUBSET Reported(n) :
       /\ Cardinality(targets) = Smaller(PerRound, Cardinality(Reported(n)))
       /\ task' = [task EXCEPT ![n] = [Idle("pex") EXCEPT !.todo = targets,
                                                          !.known = Reported(n) \cup {n}]]
  /\ UNCHANGED <<links, store, leaving, pex, answering, heard, limiter, deaf>>

\* What the handler of m answers n with.
Answers(n, m) ==
  IF ~answering[m] THEN {{}}
  ELSE IF n \in heard[m] THEN {}
  ELSE {S \in SUBSET Reported(m) : Cardinality(S) = Smaller(PexMax, Cardinality(Reported(m)))}

\* process_response
NewPeers(n, m, peers) == peers \ (task[n].known \cup {n, m})

\* m answers in time: what is new goes to the store (nothing connects to it).
PexExchange(n, m) ==
  /\ At(n, "pex") /\ Pick(n, m) /\ Linked(n, m)
  /\ \E peers \in Answers(n, m) :
       LET found == NewPeers(n, m, peers) IN
         /\ \E place \in Places(found) : store' = [store EXCEPT ![n] = Save(@, found, place)]
         /\ task' = [task EXCEPT ![n].todo = @ \ {m}, ![n].known = @ \cup found]
  /\ heard' = IF answering[m] THEN [heard EXCEPT ![m] = @ \cup {n}] ELSE heard
  /\ UNCHANGED <<links, leaving, pex, answering, limiter, deaf>>

\* No stream, no answer within five seconds, or none because n asks too often.
PexFails(n) ==
  /\ At(n, "pex")
  /\ \E m \in task[n].todo :
       /\ Tried(n, m)
       /\ \/ UNCHANGED heard
          \/ /\ Linked(n, m) /\ answering[m]
             /\ heard' = [heard EXCEPT ![m] = @ \cup {n}]
  /\ UNCHANGED <<links, store, leaving, pex, answering, limiter, deaf>>

PexDone(n) ==
  /\ At(n, "pex") /\ task[n].todo = {}
  /\ Phase(n, "loop", {})
  /\ UNCHANGED <<links, store, leaving, pex, answering, heard, limiter, deaf>>

MinutePasses(n) ==
  /\ heard[n] # {}
  /\ heard' = [heard EXCEPT ![n] = {}]
  /\ UNCHANGED <<links, task, store, leaving, pex, answering, limiter, deaf>>

-----------------------------------------------------------------------------
(* _connect_mdns_peers: discovered_peers may hold any node of the LAN that  *)
(* was heard in the last two minutes.                                       *)
UncountedOnly(n, heardOf) == heardOf \ (Reported(n) \cup limiter[n])  \* fault: once is enough
Unconnected(n, heardOf) == heardOf \ Reported(n)
MdnsBegin(n) ==
  /\ n \in Rounds /\ At(n, "loop") /\ n \in Lan
  /\ \E heardOf \in SUBSET (Lan \ {n}) :
       /\ Unconnected(n, heardOf) # {}
       /\ Phase(n, "mdns", Unconnected(n, heardOf))
  /\ UNCHANGED <<links, store, leaving, pex, answering, heard, limiter, deaf>>

Full(n) == Cardinality(limiter[n]) >= MaxPerSubnet

MdnsConnect(n, p) ==
  /\ At(n, "mdns") /\ Pick(n, p) /\ ~Full(n)
  /\ Connect(n, p)
  /\ limiter' = [limiter EXCEPT ![n] = @ \cup {p}]
  /\ Tried(n, p)
  /\ UNCHANGED <<store, leaving, pex, answering, heard, deaf>>

\* The limit is reached, or the connection fails.
MdnsSkip(n) ==
  /\ At(n, "mdns")
  /\ \E p \in task[n].todo : Tried(n, p)
  /\ UNCHANGED <<links, store, leaving, pex, answering, heard, limiter, deaf>>

\* This connect has no time limit of its own: the task may wait in it until the
\* process ends.
MdnsHangs(n) ==
  /\ At(n, "mdns") /\ task[n].todo # {} /\ ~Full(n)
  /\ Phase(n, "hung", {})
  /\ UNCHANGED <<links, store, leaving, pex, answering, heard, limiter, deaf>>

MdnsDone(n) ==
  /\ At(n, "mdns") /\ task[n].todo = {}
  /\ Phase(n, "loop", {})
  /\ UNCHANGED <<links, store, leaving, pex, answering, heard, limiter, deaf>>

\* An announcement whose payload is no dictionary raises in the listening thread,
\* which nothing starts again.
Deafen(n) ==
  /\ n \in Rounds \cap Lan /\ Running(n) /\ task[n].pc \notin {"boot", "cached"}
  /\ ~deaf[n]
  /\ deaf' = [deaf EXCEPT ![n] = TRUE]
  /\ UNCHANGED <<links, task, store, leaving, pex, answering, heard, limiter>>

-----------------------------------------------------------------------------
Unlinked(n) == {l \in links : n \notin l}

\* stop(): the task ends with its turn and saves the connected peers then.
StopNode(n) ==
  /\ n \in Rounds /\ Running(n) /\ ~leaving[n]
  /\ leaving' = [leaving EXCEPT ![n] = TRUE]
  /\ UNCHANGED <<links, task, store, pex, answering, heard, limiter, deaf>>

TaskEnds(n) ==
  /\ At(n, "loop") /\ (n \in Rounds => leaving[n])
  /\ LET peers == IF n \in Rounds THEN Reported(n) ELSE {} IN
       \E place \in Places(peers) : store' = [store EXCEPT ![n] = Save(@, peers, place)]
  /\ links' = Unlinked(n)
  /\ leaving' = [leaving EXCEPT ![n] = FALSE] /\ deaf' = [deaf EXCEPT ![n] = FALSE]
  /\ IF n \in Reused
     THEN Phase(n, "stopped", {}) /\ UNCHANGED <<pex, answering, heard, limiter, deaf>>
     ELSE /\ Phase(n, "down", {})
          /\ pex' = [pex EXCEPT ![n] = FALSE]
          /\ answering' = [answering EXCEPT ![n] = FALSE]
          /\ heard' = [heard EXCEPT ![n] = {}]
          /\ limiter' = [limiter EXCEPT ![n] = {}]

\* The process is killed; only the peer store stays.
Kill(n) ==
  /\ Running(n)
  /\ links' = Unlinked(n)
  /\ Phase(n, "down", {})
  /\ leaving' = [leaving EXCEPT ![n] = FALSE] /\ deaf' = [deaf EXCEPT ![n] = FALSE]
  /\ pex' = [pex EXCEPT ![n] = FALSE]
  /\ answering' = [answering EXCEPT ![n] = FALSE]
  /\ heard' = [heard EXCEPT ![n] = {}]
  /\ limiter' = [limiter EXCEPT ![n] = {}]
  /\ UNCHANGED store

\* The DHT opens connections of its own, and nodes outside the model do.
Reach ==
  /\ \E n, m \in Nodes : n # m /\ Running(n) /\ Connect(n, m)
  /\ UNCHANGED <<task, store, leaving, pex, answering, heard, limiter, deaf>>

Disconnect ==
  /\ \E l \in links : links' = links \ {l}
  /\ UNCHANGED <<task, store, leaving, pex, answering, heard, limiter, deaf>>

TaskStep(n) ==
  \/ \E p \in Nodes : BootConnect(n, p) \/ CachedConnect(n, p) \/ CachedFails(n, p)
  \/ BootFails(n) \/ BootDone(n) \/ CachedDone(n)
  \/ RefreshBegin(n) \/ RefreshDone(n)
  \/ PexBegin(n) \/ PexFails(n) \/ PexDone(n) \/ \E m \in Nodes : PexExchange(n, m)
  \/ MdnsBegin(n) \/ MdnsSkip(n) \/ MdnsHangs(n) \/ MdnsDone(n) \/ \E p \in Nodes : MdnsConnect(n, p)

Next ==
  \/ \E n \in Nodes :
       \/ TaskStep(n) \/ StartNode(n) \/ StopNode(n) \/ TaskEnds(n) \/ Kill(n)
       \/ MinutePasses(n) \/ Deafen(n)
  \/ Reach \/ Disconnect

Spec == Init /\ [][Next]_vars

\* The timers of the rounds go off; of the connections tried again and again to
\* a node that is up some succeed; a node of the LAN that is up is heard while the
\* listening thread lives.  Nothing is assumed of starts, nor that a connect on the
\* LAN ends.
FairSpec ==
  /\ Spec
  /\ \A n \in Rounds :
       /\ WF_vars(TaskStep(n)) /\ SF_vars(RefreshBegin(n))
       /\ \A p \in Boot[n] \ {n} : SF_vars(BootConnect(n, p))
       /\ \A p \in Lan \ {n} :
            /\ SF_vars(MdnsBegin(n) /\ ~deaf[n] /\ p \in task'[n].todo)
            /\ SF_vars(MdnsConnect(n, p))

-----------------------------------------------------------------------------
TypeOK ==
  /\ links \subseteq {l \in SUBSET Nodes : Cardinality(l) = 2 /\ \A n \in l : Running(n)}
  /\ task \in [Nodes -> Task]
  /\ store \in [Nodes -> SUBSET Row]
  /\ leaving \in [Nodes -> BOOLEAN] /\ pex \in [Nodes -> BOOLEAN] /\ answering \in [Nodes -> BOOLEAN]
  /\ deaf \in [Nodes -> BOOLEAN]
  /\ heard \in [Nodes -> SUBSET Nodes] /\ limiter \in [Nodes -> SUBSET Lan]

\* A refresh saves the connected peers before it prunes: above the limit, no
\* connected peer gives way to one that is not connected (_run_main_loop,
\* PeerStore.prune).
ConnectedKept ==
  [][\A n \in Nodes :
       At(n, "refresh") /\ task'[n].pc = "loop" /\ ~leaving[n] =>
         \/ Connected(n) \subseteq Stored(store'[n])
         \/ Stored(store'[n]) \subseteq Connected(n) /\ Cardinality(store'[n]) = MaxPeers]_vars

\* A node that goes on running is connected again and again to a bootstrap node
\* that goes on running, whatever connections break and whatever else the task
\* does in between, unless a connect on the LAN never ends (_refresh_routing_table,
\* _connect_mdns_peers).
Rejoins ==
  \A n \in Rounds, p \in Nodes :
    p \in Boot[n] \ {n} =>
      (<>[](Running(n) /\ Running(p)) => []<>Linked(n, p) \/ <>[]At(n, "hung"))

\* Two nodes of a LAN that go on running are connected again and again, however
\* often the connection breaks, as long as the limiter of the one has room, its
\* listening thread lives and none of its connects hangs.  The limiter does not
\* empty: peers that have left, and even the other one itself, go on counting
\* (_connect_mdns_peers).
LanMeets ==
  \A n \in Rounds \cap Lan : \A p \in Lan \ {n} :
    <>[](Running(n) /\ Running(p)) =>
      []<>Linked(n, p) \/ <>[](Full(n) \/ deaf[n] \/ At(n, "hung"))
=============================================================================
