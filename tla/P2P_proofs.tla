----------------------------- MODULE P2P_proofs -----------------------------
(***************************************************************************)
(* What holds of a node among its peers, for every set of nodes and every  *)
(* limit.  PeerNetwork: the types of the state, and that a refresh forgets *)
(* no connected peer for one that is not connected.  QueryRouting: the     *)
(* types and the deadlines, and how many peers a search asks.              *)
(***************************************************************************)
EXTENDS PeerNetwork, QueryRouting, FiniteSetTheorems, TLAPS

(* Two rows of a store are about two peers and were seen at two times.     *)
Rows(rows) ==
  /\ rows \subseteq Row
  /\ \A r, o \in rows : r.peer = o.peer => r = o

Peered ==
  {l \in SUBSET Nodes : Cardinality(l) = 2 /\ \A n \in l : Running(n)}

(* What the task of n has still to try: it never tries itself, the peers it *)
(* remembers have not used up their standing, and on the LAN it tries its   *)
(* neighbours.                                                              *)
Sensible(n) ==
  /\ n \notin task[n].todo
  /\ At(n, "cached") =>
       \A p \in task[n].todo : \E r \in store[n] : r.peer = p /\ r.standing > 0
  /\ At(n, "mdns") => task[n].todo \subseteq Lan

IInv ==
  /\ TypeOK
  /\ \A n \in Nodes : Rows(store[n]) /\ Sensible(n)

-----------------------------------------------------------------------------
(* The operations of the store.                                            *)

\* Every peer has a standing, the one of its row when it has one.
LEMMA StandingIs ==
  ASSUME NEW rows, Rows(rows), NEW p
  PROVE  /\ Standing(rows, p) \in 0 .. MaxStanding
         /\ \A r \in rows : r.peer = p => Standing(rows, p) = r.standing
<1>0. MaxStanding \in Nat \ {0} /\ 0 \in 0 .. MaxStanding
  BY NetworkAssumption
<1>1. CASE p \in Stored(rows)
  <2>1. PICK o \in rows : o.peer = p
    BY <1>1 DEF Stored
  <2> DEFINE row == CHOOSE r \in rows : r.peer = p
  <2>2. row \in rows /\ row.peer = p
    BY <2>1
  <2>3. Standing(rows, p) = row.standing
    BY <1>1 DEF Standing
  <2> HIDE DEF row
  <2>4. row.standing \in 0 .. MaxStanding /\ \A r \in rows : r.peer = p => r = row
    BY <2>2 DEF Rows, Row
  <2> QED BY <2>3, <2>4
<1>2. CASE p \notin Stored(rows)
  BY <1>0, <1>2 DEF Standing, Stored
<1> QED BY <1>1, <1>2

\* The rows made with a save: those of the peers saved, with more standing, and
\* the others, which are seen before them.
LEMMA SaveRows ==
  ASSUME NEW rows, Rows(rows), IsFiniteSet(rows), NEW peers \in SUBSET Nodes, IsFiniteSet(peers),
         NEW place \in [peers -> Nat]
  PROVE  /\ Rows(Save(rows, peers, place))
         /\ \A p \in peers : /\ Saved(rows, p, place[p]) \in Save(rows, peers, place)
                             /\ Saved(rows, p, place[p]).peer = p
                             /\ Saved(rows, p, place[p]).age = place[p]
         /\ \A r \in Save(rows, peers, place) :
              /\ r.peer \in peers => r = Saved(rows, r.peer, place[r.peer])
              /\ r.peer \notin peers => r.age >= Cardinality(peers)
         /\ \A r \in rows : \E o \in Save(rows, peers, place) :
              o.peer = r.peer /\ (r.standing > 0 => o.standing > 0)
<1> DEFINE others == {r \in rows : r.peer \notin peers}
           Shifted(r) == [r EXCEPT !.age = Cardinality(peers) + Cardinality(Newer(others, r))]
<1>0. /\ Cardinality(peers) \in Nat
      /\ \A r \in others : Cardinality(Newer(others, r)) \in Nat
  <2>1. ASSUME NEW r PROVE Newer(others, r) \in SUBSET rows
    BY DEF Newer
  <2> QED BY <2>1, FS_Subset, FS_CardinalityType
<1>1. ASSUME NEW p \in peers
      PROVE  /\ Saved(rows, p, place[p]) \in Row
             /\ Saved(rows, p, place[p]).peer = p /\ Saved(rows, p, place[p]).age = place[p]
             /\ Saved(rows, p, place[p]).standing > 0
  <2>1. Smaller(MaxStanding, Weight + Standing(rows, p)) \in 1 .. MaxStanding
    BY StandingIs, NetworkAssumption DEF Smaller
  <2> QED BY <2>1 DEF Saved, Row
<1>2. ASSUME NEW r \in others
      PROVE  /\ Shifted(r) \in Row /\ Shifted(r).peer = r.peer /\ Shifted(r).standing = r.standing
             /\ Shifted(r).age >= Cardinality(peers)
  <2>1. r \in Row /\ Cardinality(peers) + Cardinality(Newer(others, r)) \in Nat
           /\ Cardinality(peers) + Cardinality(Newer(others, r)) >= Cardinality(peers)
    BY <1>0, <1>2 DEF Rows
  <2> HIDE DEF others
  <2> QED BY <2>1 DEF Row
<1>3. Save(rows, peers, place)
        = {Saved(rows, p, place[p]) : p \in peers} \cup {Shifted(r) : r \in others}
  BY DEF Save
<1>4. \A r, o \in others : r.peer = o.peer => r = o
  BY DEF Rows
<1>5. \A r \in others : r.peer \notin peers
  OBVIOUS
<1>6. \A r \in rows : r.peer \in peers \/ r \in others
  OBVIOUS
<1> HIDE DEF others, Shifted
<1>7. Rows(Save(rows, peers, place))
  BY <1>1, <1>2, <1>3, <1>4, <1>5 DEF Rows
<1>8. \A r \in Save(rows, peers, place) :
        /\ r.peer \in peers => r = Saved(rows, r.peer, place[r.peer])
        /\ r.peer \notin peers => r.age >= Cardinality(peers)
  BY <1>1, <1>2, <1>3, <1>5
<1>9. \A r \in rows : \E o \in Save(rows, peers, place) :
        o.peer = r.peer /\ (r.standing > 0 => o.standing > 0)
  <2> TAKE r \in rows
  <2>1. CASE r.peer \in peers
    BY <1>1, <1>3, <2>1
  <2>2. CASE r \in others
    BY <1>2, <1>3, <2>2
  <2> QED BY <1>6, <2>1, <2>2
<1> QED BY <1>1, <1>3, <1>7, <1>8, <1>9

\* A failure costs one of the standing.
LEMMA FailedRows ==
  ASSUME NEW rows, Rows(rows), NEW p, \E r \in rows : r.peer = p /\ r.standing > 0
  PROVE  /\ Rows(Failed(rows, p))
         /\ \A r \in rows : r.peer # p => r \in Failed(rows, p)
<1> DEFINE Worse(r) == IF r.peer = p THEN [r EXCEPT !.standing = @ - 1] ELSE r
<1>1. \A r \in rows : r.peer = p => r.standing > 0
  BY DEF Rows
<1>2. ASSUME NEW r \in rows
      PROVE  Worse(r) \in Row /\ Worse(r).peer = r.peer
  <2>1. r \in Row /\ (r.peer = p => r.standing - 1 \in 0 .. MaxStanding)
    BY <1>1, NetworkAssumption DEF Rows, Row
  <2> QED BY <2>1 DEF Row
<1>3. Failed(rows, p) = {Worse(r) : r \in rows} /\ \A r \in rows : r.peer # p => Worse(r) = r
  BY DEF Failed
<1> HIDE DEF Worse
<1> QED BY <1>2, <1>3 DEF Rows

-----------------------------------------------------------------------------
(* The nodes.                                                              *)

\* What the fields of a task are.
LEMMA TaskFields ==
  ASSUME NEW n \in Nodes, task \in [Nodes -> Task]
  PROVE  /\ task[n].pc \in Phases /\ task[n].todo \subseteq Nodes
         /\ task[n].reached \in BOOLEAN /\ task[n].known \subseteq Nodes
BY DEF Task

\* A task that begins a phase.
LEMMA PhaseIs ==
  ASSUME NEW n \in Nodes, task \in [Nodes -> Task], NEW pc \in Phases, NEW todo \in SUBSET Nodes,
         Phase(n, pc, todo)
  PROVE  /\ task' \in [Nodes -> Task]
         /\ task'[n].pc = pc /\ task'[n].todo = todo
         /\ \A m \in Nodes \ {n} : task'[m] = task[m]
<1>1. Idle(pc) \in Task /\ Idle(pc).pc = pc
  BY DEF Idle, Task
<1>2. /\ [Idle(pc) EXCEPT !.todo = todo] \in Task
      /\ [Idle(pc) EXCEPT !.todo = todo].pc = pc
      /\ [Idle(pc) EXCEPT !.todo = todo].todo = todo
  BY <1>1 DEF Task
<1> QED BY <1>2 DEF Phase

\* A task that has tried a peer.
LEMMA TriedIs ==
  ASSUME NEW n \in Nodes, task \in [Nodes -> Task], NEW p, Tried(n, p)
  PROVE  /\ task' \in [Nodes -> Task]
         /\ task'[n].pc = task[n].pc /\ task'[n].todo = task[n].todo \ {p}
         /\ \A m \in Nodes \ {n} : task'[m] = task[m]
BY DEF Tried, Task

\* A connection joins two nodes that run.
LEMMA ConnectLinks ==
  ASSUME NEW n \in Nodes, NEW p \in Nodes, n # p, links \subseteq Peered, Running(n),
         Connect(n, p), \A m \in Nodes : Running(m) => Running(m)'
  PROVE  links' \subseteq Peered'
<1>1. Cardinality({n, p}) = 2
  <2>1. {n, p} = {n} \cup {p} /\ p \notin {n}
    OBVIOUS
  <2>2. IsFiniteSet({n}) /\ Cardinality({n}) = 1
    BY FS_Singleton
  <2>3. Cardinality({n} \cup {p}) = 2
    BY <2>1, <2>2, FS_AddElement
  <2> QED BY <2>1, <2>3
<1>2. {n, p} \in Peered'
  BY <1>1 DEF Connect, Peered
<1>3. Peered \subseteq Peered'
  BY DEF Peered
<1> QED BY <1>2, <1>3 DEF Connect

\* Links whose nodes go on running stay what they are.
LEMMA LinksStay ==
  ASSUME links \subseteq Peered, links' \subseteq links, \A m \in Nodes : Running(m) => Running(m)'
  PROVE  links' \subseteq Peered'
BY DEF Peered

\* A node that has ended has no links.
LEMMA UnlinkedStay ==
  ASSUME NEW n \in Nodes, links \subseteq Peered, links' = Unlinked(n),
         \A m \in Nodes \ {n} : Running(m) => Running(m)'
  PROVE  links' \subseteq Peered'
BY DEF Peered, Unlinked

\* What a node reports are other nodes.
LEMMA ReportedAreOthers ==
  ASSUME NEW n \in Nodes
  PROVE  Reported(n) \subseteq Nodes \ {n} /\ IsFiniteSet(Reported(n))
<1>1. Reported(n) \in SUBSET Nodes /\ Reported(n) \subseteq Nodes \ {n}
  BY DEF Reported, Connected
<1> QED BY <1>1, FS_Subset, NetworkAssumption

\* A store has finitely many rows.
LEMMA RowsFinite ==
  ASSUME NEW rows, Rows(rows)
  PROVE  IsFiniteSet(rows)
<1> DEFINE peer == [r \in rows |-> r.peer]
<1>1. peer \in [rows -> Nodes] /\ \A r, o \in rows : peer[r] = peer[o] => r = o
  BY DEF Rows, Row
<1>2. peer \in Injection(rows, Nodes)
  <2> HIDE DEF peer
  <2> QED BY <1>1 DEF Injection, IsInjective
<1> QED BY <1>2, FS_Injection, NetworkAssumption

\* A place is a number.
LEMMA PlacesAre ==
  ASSUME NEW peers, IsFiniteSet(peers), NEW place \in Places(peers)
  PROVE  place \in [peers -> Nat]
<1>1. place \in [peers -> 0 .. Cardinality(peers) - 1]
  BY DEF Places, Bijection, Injection
<1>2. Cardinality(peers) \in Nat
  BY FS_CardinalityType
<1> QED BY <1>1, <1>2

\* To save one peer is to save a set of one.
LEMMA UpsertRows ==
  ASSUME NEW rows, Rows(rows), NEW p \in Nodes
  PROVE  /\ Rows(Upsert(rows, p))
         /\ \A r \in rows : \E o \in Upsert(rows, p) :
              o.peer = r.peer /\ (r.standing > 0 => o.standing > 0)
<1>1. {p} \in SUBSET Nodes /\ IsFiniteSet({p}) /\ [q \in {p} |-> 0] \in [{p} -> Nat]
  BY FS_Singleton
<1> QED BY <1>1, RowsFinite, SaveRows DEF Upsert

-----------------------------------------------------------------------------
(* The invariant, action by action.                                        *)

\* What one node's step has to show: the links join nodes that run, and what
\* the step changes of the node is as it should be.
LEMMA NodeStepKeeps ==
  ASSUME IInv, NEW n \in Nodes,
         links' \subseteq Peered',
         task' \in [Nodes -> Task], \A m \in Nodes \ {n} : task'[m] = task[m],
         store' = store \/ \E rows : store' = [store EXCEPT ![n] = rows] /\ Rows(rows),
         leaving' \in [Nodes -> BOOLEAN], pex' \in [Nodes -> BOOLEAN],
         answering' \in [Nodes -> BOOLEAN], deaf' \in [Nodes -> BOOLEAN],
         heard' \in [Nodes -> SUBSET Nodes], limiter' \in [Nodes -> SUBSET Lan],
         Sensible(n)'
  PROVE  IInv'
<1>1. store \in [Nodes -> SUBSET Row] /\ \A m \in Nodes : Rows(store[m]) /\ Sensible(m)
  BY DEF IInv, TypeOK
<1>2. /\ store' \in [Nodes -> SUBSET Row]
      /\ \A m \in Nodes \ {n} : store'[m] = store[m]
      /\ \A m \in Nodes : Rows(store'[m])
  BY <1>1 DEF Rows
<1>3. ASSUME NEW m \in Nodes PROVE Sensible(m)'
  BY <1>1, <1>2 DEF Sensible, At
<1>4. TypeOK'
  BY <1>2 DEF TypeOK, Peered
<1> QED BY <1>2, <1>3, <1>4 DEF IInv

LEMMA StartKeeps == ASSUME IInv, NEW n \in Nodes, StartNode(n) PROVE IInv'
<1>0. /\ task \in [Nodes -> Task] /\ links \subseteq Peered /\ "boot" \in Phases /\ "loop" \in Phases
      /\ Boot[n] \ {n} \in SUBSET Nodes
  BY NetworkAssumption DEF IInv, TypeOK, Peered, Phases
<1>1. \/ Phase(n, "boot", Boot[n] \ {n})
      \/ Phase(n, "loop", {})
  BY DEF StartNode
<1>2. /\ task' \in [Nodes -> Task] /\ \A m \in Nodes \ {n} : task'[m] = task[m]
      /\ task'[n].pc \in {"boot", "loop"} /\ n \notin task'[n].todo
  BY <1>0, <1>1, PhaseIs
<1>3. links' \subseteq Peered'
  BY <1>0, <1>2, LinksStay DEF StartNode, Running, At
<1>4. Sensible(n)'
  BY <1>2 DEF Sensible, At
<1> QED BY <1>2, <1>3, <1>4, NodeStepKeeps DEF StartNode, IInv, TypeOK

\* The steps of a task that begins its next phase and leaves the rest.
LEMMA PhaseKeeps ==
  ASSUME IInv, NEW n \in Nodes, Running(n), NEW pc \in Phases \ {"down", "stopped"},
         NEW todo \in SUBSET Nodes, n \notin todo,
         task' \in [Nodes -> Task], \A m \in Nodes \ {n} : task'[m] = task[m],
         task'[n].pc = pc, task'[n].todo = todo,
         pc = "cached" => todo \subseteq Stored(Eligible(store[n])),
         pc = "mdns" => todo \subseteq Lan,
         store' = store \/ \E rows : store' = [store EXCEPT ![n] = rows] /\ Rows(rows),
         pc = "cached" => store' = store,
         heard' \in [Nodes -> SUBSET Nodes],
         UNCHANGED <<links, leaving, pex, answering, limiter, deaf>>
  PROVE  IInv'
<1>1. links' \subseteq Peered'
  BY LinksStay DEF Running, At, IInv, TypeOK, Peered
<1>2. Sensible(n)'
  BY DEF Sensible, At, Stored, Eligible
<1> QED BY <1>1, <1>2, NodeStepKeeps DEF IInv, TypeOK

\* The steps of a task that has tried a peer without a change to its store.
LEMMA TriedKeeps ==
  ASSUME IInv, NEW n \in Nodes, Running(n), At(n, "cached") => store' = store,
         task' \in [Nodes -> Task], \A m \in Nodes \ {n} : task'[m] = task[m],
         task'[n].pc = task[n].pc, task'[n].todo \subseteq task[n].todo,
         links' = links \/ \E p \in task[n].todo : Connect(n, p),
         store' = store \/ \E rows : store' = [store EXCEPT ![n] = rows] /\ Rows(rows),
         heard' \in [Nodes -> SUBSET Nodes], limiter' \in [Nodes -> SUBSET Lan],
         UNCHANGED <<leaving, pex, answering, deaf>>
  PROVE  IInv'
<1>0. /\ task \in [Nodes -> Task] /\ Sensible(n) /\ links \subseteq Peered
      /\ \A m \in Nodes : Running(m) => Running(m)'
  BY DEF IInv, TypeOK, Peered, Running, At
<1>1. links' \subseteq Peered'
  <2>1. CASE links' = links
    BY <1>0, <2>1, LinksStay
  <2>2. ASSUME NEW p \in task[n].todo, Connect(n, p) PROVE links' \subseteq Peered'
    BY <1>0, <2>2, TaskFields, ConnectLinks DEF Sensible
  <2> QED BY <2>1, <2>2
<1>2. Sensible(n)'
  BY <1>0 DEF Sensible, At
<1> QED BY <1>1, <1>2, NodeStepKeeps DEF IInv, TypeOK

\* The bootstrap, and the beginnings and ends of the rounds.
LEMMA BootKeeps ==
  ASSUME IInv, NEW n \in Nodes, NEW p \in Nodes,
         BootConnect(n, p) \/ BootFails(n) \/ BootDone(n)
  PROVE  IInv'
<1>0. /\ task \in [Nodes -> Task] /\ heard \in [Nodes -> SUBSET Nodes]
      /\ limiter \in [Nodes -> SUBSET Lan] /\ store \in [Nodes -> SUBSET Row] /\ Rows(store[n])
      /\ "loop" \in Phases \ {"down", "stopped"} /\ "cached" \in Phases \ {"down", "stopped"}
  BY DEF IInv, TypeOK, Phases
<1>1. CASE BootConnect(n, p)
  <2>1. Running(n) /\ ~At(n, "cached") /\ p \in task[n].todo
    BY <1>1 DEF BootConnect, Running, At, Pick
  <2>2. /\ task' \in [Nodes -> Task] /\ \A m \in Nodes \ {n} : task'[m] = task[m]
        /\ task'[n].pc = task[n].pc /\ task'[n].todo \subseteq task[n].todo
    <3> DEFINE tried == [task[n] EXCEPT !.todo = task[n].todo \ {p}, !.reached = TRUE]
    <3>1. task[n] \in Task
      BY <1>0
    <3>2. tried \in Task /\ tried.pc = task[n].pc /\ tried.todo = task[n].todo \ {p}
      BY <3>1 DEF Task
    <3>3. task' = [task EXCEPT ![n] = tried]
      BY <1>0, <1>1 DEF BootConnect
    <3> HIDE DEF tried
    <3> QED BY <1>0, <3>2, <3>3
  <2> QED BY <1>0, <1>1, <2>1, <2>2, TriedKeeps DEF BootConnect
<1>2. CASE BootFails(n)
  <2>1. Running(n) /\ ~At(n, "cached")
    BY <1>2 DEF BootFails, Running, At
  <2>2. PICK q \in task[n].todo : Tried(n, q)
    BY <1>2 DEF BootFails
  <2> QED BY <1>0, <1>2, <2>1, <2>2, TriedIs, TriedKeeps DEF BootFails
<1>3. CASE BootDone(n)
  <2>0. Running(n)
    BY <1>3 DEF BootDone, Running, At
  <2>1. CASE Phase(n, "loop", {})
    BY <1>0, <1>3, <2>0, <2>1, PhaseIs, PhaseKeeps DEF BootDone
  <2>2. CASE Phase(n, "cached", Stored(LoadRecent(store[n])) \ {n})
    <3>1. LoadRecent(store[n]) \subseteq Eligible(store[n])
      BY DEF LoadRecent, Newest
    <3>2. Stored(LoadRecent(store[n])) \ {n} \in SUBSET Nodes
      BY <1>0, <3>1 DEF Stored, Eligible, Rows, Row
    <3>3. Stored(LoadRecent(store[n])) \ {n} \subseteq Stored(Eligible(store[n]))
      BY <3>1 DEF Stored
    <3> QED BY <1>0, <1>3, <2>0, <2>2, <3>2, <3>3, PhaseIs, PhaseKeeps DEF BootDone
  <2> QED BY <1>3, <2>1, <2>2 DEF BootDone
<1> QED BY <1>1, <1>2, <1>3

\* The cached peers: one that fails had standing left, and the others keep theirs.
LEMMA CachedKeeps ==
  ASSUME IInv, NEW n \in Nodes, NEW p \in Nodes,
         CachedConnect(n, p) \/ CachedFails(n, p) \/ CachedDone(n)
  PROVE  IInv'
<1>0. /\ task \in [Nodes -> Task] /\ heard \in [Nodes -> SUBSET Nodes]
      /\ store \in [Nodes -> SUBSET Row] /\ Rows(store[n]) /\ Sensible(n) /\ links \subseteq Peered
      /\ "loop" \in Phases \ {"down", "stopped"}
  BY DEF IInv, TypeOK, Phases, Peered
<1>1. Running(n) /\ At(n, "cached")
  BY DEF CachedConnect, CachedFails, CachedDone, Running, At
<1>2. ASSUME Tried(n, p), p \in task[n].todo, NEW rows, store' = [store EXCEPT ![n] = rows],
             Rows(rows), links' = links \/ Connect(n, p),
             \A r \in store[n] : r.peer # p => \E o \in rows :
               o.peer = r.peer /\ (r.standing > 0 => o.standing > 0),
             UNCHANGED <<leaving, pex, answering, heard, limiter, deaf>>
      PROVE  IInv'
  <2>1. /\ task' \in [Nodes -> Task] /\ \A m \in Nodes \ {n} : task'[m] = task[m]
        /\ task'[n].pc = "cached" /\ task'[n].todo = task[n].todo \ {p}
    BY <1>0, <1>1, <1>2, TriedIs DEF At
  <2>2. \A m \in Nodes : Running(m) => Running(m)'
    BY <1>1, <2>1 DEF Running, At
  <2>3. links' \subseteq Peered'
    BY <1>0, <1>1, <1>2, <2>2, LinksStay, ConnectLinks DEF Sensible
  <2>4. store'[n] = rows
    BY <1>0, <1>2
  <2>5. Sensible(n)'
    BY <1>0, <1>1, <1>2, <2>1, <2>4 DEF Sensible, At
  <2> QED BY <1>2, <2>1, <2>3, <2>5, NodeStepKeeps DEF IInv, TypeOK
<1>3. CASE CachedConnect(n, p)
  <2>1. p \in task[n].todo
    BY <1>3 DEF CachedConnect, Freshest, Pick
  <2>2. store' = [store EXCEPT ![n] = Upsert(store[n], p)]
    BY <1>3 DEF CachedConnect
  <2>3. /\ Tried(n, p) /\ Connect(n, p)
        /\ UNCHANGED <<leaving, pex, answering, heard, limiter, deaf>>
    BY <1>3 DEF CachedConnect
  <2>4. /\ Rows(Upsert(store[n], p))
        /\ \A r \in store[n] : \E o \in Upsert(store[n], p) :
             o.peer = r.peer /\ (r.standing > 0 => o.standing > 0)
    BY <1>0, UpsertRows
  <2> QED BY <1>2, <2>1, <2>2, <2>3, <2>4
<1>4. CASE CachedFails(n, p)
  <2>1. p \in task[n].todo
    BY <1>4 DEF CachedFails, Freshest, Pick
  <2>2. \E r \in store[n] : r.peer = p /\ r.standing > 0
    BY <1>0, <1>1, <2>1 DEF Sensible
  <2>3. store' = [store EXCEPT ![n] = Failed(store[n], p)]
    BY <1>4 DEF CachedFails
  <2>4. /\ Tried(n, p) /\ links' = links
        /\ UNCHANGED <<leaving, pex, answering, heard, limiter, deaf>>
    BY <1>4 DEF CachedFails
  <2>5. /\ Rows(Failed(store[n], p))
        /\ \A r \in store[n] : r.peer # p => r \in Failed(store[n], p)
    BY <1>0, <2>2, FailedRows
  <2> QED BY <1>2, <2>1, <2>3, <2>4, <2>5
<1>5. CASE CachedDone(n)
  BY <1>0, <1>1, <1>5, PhaseIs, PhaseKeeps DEF CachedDone
<1> QED BY <1>3, <1>4, <1>5

\* A refresh saves, forgets and trims.
LEMMA RefreshKeeps ==
  ASSUME IInv, NEW n \in Nodes, RefreshBegin(n) \/ RefreshDone(n)
  PROVE  IInv'
<1>0. /\ task \in [Nodes -> Task] /\ heard \in [Nodes -> SUBSET Nodes]
      /\ store \in [Nodes -> SUBSET Row] /\ Rows(store[n])
      /\ "loop" \in Phases \ {"down", "stopped"} /\ "refresh" \in Phases \ {"down", "stopped"}
      /\ Boot[n] \ {n} \in SUBSET Nodes
  BY NetworkAssumption DEF IInv, TypeOK, Phases
<1>1. Running(n)
  BY DEF RefreshBegin, RefreshDone, Running, At
<1>2. CASE RefreshBegin(n)
  BY <1>0, <1>1, <1>2, PhaseIs, PhaseKeeps DEF RefreshBegin, RefreshTargets
<1>3. CASE RefreshDone(n)
  <2>1. PICK place \in Places(Reported(n)) :
          \E rows \in Young(Save(store[n], Reported(n), place), Reported(n)) :
            store' = [store EXCEPT ![n] = Trim(rows)]
    BY <1>3 DEF RefreshDone
  <2>2. PICK rows \in Young(Save(store[n], Reported(n), place), Reported(n)) :
            store' = [store EXCEPT ![n] = Trim(rows)]
    BY <2>1
  <2>3. Reported(n) \in SUBSET Nodes /\ place \in [Reported(n) -> Nat]
    BY ReportedAreOthers, PlacesAre
  <2>4. Rows(Save(store[n], Reported(n), place))
    BY <1>0, <2>3, ReportedAreOthers, RowsFinite, SaveRows
  <2>5. Trim(rows) \subseteq Save(store[n], Reported(n), place)
    BY DEF Trim, Newest, Young
  <2>6. Rows(Trim(rows))
    BY <2>4, <2>5 DEF Rows
  <2>7. Phase(n, "loop", {})
    BY <1>3 DEF RefreshDone
  <2>8. UNCHANGED <<links, leaving, pex, answering, heard, limiter, deaf>>
    BY <1>3 DEF RefreshDone
  <2>9. \E saved : store' = [store EXCEPT ![n] = saved] /\ Rows(saved)
    BY <2>2, <2>6
  <2>10. /\ task' \in [Nodes -> Task] /\ \A m \in Nodes \ {n} : task'[m] = task[m]
         /\ task'[n].pc = "loop" /\ task'[n].todo = {}
    BY <1>0, <2>7, PhaseIs
  <2> QED BY <1>0, <1>1, <2>8, <2>9, <2>10, PhaseKeeps
<1> QED BY <1>2, <1>3

\* What another node answers with are nodes.
LEMMA AnswersAreNodes ==
  ASSUME NEW n, NEW m \in Nodes, NEW peers \in Answers(n, m)
  PROVE  NewPeers(n, m, peers) \in SUBSET Nodes /\ IsFiniteSet(NewPeers(n, m, peers))
<1>1. peers \in SUBSET Nodes
  BY ReportedAreOthers DEF Answers
<1> QED BY <1>1, FS_Subset, NetworkAssumption DEF NewPeers

\* Peer exchange: what is new is saved.
LEMMA PexKeeps ==
  ASSUME IInv, NEW n \in Nodes, NEW m \in Nodes,
         PexBegin(n) \/ PexExchange(n, m) \/ PexFails(n) \/ PexDone(n)
  PROVE  IInv'
<1>0. /\ task \in [Nodes -> Task] /\ heard \in [Nodes -> SUBSET Nodes]
      /\ limiter \in [Nodes -> SUBSET Lan] /\ store \in [Nodes -> SUBSET Row] /\ Rows(store[n])
      /\ "loop" \in Phases \ {"down", "stopped"} /\ "pex" \in Phases \ {"down", "stopped"}
  BY DEF IInv, TypeOK, Phases
<1>1. Running(n) /\ ~At(n, "cached")
  BY DEF PexBegin, PexExchange, PexFails, PexDone, Running, At
<1>2. CASE PexBegin(n)
  <2>1. PICK targets \in SUBSET Reported(n) :
          task' = [task EXCEPT ![n] = [Idle("pex") EXCEPT !.todo = targets,
                                                          !.known = Reported(n) \cup {n}]]
    BY <1>2 DEF PexBegin
  <2>2. targets \in SUBSET Nodes /\ n \notin targets /\ Reported(n) \cup {n} \in SUBSET Nodes
    BY ReportedAreOthers
  <2> DEFINE begun == [Idle("pex") EXCEPT !.todo = targets, !.known = Reported(n) \cup {n}]
  <2>3. Idle("pex") \in Task /\ Idle("pex").pc = "pex"
    BY DEF Idle, Task, Phases
  <2>4. begun \in Task /\ begun.pc = "pex" /\ begun.todo = targets
    BY <2>2, <2>3 DEF Task
  <2>5. task' = [task EXCEPT ![n] = begun]
    BY <2>1
  <2> HIDE DEF begun
  <2>6. /\ task' \in [Nodes -> Task] /\ \A o \in Nodes \ {n} : task'[o] = task[o]
        /\ task'[n].pc = "pex" /\ task'[n].todo = targets
    BY <1>0, <2>4, <2>5
  <2>7. UNCHANGED <<links, store, leaving, pex, answering, heard, limiter, deaf>>
    BY <1>2 DEF PexBegin
  <2> QED BY <1>0, <1>1, <2>2, <2>6, <2>7, PhaseKeeps
<1>3. CASE PexExchange(n, m)
  <2>1. PICK peers \in Answers(n, m) :
          LET fresh == NewPeers(n, m, peers) IN
          /\ \E place \in Places(fresh) : store' = [store EXCEPT ![n] = Save(@, fresh, place)]
          /\ task' = [task EXCEPT ![n].todo = @ \ {m}, ![n].known = @ \cup fresh]
    BY <1>3 DEF PexExchange
  <2> DEFINE fresh == NewPeers(n, m, peers)
             asked == [task[n] EXCEPT !.todo = task[n].todo \ {m}, !.known = task[n].known \cup fresh]
  <2>2. fresh \in SUBSET Nodes /\ IsFiniteSet(fresh)
    BY AnswersAreNodes
  <2>3. PICK place \in Places(fresh) : store' = [store EXCEPT ![n] = Save(store[n], fresh, place)]
    BY <2>1
  <2>4. task' = [task EXCEPT ![n] = asked]
    BY <1>0, <2>1
  <2> HIDE DEF fresh
  <2>5. asked \in Task /\ asked.pc = task[n].pc /\ asked.todo = task[n].todo \ {m}
    <3>1. task[n] \in Task
      BY <1>0
    <3> QED BY <2>2, <3>1 DEF Task
  <2> HIDE DEF asked
  <2>6. /\ task' \in [Nodes -> Task] /\ \A o \in Nodes \ {n} : task'[o] = task[o]
        /\ task'[n].pc = task[n].pc /\ task'[n].todo \subseteq task[n].todo
    BY <1>0, <2>4, <2>5
  <2>7. Rows(Save(store[n], fresh, place))
    BY <1>0, <2>2, PlacesAre, RowsFinite, SaveRows
  <2>8. heard' \in [Nodes -> SUBSET Nodes]
    BY <1>0, <1>3 DEF PexExchange
  <2>9. UNCHANGED <<links, leaving, pex, answering, limiter, deaf>>
    BY <1>3 DEF PexExchange
  <2>10. \E rows : store' = [store EXCEPT ![n] = rows] /\ Rows(rows)
    BY <2>3, <2>7
  <2> QED BY <1>0, <1>1, <2>6, <2>8, <2>9, <2>10, TriedKeeps
<1>4. CASE PexFails(n)
  <2>1. PICK q \in task[n].todo :
          /\ Tried(n, q)
          /\ UNCHANGED heard \/ heard' = [heard EXCEPT ![q] = @ \cup {n}]
    BY <1>4 DEF PexFails
  <2>2. heard' \in [Nodes -> SUBSET Nodes]
    BY <1>0, <2>1
  <2>3. UNCHANGED <<links, store, leaving, pex, answering, limiter, deaf>>
    BY <1>4 DEF PexFails
  <2> QED BY <1>0, <1>1, <2>1, <2>2, <2>3, TriedIs, TriedKeeps
<1>5. CASE PexDone(n)
  BY <1>0, <1>1, <1>5, PhaseIs, PhaseKeeps DEF PexDone
<1> QED BY <1>2, <1>3, <1>4, <1>5

\* The round on the LAN tries neighbours only.
LEMMA MdnsKeeps ==
  ASSUME IInv, NEW n \in Nodes, NEW p \in Nodes,
         MdnsBegin(n) \/ MdnsConnect(n, p) \/ MdnsSkip(n) \/ MdnsHangs(n) \/ MdnsDone(n)
  PROVE  IInv'
<1>0. /\ task \in [Nodes -> Task] /\ heard \in [Nodes -> SUBSET Nodes]
      /\ limiter \in [Nodes -> SUBSET Lan] /\ Sensible(n)
      /\ "loop" \in Phases \ {"down", "stopped"} /\ "mdns" \in Phases \ {"down", "stopped"}
      /\ "hung" \in Phases \ {"down", "stopped"}
      /\ Lan \in SUBSET Nodes
  BY NetworkAssumption DEF IInv, TypeOK, Phases
<1>1. Running(n)
  BY DEF MdnsBegin, MdnsConnect, MdnsSkip, MdnsHangs, MdnsDone, Running, At
<1>2. CASE MdnsBegin(n)
  <2>1. PICK heardOf \in SUBSET (Lan \ {n}) : Phase(n, "mdns", Unconnected(n, heardOf))
    BY <1>2 DEF MdnsBegin
  <2>2. /\ Unconnected(n, heardOf) \in SUBSET Nodes /\ n \notin Unconnected(n, heardOf)
        /\ Unconnected(n, heardOf) \subseteq Lan
    BY <1>0 DEF Unconnected
  <2> QED BY <1>0, <1>1, <1>2, <2>1, <2>2, PhaseIs, PhaseKeeps DEF MdnsBegin
<1>3. CASE MdnsConnect(n, p)
  <2>1. p \in task[n].todo /\ p \in Lan /\ ~At(n, "cached")
    BY <1>0, <1>3 DEF MdnsConnect, Pick, Sensible, At
  <2>2. limiter' \in [Nodes -> SUBSET Lan]
    BY <1>0, <1>3, <2>1 DEF MdnsConnect
  <2>3. Tried(n, p) /\ Connect(n, p) /\ UNCHANGED <<store, leaving, pex, answering, heard, deaf>>
    BY <1>3 DEF MdnsConnect
  <2> QED BY <1>0, <1>1, <2>1, <2>2, <2>3, TriedIs, TriedKeeps
<1>4. CASE MdnsSkip(n)
  <2>1. PICK q \in task[n].todo : Tried(n, q)
    BY <1>4 DEF MdnsSkip
  <2>2. UNCHANGED <<links, store, leaving, pex, answering, heard, limiter, deaf>>
    BY <1>4 DEF MdnsSkip
  <2> QED BY <1>0, <1>1, <2>1, <2>2, TriedIs, TriedKeeps
<1>5. CASE MdnsDone(n)
  BY <1>0, <1>1, <1>5, PhaseIs, PhaseKeeps DEF MdnsDone
<1>6. CASE MdnsHangs(n)
  BY <1>0, <1>1, <1>6, PhaseIs, PhaseKeeps DEF MdnsHangs
<1> QED BY <1>2, <1>3, <1>4, <1>5, <1>6

\* A task that ends, and a kill, take the links with them.
LEMMA EndKeeps ==
  ASSUME IInv, NEW n \in Nodes, TaskEnds(n) \/ Kill(n)
  PROVE  IInv'
<1>0. /\ task \in [Nodes -> Task] /\ links \subseteq Peered
      /\ store \in [Nodes -> SUBSET Row] /\ Rows(store[n])
      /\ "down" \in Phases /\ "stopped" \in Phases /\ {} \in SUBSET Nodes
  BY DEF IInv, TypeOK, Phases, Peered
<1>1. Phase(n, "down", {}) \/ Phase(n, "stopped", {})
  BY DEF TaskEnds, Kill
<1>2. /\ task' \in [Nodes -> Task] /\ \A m \in Nodes \ {n} : task'[m] = task[m]
      /\ task'[n].pc \in {"down", "stopped"} /\ task'[n].todo = {}
  BY <1>0, <1>1, PhaseIs
<1>3. links' \subseteq Peered'
  <2>1. links' = Unlinked(n)
    BY DEF TaskEnds, Kill
  <2> QED BY <1>0, <1>2, <2>1, UnlinkedStay DEF Running, At
<1>4. Sensible(n)'
  BY <1>2 DEF Sensible, At
<1>5. /\ leaving' \in [Nodes -> BOOLEAN] /\ pex' \in [Nodes -> BOOLEAN]
      /\ answering' \in [Nodes -> BOOLEAN] /\ deaf' \in [Nodes -> BOOLEAN]
      /\ heard' \in [Nodes -> SUBSET Nodes] /\ limiter' \in [Nodes -> SUBSET Lan]
  BY DEF TaskEnds, Kill, IInv, TypeOK
<1>6. store' = store \/ \E rows : store' = [store EXCEPT ![n] = rows] /\ Rows(rows)
  <2>1. CASE Kill(n)
    BY <2>1 DEF Kill
  <2>2. CASE TaskEnds(n)
    <3> DEFINE peers == IF n \in Rounds THEN Reported(n) ELSE {}
    <3>1. PICK place \in Places(peers) : store' = [store EXCEPT ![n] = Save(store[n], peers, place)]
      BY <2>2 DEF TaskEnds
    <3>2. peers \in SUBSET Nodes /\ IsFiniteSet(peers)
      BY ReportedAreOthers, FS_EmptySet
    <3> HIDE DEF peers
    <3>3. Rows(Save(store[n], peers, place))
      BY <1>0, <3>2, PlacesAre, RowsFinite, SaveRows
    <3> QED BY <3>1, <3>3
  <2> QED BY <2>1, <2>2
<1> QED BY <1>2, <1>3, <1>4, <1>5, <1>6, NodeStepKeeps

\* A stop, and what other nodes and the network do.
LEMMA OtherKeeps ==
  ASSUME IInv,
         (\E n \in Nodes : StopNode(n) \/ MinutePasses(n) \/ Deafen(n)) \/ Reach \/ Disconnect \/ UNCHANGED vars
  PROVE  IInv'
<1>0. /\ links \subseteq Peered /\ leaving \in [Nodes -> BOOLEAN] /\ deaf \in [Nodes -> BOOLEAN]
      /\ heard \in [Nodes -> SUBSET Nodes]
  BY DEF IInv, TypeOK, Peered
<1>1. /\ task' = task /\ store' = store /\ pex' = pex /\ answering' = answering /\ limiter' = limiter
      /\ leaving' \in [Nodes -> BOOLEAN] /\ deaf' \in [Nodes -> BOOLEAN]
      /\ heard' \in [Nodes -> SUBSET Nodes]
  BY <1>0 DEF StopNode, MinutePasses, Deafen, Reach, Disconnect, vars
<1>2. \A m \in Nodes : (Running(m) <=> Running(m)') /\ (Sensible(m) => Sensible(m)')
  BY <1>1 DEF Running, Sensible, At
<1>3. links' \subseteq Peered'
  <2>1. CASE links' \subseteq links
    BY <1>0, <1>2, <2>1, LinksStay
  <2>2. CASE Reach
    <3>1. PICK n, m \in Nodes : n # m /\ Running(n) /\ Connect(n, m)
      BY <2>2 DEF Reach
    <3> QED BY <1>0, <1>2, <3>1, ConnectLinks
  <2> QED BY <2>1, <2>2 DEF StopNode, MinutePasses, Deafen, Disconnect, vars
<1> QED BY <1>1, <1>2, <1>3 DEF IInv, TypeOK, Peered

LEMMA StepKeeps == IInv /\ [Next]_vars => IInv'
<1> SUFFICES ASSUME IInv, [Next]_vars PROVE IInv'
  OBVIOUS
<1>1. ASSUME NEW n \in Nodes, TaskStep(n) PROVE IInv'
  BY <1>1, BootKeeps, CachedKeeps, RefreshKeeps, PexKeeps, MdnsKeeps DEF TaskStep
<1>2. ASSUME NEW n \in Nodes, StartNode(n) \/ TaskEnds(n) \/ Kill(n) PROVE IInv'
  BY <1>2, StartKeeps, EndKeeps
<1> QED BY <1>1, <1>2, OtherKeeps DEF Next

LEMMA InitInvariant == Init => IInv
<1> SUFFICES ASSUME Init PROVE IInv
  OBVIOUS
<1>1. Idle("down") \in Task /\ Idle("down").pc = "down" /\ Idle("down").todo = {}
  BY DEF Idle, Task, Phases
<1>2. TypeOK
  BY <1>1 DEF Init, TypeOK
<1> QED BY <1>1, <1>2 DEF Init, IInv, Rows, Sensible, At

\* Every state is of its type, for any number of nodes, links and kills: a
\* connection joins two nodes that run, no success rate that load_recent counts
\* falls below zero, and the limiter counts nodes of the LAN only.
THEOREM TypeCorrect == Spec => []TypeOK
<1>1. IInv => TypeOK
  BY DEF IInv
<1> QED BY <1>1, InitInvariant, StepKeeps, PTL DEF Spec

-----------------------------------------------------------------------------
(* A refresh.                                                              *)

\* The peers of a save are the newest, so that those below a place k are just
\* the k peers saved last: whatever else was forgotten since.
LEMMA NewestAreSaved ==
  ASSUME NEW old, Rows(old), NEW peers \in SUBSET Nodes, IsFiniteSet(peers),
         NEW place \in Places(peers), NEW rows \in SUBSET Save(old, peers, place),
         \A r \in Save(old, peers, place) : r.peer \in peers => r \in rows,
         NEW k \in 0 .. Cardinality(peers), NEW low, low = {r \in rows : r.age < k}
  PROVE  /\ IsFiniteSet(low) /\ Cardinality(low) = k
         /\ \A r \in low : r.peer \in peers
<1> DEFINE age == [r \in low |-> r.age]
<1>0. /\ Cardinality(peers) \in Nat /\ k \in Nat /\ k <= Cardinality(peers)
      /\ place \in [peers -> Nat] /\ place \in [peers -> 0 .. Cardinality(peers) - 1]
      /\ \A p, q \in peers : place[p] = place[q] => p = q
      /\ \A j \in 0 .. Cardinality(peers) - 1 : \E p \in peers : place[p] = j
  BY FS_CardinalityType, PlacesAre DEF Places, Bijection, Injection, Surjection, IsInjective
<1>1. Rows(rows)
  <2>1. Rows(Save(old, peers, place))
    BY <1>0, RowsFinite, SaveRows
  <2> QED BY <2>1 DEF Rows
<1>2. \A p \in peers : \E r \in rows : r.peer = p /\ r.age = place[p]
  BY <1>0, RowsFinite, SaveRows
<1>3. \A r \in rows : /\ r.age \in Nat
                      /\ r.peer \in peers => r.age = place[r.peer]
                      /\ r.peer \notin peers => r.age >= Cardinality(peers)
  <2> TAKE r \in rows
  <2>1. /\ r.peer \in peers => r = Saved(old, r.peer, place[r.peer])
        /\ r.peer \notin peers => r.age >= Cardinality(peers)
    BY <1>0, RowsFinite, SaveRows
  <2>2. r.peer \in peers => Saved(old, r.peer, place[r.peer]).age = place[r.peer]
    BY <1>0, RowsFinite, SaveRows
  <2>3. r.age \in Nat
    BY <1>1 DEF Rows, Row
  <2> QED BY <2>1, <2>2, <2>3
<1>4. \A r \in rows : r.age < k => r.peer \in peers
  BY <1>0, <1>3
<1>5. age \in [low -> 0 .. k - 1]
  BY <1>0, <1>3
<1>6. \A r, o \in low : age[r] = age[o] => r = o
  <2> SUFFICES ASSUME NEW r \in low, NEW o \in low, r.age = o.age PROVE r = o
    OBVIOUS
  <2>1. r.peer \in peers /\ o.peer \in peers /\ place[r.peer] = place[o.peer]
    BY <1>3, <1>4
  <2> QED BY <1>0, <1>1, <2>1 DEF Rows
<1>7. \A j \in 0 .. k - 1 : \E r \in low : age[r] = j
  BY <1>0, <1>2
<1> HIDE DEF age
<1>8. age \in Bijection(low, 0 .. k - 1) /\ age \in Injection(low, 0 .. k - 1)
  BY <1>5, <1>6, <1>7 DEF Bijection, Injection, Surjection, IsInjective
<1>9. IsFiniteSet(0 .. k - 1) /\ Cardinality(0 .. k - 1) = k
  <2>1. 0 \in Int /\ k - 1 \in Int /\ (IF 0 > k - 1 THEN 0 ELSE (k - 1) - 0 + 1) = k
    BY <1>0
  <2>2. /\ IsFiniteSet(0 .. k - 1)
        /\ Cardinality(0 .. k - 1) = IF 0 > k - 1 THEN 0 ELSE (k - 1) - 0 + 1
    BY <2>1, FS_Interval
  <2> QED BY <2>1, <2>2
<1>10. IsFiniteSet(low)
  BY <1>8, <1>9, FS_Injection
<1>11. Cardinality(low) = k
  BY <1>8, <1>9, <1>10, FS_Bijection DEF ExistsBijection
<1> QED BY <1>4, <1>10, <1>11

\* So the peers that were saved are the last to be trimmed.
LEMMA TrimKeepsSaved ==
  ASSUME NEW old, Rows(old), NEW peers \in SUBSET Nodes, IsFiniteSet(peers),
         NEW place \in Places(peers), NEW rows \in Young(Save(old, peers, place), peers)
  PROVE  \/ peers \subseteq Stored(Trim(rows))
         \/ Stored(Trim(rows)) \subseteq peers /\ Cardinality(Trim(rows)) = MaxPeers
<1>0. /\ Cardinality(peers) \in Nat /\ MaxPeers \in Nat
      /\ rows \in SUBSET Save(old, peers, place)
      /\ \A r \in Save(old, peers, place) : r.peer \in peers => r \in rows
  BY FS_CardinalityType, NetworkAssumption DEF Young
<1>1. /\ place \in [peers -> Nat] /\ place \in [peers -> 0 .. Cardinality(peers) - 1]
  BY PlacesAre DEF Places, Bijection, Injection
<1>2. \A p \in peers : \E r \in rows : r.peer = p /\ r.age = place[p]
  BY <1>0, <1>1, RowsFinite, SaveRows
<1>3. Rows(rows) /\ IsFiniteSet(rows)
  <2>1. Rows(Save(old, peers, place))
    BY <1>1, RowsFinite, SaveRows
  <2>2. Rows(rows)
    BY <1>0, <2>1 DEF Rows
  <2> QED BY <2>2, RowsFinite
<1> DEFINE Low(k) == {r \in rows : r.age < k}
<1>4. \A k \in 0 .. Cardinality(peers) :
        /\ Cardinality(Low(k)) = k
        /\ \A r \in Low(k) : r.peer \in peers
  <2> TAKE k \in 0 .. Cardinality(peers)
  <2> DEFINE low == Low(k)
  <2>1. low = {r \in rows : r.age < k}
    OBVIOUS
  <2> HIDE DEF low
  <2>2. Cardinality(low) = k /\ \A r \in low : r.peer \in peers
    BY <1>0, <2>1, NewestAreSaved
  <2> QED BY <2>2 DEF low
<1>5. ASSUME NEW r \in rows, r.age <= Cardinality(peers)
      PROVE  Cardinality(Newer(rows, r)) = r.age
  <2>1. r.age \in 0 .. Cardinality(peers)
    BY <1>0, <1>3, <1>5 DEF Rows, Row
  <2>2. Newer(rows, r) = Low(r.age)
    BY DEF Newer
  <2> QED BY <1>4, <2>1, <2>2
<1>6. CASE Cardinality(peers) <= MaxPeers
  <2>1. ASSUME NEW p \in peers PROVE p \in Stored(Trim(rows))
    <3>1. PICK r \in rows : r.peer = p /\ r.age = place[p]
      BY <1>2
    <3>2. place[p] \in Nat /\ place[p] < Cardinality(peers)
      BY <1>0, <1>1
    <3>3. Cardinality(Newer(rows, r)) < MaxPeers
      BY <1>0, <1>5, <1>6, <3>1, <3>2
    <3> QED BY <3>1, <3>3 DEF Stored, Trim, Newest
  <2> QED BY <2>1
<1>7. CASE MaxPeers < Cardinality(peers)
  <2>1. ASSUME NEW r \in rows
        PROVE  Cardinality(Newer(rows, r)) < MaxPeers <=> r.age < MaxPeers
    <3>0. r.age \in Nat
      BY <1>3 DEF Rows, Row
    <3>1. CASE r.age <= Cardinality(peers)
      BY <1>5, <3>1
    <3>2. CASE Cardinality(peers) < r.age
      <4> DEFINE low == Low(Cardinality(peers))
      <4>1. Cardinality(low) = Cardinality(peers)
        <5>1. Cardinality(peers) \in 0 .. Cardinality(peers)
          BY <1>0
        <5> QED BY <1>4, <5>1
      <4>2. low \in SUBSET Newer(rows, r)
        <5>1. \A o \in rows : o.age \in Nat
          BY <1>3 DEF Rows, Row
        <5> QED BY <1>0, <3>0, <3>2, <5>1 DEF Newer
      <4>3. Newer(rows, r) \in SUBSET rows
        BY DEF Newer
      <4> HIDE DEF low
      <4>4. IsFiniteSet(Newer(rows, r)) /\ Cardinality(Newer(rows, r)) \in Nat
        BY <1>3, <4>3, FS_Subset, FS_CardinalityType
      <4>5. Cardinality(low) <= Cardinality(Newer(rows, r))
        BY <4>2, <4>4, FS_Subset
      <4> QED BY <1>0, <1>7, <3>0, <3>2, <4>1, <4>4, <4>5
    <3> QED BY <1>0, <3>0, <3>1, <3>2
  <2>2. Trim(rows) = Low(MaxPeers)
    BY <2>1 DEF Trim, Newest
  <2>3. MaxPeers \in 0 .. Cardinality(peers)
    BY <1>0, <1>7
  <2>4. /\ Cardinality(Trim(rows)) = MaxPeers
        /\ \A r \in Trim(rows) : r.peer \in peers
    BY <1>4, <2>2, <2>3
  <2> QED BY <2>2, <2>4 DEF Stored
<1> QED BY <1>0, <1>6, <1>7

\* A step of one node leaves the tasks of the others.
LEMMA OneTask ==
  ASSUME task \in [Nodes -> Task], NEW m \in Nodes,
         TaskStep(m) \/ StartNode(m) \/ StopNode(m) \/ TaskEnds(m) \/ Kill(m)
           \/ MinutePasses(m) \/ Deafen(m),
         NEW n \in Nodes \ {m}
  PROVE  task'[n] = task[n]
<1>1. task' = task \/ \E t : task' = [task EXCEPT ![m] = t]
  BY DEF TaskStep, BootConnect, BootFails, BootDone, CachedConnect, CachedFails, CachedDone,
         RefreshBegin, RefreshDone, PexBegin, PexExchange, PexFails, PexDone, MdnsBegin,
         MdnsConnect, MdnsSkip, MdnsHangs, MdnsDone, StartNode, StopNode, TaskEnds, Kill,
         MinutePasses, Deafen, Phase, Tried
<1> QED BY <1>1

\* A refresh saves the connected peers before it prunes: whatever the limits, the
\* store's contents and the order of the peers, no connected peer gives way to
\* one that is not connected (_run_main_loop, PeerStore.prune).
THEOREM ConnectedAreKept == Spec => ConnectedKept
<1> DEFINE Kept(n) == \/ Connected(n) \subseteq Stored(store'[n])
                      \/ Stored(store'[n]) \subseteq Connected(n) /\ Cardinality(store'[n]) = MaxPeers
<1>1. IInv /\ [Next]_vars
        => [\A n \in Nodes : At(n, "refresh") /\ task'[n].pc = "loop" /\ ~leaving[n] => Kept(n)]_vars
  <2> SUFFICES ASSUME IInv, [Next]_vars, vars' # vars, NEW n \in Nodes,
                      At(n, "refresh"), task'[n].pc = "loop", ~leaving[n]
               PROVE  Kept(n)
    OBVIOUS
  <2>0. /\ task \in [Nodes -> Task] /\ store \in [Nodes -> SUBSET Row] /\ Rows(store[n])
        /\ task'[n] # task[n]
    BY DEF IInv, TypeOK, At
  <2>1. \/ TaskStep(n) \/ StartNode(n) \/ StopNode(n) \/ TaskEnds(n) \/ Kill(n)
        \/ MinutePasses(n) \/ Deafen(n)
    <3>1. ~Reach /\ ~Disconnect
      BY <2>0 DEF Reach, Disconnect
    <3> QED BY <2>0, <3>1, OneTask DEF Next
  <2>2. RefreshDone(n)
    <3>1. ~StartNode(n) /\ ~StopNode(n) /\ ~TaskEnds(n) /\ ~MinutePasses(n) /\ ~Deafen(n)
      BY <2>0 DEF StartNode, Running, At, StopNode, TaskEnds, MinutePasses, Deafen
    <3>2. ~Kill(n)
      <4>1. ASSUME Phase(n, "down", {}) PROVE task'[n].pc = "down"
        BY <2>0, <4>1, PhaseIs DEF Phases
      <4> QED BY <4>1 DEF Kill
    <3>3. \A p \in Nodes : ~Tried(n, p)
      BY <2>0, TriedIs DEF At
    <3>4. \A p \in Nodes : ~BootConnect(n, p) /\ ~CachedConnect(n, p) /\ ~CachedFails(n, p)
      <4> TAKE p \in Nodes
      <4>1. ~BootConnect(n, p)
        <5>1. ASSUME BootConnect(n, p) PROVE task'[n].pc = task[n].pc
          BY <2>0, <5>1 DEF BootConnect, Task
        <5> QED BY <5>1 DEF At
      <4> QED BY <3>3, <4>1 DEF CachedConnect, CachedFails
    <3>5. ~BootFails(n)
      BY <2>0, <3>3, TaskFields DEF BootFails
    <3>6. /\ ~BootDone(n) /\ ~CachedDone(n) /\ ~RefreshBegin(n)
          /\ ~PexBegin(n) /\ ~PexFails(n) /\ ~PexDone(n) /\ ~(\E m \in Nodes : PexExchange(n, m))
          /\ ~MdnsBegin(n) /\ ~MdnsSkip(n) /\ ~MdnsHangs(n) /\ ~MdnsDone(n) /\ ~(\E p \in Nodes : MdnsConnect(n, p))
      BY DEF At, BootDone, CachedDone, RefreshBegin, PexBegin, PexFails, PexDone, PexExchange,
             MdnsBegin, MdnsSkip, MdnsHangs, MdnsDone, MdnsConnect
    <3> QED BY <2>1, <3>1, <3>2, <3>4, <3>5, <3>6 DEF TaskStep
  <2>3. Reported(n) = Connected(n)
    BY DEF Reported
  <2>4. PICK place \in Places(Reported(n)) :
          \E rows \in Young(Save(store[n], Reported(n), place), Reported(n)) :
            store' = [store EXCEPT ![n] = Trim(rows)]
    BY <2>2 DEF RefreshDone
  <2>5. PICK rows \in Young(Save(store[n], Reported(n), place), Reported(n)) :
            store' = [store EXCEPT ![n] = Trim(rows)]
    BY <2>4
  <2>6. store'[n] = Trim(rows)
    BY <2>0, <2>5
  <2>7. Reported(n) \in SUBSET Nodes /\ IsFiniteSet(Reported(n))
    BY ReportedAreOthers
  <2>8. \/ Reported(n) \subseteq Stored(Trim(rows))
        \/ Stored(Trim(rows)) \subseteq Reported(n) /\ Cardinality(Trim(rows)) = MaxPeers
    BY <2>0, <2>7, TrimKeepsSaved
  <2> QED BY <2>3, <2>6, <2>8
<1> QED BY <1>1, InitInvariant, StepKeeps, PTL DEF Spec, ConnectedKept

-----------------------------------------------------------------------------
(* A search among the peers: what the operators of the router return.      *)

\* What a peer is given to answer is clamped on both sides.
LEMMA TimeoutClamped ==
  ASSUME profile \in [Peers -> Profile], NEW p \in Peers
  PROVE  Timeout(p) \in MinTimeout .. BaseTimeout
<1>1. /\ MinTimeout \in Nat /\ BaseTimeout \in Nat /\ MinTimeout <= BaseTimeout
      /\ Factor \in Nat /\ MaxPace \in Nat
  BY RoutingAssumption
<1>2. profile[p].avg \in Nat
  BY <1>1 DEF Profile
<1>3. Factor * profile[p].avg \in Nat
  BY <1>1, <1>2
<1> QED BY <1>1, <1>3 DEF Timeout, Greater, Lesser

\* A record changes the average of its peer to the one given and keeps every profile
\* one.
LEMMA RecordedIsProfiled ==
  ASSUME profile \in [Peers -> Profile], NEW p \in Peers, NEW avg \in 0 .. MaxPace,
         NEW after \in RecordedWith(p, avg)
  PROVE  after \in [Peers -> Profile]
<1>1. KnownAfter \in Nat /\ MaxPace \in Nat
  BY RoutingAssumption
<1>2. NoProfile \in Profile
  BY <1>1 DEF NoProfile, Profile
<1>3. [avg |-> avg, seen |-> Lesser(KnownAfter, profile[p].seen + 1)] \in Profile
  <2>1. profile[p].seen \in 0 .. KnownAfter
    BY DEF Profile
  <2>2. Lesser(KnownAfter, profile[p].seen + 1) \in 0 .. KnownAfter
    BY <1>1, <2>1 DEF Lesser
  <2> QED BY <2>2 DEF Profile
<1>4. PICK stale \in IF profile[p].seen = 0 THEN SUBSET (Peers \ {p}) ELSE {{}} :
        after = [o \in Peers |->
                   IF o = p THEN [avg |-> avg, seen |-> Lesser(KnownAfter, profile[p].seen + 1)]
                   ELSE IF o \in stale THEN NoProfile ELSE profile[o]]
  BY DEF RecordedWith
<1> QED BY <1>2, <1>3, <1>4

LEMMA RecordsAreProfiled ==
  ASSUME profile \in [Peers -> Profile], pace \in [Peers -> 0 .. MaxPace], NEW p \in Peers
  PROVE  Success(p) \cup Failure(p) \subseteq [Peers -> Profile]
<1>1. MaxPace \in Nat
  BY RoutingAssumption
<1>2. profile[p].avg \in 0 .. MaxPace /\ pace[p] \in 0 .. MaxPace
  BY DEF Profile
<1>3. Moved(profile[p].avg, pace[p]) \subseteq 0 .. MaxPace
  BY <1>1, <1>2 DEF Moved, Lesser, Greater
<1> QED BY <1>2, <1>3, RecordedIsProfiled DEF Success, Failure

\* As many targets are chosen as the fan-out and the candidates allow.
LEMMA TargetsFill ==
  ASSUME NEW candidates, IsFiniteSet(candidates), NEW targets \in Targets(candidates)
  PROVE  /\ targets \subseteq candidates
         /\ Cardinality(targets) = Lesser(MaxFanout, Cardinality(candidates))
<1> DEFINE n == Cardinality(candidates)
           size == Lesser(MaxFanout, n)
           half == Greater(1, n \div 2)
<1>1. n \in Nat /\ MaxFanout \in Nat \ {0}
  BY FS_CardinalityType, RoutingAssumption
<1>2. CASE n <= 2 \/ half >= MaxFanout
  <2>1. targets \in Fastest(candidates, size)
    BY <1>2 DEF Targets
  <2> QED BY <2>1 DEF Fastest
<1>3. CASE ~(n <= 2 \/ half >= MaxFanout)
  <2>1. half \in Nat /\ size \in Nat /\ half <= size
    BY <1>1, <1>3 DEF Greater, Lesser
  <2>2. PICK fast \in Fastest(candidates, half) :
          \E slow \in SUBSET (candidates \ fast) :
            Cardinality(slow) = size - half /\ targets = fast \cup slow
    BY <1>3 DEF Targets
  <2>3. PICK slow \in SUBSET (candidates \ fast) :
          Cardinality(slow) = size - half /\ targets = fast \cup slow
    BY <2>2
  <2>4. fast \subseteq candidates /\ Cardinality(fast) = half
    BY DEF Fastest
  <2>5. IsFiniteSet(fast) /\ IsFiniteSet(slow)
    BY <2>4, FS_Subset
  <2>6. fast \cap slow = {}
    BY <2>3
  <2>7. Cardinality(targets) = half + (size - half) - 0
    BY <2>3, <2>4, <2>5, <2>6, FS_Union, FS_EmptySet
  <2>8. Cardinality(targets) = size
    BY <2>1, <2>7
  <2> QED BY <2>3, <2>4, <2>8
<1> QED BY <1>2, <1>3

-----------------------------------------------------------------------------
(* The steps of a search.                                                  *)

\* The step of one task of one query: the query stays where it is, and the task
\* gets no further than Goto takes it.
LEMMA GotoIs ==
  ASSUME RoutingTypeOK, NEW q \in Queries, NEW p \in Peers, NEW state \in AskStage \ {"none"},
         ask[q][p] # "none", Goto(q, p, state)
  PROVE  /\ ask' \in [Queries -> [Peers -> AskStage]]
         /\ \A k \in Queries, o \in Peers : ask'[k][o] # "none" <=> ask[k][o] # "none"
<1>1. ask \in [Queries -> [Peers -> AskStage]]
  BY DEF RoutingTypeOK
<1>2. ask' = [ask EXCEPT ![q] = [ask[q] EXCEPT ![p] = state]]
  BY DEF Goto
<1>3. [ask[q] EXCEPT ![p] = state] \in [Peers -> AskStage]
  BY <1>1
<1>4. ask' \in [Queries -> [Peers -> AskStage]]
  BY <1>1, <1>2, <1>3
<1>5. ASSUME NEW k \in Queries, NEW o \in Peers
      PROVE  ask'[k][o] = IF k = q /\ o = p THEN state ELSE ask[k][o]
  <2>1. ask'[k] = IF k = q THEN [ask[q] EXCEPT ![p] = state] ELSE ask[k]
    BY <1>1, <1>2
  <2>2. CASE k = q
    BY <1>1, <2>1, <2>2
  <2>3. CASE k # q
    BY <2>1, <2>3
  <2> QED BY <2>2, <2>3
<1> QED BY <1>4, <1>5

\* A task ends, or its answer is sent on: its deadline and its query stay.
LEMMA TaskStepIs ==
  ASSUME RoutingTypeOK, NEW q \in Queries, NEW p \in Peers, AskStep(q, p) \/ Refuse(q, p)
  PROVE  /\ ask' \in [Queries -> [Peers -> AskStage]]
         /\ \A k \in Queries, o \in Peers : ask'[k][o] # "none" <=> ask[k][o] # "none"
         /\ profile' \in [Peers -> Profile]
         /\ UNCHANGED <<stage, found, deadline, pace>>
<1>0. /\ profile \in [Peers -> Profile] /\ pace \in [Peers -> 0 .. MaxPace]
      /\ Success(p) \cup Failure(p) \subseteq [Peers -> Profile]
  BY RecordsAreProfiled DEF RoutingTypeOK
<1>1. CASE Answer(q, p)
  <2>1. ask[q][p] # "none" /\ Goto(q, p, "answered") /\ "answered" \in AskStage \ {"none"}
    BY <1>1 DEF Answer, AskStage, Asking
  <2> QED BY <1>0, <1>1, <2>1, GotoIs DEF Answer
<1>2. CASE Refuse(q, p)
  <2>1. ask[q][p] # "none" /\ Goto(q, p, "failed") /\ "failed" \in AskStage \ {"none"}
    BY <1>2 DEF Refuse, AskStage, Asking
  <2> QED BY <1>0, <1>2, <2>1, GotoIs DEF Refuse
<1>3. CASE Deliver(q, p)
  <2>1. PICK state \in Finished : Goto(q, p, state)
    BY <1>3 DEF Deliver, Finished
  <2>2. ask[q][p] # "none" /\ state \in AskStage \ {"none"}
    BY <1>3 DEF Deliver, AskStage, Finished
  <2> QED BY <1>0, <1>3, <2>1, <2>2, GotoIs DEF Deliver
<1>4. CASE Expire(q, p)
  <2>1. ask[q][p] # "none" /\ Goto(q, p, "empty") /\ "empty" \in AskStage \ {"none"}
    BY <1>4 DEF Expire, Overdue, AskStage, Finished
  <2> QED BY <1>0, <1>4, <2>1, GotoIs DEF Expire
<1> QED BY <1>1, <1>2, <1>3, <1>4 DEF AskStep

\* The targets of a query are asked, each until its own deadline.
LEMMA FanOutIs ==
  ASSUME RoutingTypeOK, NEW q \in Queries, FanOut(q)
  PROVE  /\ stage' = [stage EXCEPT ![q] = "asking"]
         /\ UNCHANGED <<found, profile, pace>>
         /\ \E targets \in Targets(found[q]), until \in [Peers -> 0 .. BaseTimeout] :
              /\ ask' = [ask EXCEPT ![q] = [p \in Peers |-> IF p \in targets THEN "asking" ELSE "none"]]
              /\ deadline' = [deadline EXCEPT ![q] = until]
              /\ \A p \in targets \cap Peers : until[p] >= MinTimeout
<1>1. PICK targets \in Targets(found[q]) :
        /\ ask' = [ask EXCEPT ![q] = [p \in Peers |-> IF p \in targets THEN "asking" ELSE "none"]]
        /\ deadline' = [deadline EXCEPT ![q] = Deadlines(targets)]
  BY DEF FanOut
<1> DEFINE until == [p \in Peers |-> IF p \in targets THEN Timeout(p) ELSE 0]
<1>2. \A p \in Peers : Timeout(p) \in MinTimeout .. BaseTimeout
  BY TimeoutClamped DEF RoutingTypeOK
<1>3. MinTimeout \in Nat /\ BaseTimeout \in Nat
  BY RoutingAssumption
<1>4. until \in [Peers -> 0 .. BaseTimeout] /\ \A p \in targets \cap Peers : until[p] >= MinTimeout
  BY <1>2, <1>3
<1> HIDE DEF until
<1>5. /\ ask' = [ask EXCEPT ![q] = [p \in Peers |-> IF p \in targets THEN "asking" ELSE "none"]]
      /\ deadline' = [deadline EXCEPT ![q] = until]
  BY <1>1 DEF until, Deadlines
<1> QED BY <1>4, <1>5 DEF FanOut

-----------------------------------------------------------------------------
LEMMA RoutingInitTyped == RoutingInit => RoutingTypeOK
  BY RoutingAssumption
     DEF RoutingInit, RoutingTypeOK, QueryStage, AskStage, Asking, Finished, Profile, NoProfile

LEMMA RoutingStepTyped == RoutingTypeOK /\ [RoutingNext]_routingVars => RoutingTypeOK'
<1> SUFFICES ASSUME RoutingTypeOK, [RoutingNext]_routingVars
             PROVE  RoutingTypeOK'
  OBVIOUS
<1>0. MinTimeout \in Nat /\ BaseTimeout \in Nat
  BY RoutingAssumption
<1>1. CASE UNCHANGED routingVars
  BY <1>1 DEF RoutingTypeOK, routingVars
<1>2. ASSUME NEW q \in Queries, NEW p \in Peers, AskStep(q, p) \/ Refuse(q, p)
      PROVE  RoutingTypeOK'
  BY <1>2, TaskStepIs DEF RoutingTypeOK
<1>3. ASSUME NEW q \in Queries, Search(q) \/ NobodyFound(q)
      PROVE  RoutingTypeOK'
  BY <1>3 DEF RoutingTypeOK, Search, NobodyFound, QueryStage
<1>4. ASSUME NEW q \in Queries, FanOut(q)
      PROVE  RoutingTypeOK'
  <2>1. PICK targets \in Targets(found[q]), until \in [Peers -> 0 .. BaseTimeout] :
          /\ ask' = [ask EXCEPT ![q] = [p \in Peers |-> IF p \in targets THEN "asking" ELSE "none"]]
          /\ deadline' = [deadline EXCEPT ![q] = until]
          /\ \A p \in targets \cap Peers : until[p] >= MinTimeout
    BY <1>4, FanOutIs
  <2>2. "asking" \in AskStage /\ "none" \in AskStage /\ "asking" \in QueryStage
    BY DEF AskStage, Asking, QueryStage
  <2>3. /\ ask' \in [Queries -> [Peers -> AskStage]]
        /\ deadline' \in [Queries -> [Peers -> 0 .. BaseTimeout]]
        /\ stage' \in [Queries -> QueryStage]
    BY <1>4, <2>1, <2>2, FanOutIs DEF RoutingTypeOK
  <2>4. ASSUME NEW k \in Queries, NEW p \in Peers, ask'[k][p] # "none"
        PROVE  deadline'[k][p] >= MinTimeout
    <3>1. CASE k = q
      BY <2>1, <2>4, <3>1 DEF RoutingTypeOK
    <3>2. CASE k # q
      BY <2>1, <2>4, <3>2 DEF RoutingTypeOK
    <3> QED BY <3>1, <3>2
  <2> QED BY <1>4, <2>3, <2>4, FanOutIs DEF RoutingTypeOK
<1>5. ASSUME NEW q \in Queries, Return(q)
      PROVE  RoutingTypeOK'
  BY <1>0, <1>5 DEF RoutingTypeOK, Return, QueryStage, AskStage
<1>6. ASSUME NEW p \in Peers, Change(p)
      PROVE  RoutingTypeOK'
  <2>1. PICK k \in Moods[p] \ {pace[p]} : pace' = [pace EXCEPT ![p] = k]
    BY <1>6 DEF Change
  <2>2. k \in 0 .. MaxPace
    BY RoutingAssumption
  <2> QED BY <1>6, <2>1, <2>2 DEF RoutingTypeOK, Change
<1> QED BY <1>1, <1>2, <1>3, <1>4, <1>5, <1>6 DEF RoutingNext, QueryStep

\* The types, and that whoever is asked has its time: not less than 500 ms, and never
\* longer than the search waits (adaptive_timeout).
THEOREM RoutingTypeCorrect == RoutingSpec => []RoutingTypeOK
<1> QED BY RoutingInitTyped, RoutingStepTyped, PTL DEF RoutingSpec

-----------------------------------------------------------------------------
LEMMA NobodyAsked == Cardinality({}) = 0
  BY FS_EmptySet

LEMMA StepFills == RoutingTypeOK /\ FullFanout /\ [RoutingNext]_routingVars => FullFanout'
<1> SUFFICES ASSUME RoutingTypeOK, FullFanout, [RoutingNext]_routingVars, NEW q \in Queries
             PROVE  Cardinality(Asked(q)') =
                      IF stage'[q] = "asking" THEN Lesser(MaxFanout, Cardinality(found'[q])) ELSE 0
  BY DEF FullFanout
<1> DEFINE Kept == /\ Asked(q)' = Asked(q)
                   /\ stage'[q] = "asking" <=> stage[q] = "asking"
                   /\ stage[q] = "asking" => found'[q] = found[q]
<1>0. Kept => Cardinality(Asked(q)') =
                IF stage'[q] = "asking" THEN Lesser(MaxFanout, Cardinality(found'[q])) ELSE 0
  BY DEF FullFanout
<1>1. CASE UNCHANGED routingVars
  BY <1>0, <1>1 DEF Asked, routingVars
<1>2. ASSUME NEW k \in Queries, NEW p \in Peers, AskStep(k, p) \/ Refuse(k, p)
      PROVE  Kept
  BY <1>2, TaskStepIs DEF Asked
<1>3. ASSUME NEW k \in Queries, Search(k) \/ NobodyFound(k)
      PROVE  Kept
  BY <1>3 DEF Asked, Search, NobodyFound, RoutingTypeOK
<1>4. ASSUME NEW k \in Queries, k # q, FanOut(k) \/ Return(k)
      PROVE  Kept
  BY <1>4 DEF Asked, FanOut, Return, RoutingTypeOK
<1>5. CASE FanOut(q)
  <2>1. PICK targets \in Targets(found[q]) :
          ask' = [ask EXCEPT ![q] = [p \in Peers |-> IF p \in targets THEN "asking" ELSE "none"]]
    BY <1>5 DEF FanOut
  <2>2. /\ targets \subseteq Peers /\ found'[q] = found[q]
        /\ Cardinality(targets) = Lesser(MaxFanout, Cardinality(found[q]))
    <3>1. found[q] \in SUBSET Peers
      BY RoutingAssumption DEF RoutingTypeOK
    <3>2. IsFiniteSet(found[q])
      BY <3>1, FS_Subset, RoutingAssumption
    <3> QED BY <1>5, <3>1, <3>2, TargetsFill DEF FanOut
  <2>3. Asked(q)' = targets
    BY <2>1, <2>2 DEF Asked, RoutingTypeOK
  <2>4. stage'[q] = "asking"
    BY <1>5 DEF FanOut, RoutingTypeOK
  <2> QED BY <2>2, <2>3, <2>4
<1>6. CASE Return(q)
  <2>1. Asked(q)' = {} /\ stage'[q] = "idle"
    BY <1>6 DEF Return, Asked, RoutingTypeOK
  <2> QED BY <2>1, NobodyAsked
<1>7. ASSUME NEW p \in Peers, Change(p)
      PROVE  Kept
  BY <1>7 DEF Asked, Change
<1> HIDE DEF Kept
<1> QED BY <1>0, <1>1, <1>2, <1>3, <1>4, <1>5, <1>6, <1>7 DEF RoutingNext, QueryStep

\* A search asks as many peers as MAX_FANOUT and the candidates allow, whatever the
\* latencies are and however many slower ones are promoted (rank_by_latency,
\* route_query), and keeps one task for each until all have ended.
THEOREM FanoutIsFull == RoutingSpec => []FullFanout
<1>1. RoutingInit => FullFanout
  <2> SUFFICES ASSUME RoutingInit, NEW q \in Queries
               PROVE  Asked(q) = {} /\ stage[q] # "asking"
    BY NobodyAsked DEF FullFanout
  <2> QED BY DEF RoutingInit, Asked
<1> QED BY <1>1, RoutingInitTyped, RoutingStepTyped, StepFills, PTL DEF RoutingSpec

-----------------------------------------------------------------------------
(* Who is in time stays in time.                                           *)

\* The average a record leaves a peer with: the old one, none, or one on the way to
\* how long the peer takes.
LEMMA AverageAfter ==
  ASSUME RoutingTypeOK, NEW q \in Queries, NEW o \in Peers, AskStep(q, o) \/ Refuse(q, o),
         NEW p \in Peers, pace[p] # 0
  PROVE  \/ profile'[p].avg \in {0, profile[p].avg, pace[p]}
         \/ /\ profile[p].avg # 0
            /\ profile'[p].avg \in Lesser(profile[p].avg, pace[p]) .. Greater(profile[p].avg, pace[p])
<1>1. ASSUME NEW avg, profile' \in RecordedWith(o, avg)
      PROVE  \/ profile'[p].avg \in {0, profile[p].avg}
             \/ p = o /\ profile'[p].avg = avg
  BY <1>1 DEF RecordedWith, NoProfile
<1>2. CASE profile' = profile
  BY <1>2
<1>3. CASE profile' \in Failure(o)
  BY <1>1, <1>3 DEF Failure
<1>4. CASE profile' \in Success(o)
  <2>1. PICK avg \in Moved(profile[o].avg, pace[o]) : profile' \in RecordedWith(o, avg)
    BY <1>4 DEF Success
  <2> QED BY <1>1, <2>1 DEF Moved
<1> QED BY <1>2, <1>3, <1>4 DEF AskStep, Answer, Deliver, Expire, Refuse

\* A longer average gives no less time, and an average that is the latency itself
\* gives more than that.
LEMMA MoreAverageMoreTime ==
  ASSUME NEW x \in Nat, NEW y \in Nat, x <= y
  PROVE  Factor * x <= Factor * y /\ 2 * y <= Factor * y
<1>1. Factor \in Nat /\ Factor >= 2
  BY RoutingAssumption
<1>2. PICK g \in Nat : Factor = g + 2
  BY <1>1
<1>3. PICK d \in Nat : y = x + d
  <2>1. y - x \in Nat /\ y = x + (y - x)
    OBVIOUS
  <2> QED BY <2>1
<1>4. g * y \in Nat /\ Factor * y = g * y + 2 * y
  BY <1>2
<1>5. Factor * d \in Nat /\ Factor * y = Factor * x + Factor * d
  BY <1>1, <1>3
<1>6. Factor * x \in Nat /\ Factor * y \in Nat
  BY <1>1
<1> QED BY <1>4, <1>5, <1>6

LEMMA RecordsLeaveTime ==
  ASSUME RoutingTypeOK, RoutingTypeOK', NEW p \in Peers, pace[p] \in 1 .. Timeout(p) - 1,
         \/ profile'[p].avg \in {0, profile[p].avg, pace[p]}
         \/ /\ profile[p].avg # 0
            /\ profile'[p].avg \in Lesser(profile[p].avg, pace[p]) .. Greater(profile[p].avg, pace[p])
  PROVE  pace[p] < Timeout(p)'
<1> DEFINE k == pace[p]
           x == profile[p].avg
           y == profile'[p].avg
           Given(v) == IF v = 0 THEN BaseTimeout ELSE Greater(MinTimeout, Lesser(Factor * v, BaseTimeout))
<1>1. /\ MinTimeout \in Nat /\ BaseTimeout \in Nat /\ MaxPace \in Nat /\ MaxPace < BaseTimeout
      /\ Factor \in Nat
  BY RoutingAssumption
<1>2. k \in 0 .. MaxPace /\ x \in 0 .. MaxPace /\ y \in 0 .. MaxPace
  BY DEF RoutingTypeOK, Profile
<1>3. Timeout(p) = Given(x) /\ Timeout(p)' = Given(y)
  BY DEF Timeout
<1>4. Given(x) \in Nat /\ k >= 1 /\ k < Given(x)
  <2>1. Factor * x \in Nat
    BY <1>1, <1>2
  <2>2. Given(x) \in Nat
    BY <1>1, <2>1 DEF Greater, Lesser
  <2>3. pace[p] \in 1 .. Given(x) - 1
    BY <1>3
  <2> HIDE DEF Given
  <2> QED BY <1>2, <2>2, <2>3
<1>5. \/ y \in {0, x, k}
      \/ x # 0 /\ y \in Lesser(x, k) .. Greater(x, k)
  OBVIOUS
<1> SUFFICES k < Given(y)
  BY <1>3
<1> HIDE DEF k, x, y
<1>6. CASE y = 0
  BY <1>1, <1>2, <1>6
<1>7. CASE y = x
  <2> HIDE DEF Given
  <2> QED BY <1>4, <1>7
<1>8. CASE y # 0 /\ k <= y
  <2>1. 2 * y <= Factor * y /\ Factor * y \in Nat
    BY <1>1, <1>2, MoreAverageMoreTime
  <2>2. k < Factor * y /\ k < BaseTimeout
    BY <1>1, <1>2, <1>8, <2>1
  <2> QED BY <1>1, <1>2, <1>8, <2>1, <2>2 DEF Greater, Lesser
<1>9. CASE y # 0 /\ y # x /\ y < k
  <2>1. x # 0 /\ x <= y
    BY <1>2, <1>5, <1>9 DEF Lesser, Greater
  <2>2. Factor * x <= Factor * y /\ Factor * x \in Nat /\ Factor * y \in Nat
    BY <1>1, <1>2, <2>1, MoreAverageMoreTime
  <2>3. \/ k < MinTimeout
        \/ k < Factor * x /\ k < BaseTimeout
    BY <1>1, <1>2, <1>4, <2>1, <2>2 DEF Greater, Lesser
  <2> QED BY <1>1, <1>2, <1>9, <2>2, <2>3 DEF Greater, Lesser
<1> HIDE DEF Given
<1> QED BY <1>2, <1>6, <1>7, <1>8, <1>9

\* While a peer keeps a latency within its timeout, nothing takes its time away: no
\* answer, which moves the average the timeout is made from, no failure and no pruning,
\* of whichever query and whatever the others do (PeerProfileTracker.record,
\* adaptive_timeout).
THEOREM TimeIsKept == RoutingSpec => InTimeStays
<1>1. RoutingTypeOK /\ RoutingTypeOK' /\ [RoutingNext]_routingVars
        => [\A p \in Peers : pace[p] \in 1 .. Timeout(p) - 1 /\ pace'[p] = pace[p]
                               => pace[p] < Timeout(p)']_routingVars
  <2> SUFFICES ASSUME RoutingTypeOK, RoutingTypeOK', RoutingNext, NEW p \in Peers,
                      pace[p] \in 1 .. Timeout(p) - 1
               PROVE  pace[p] < Timeout(p)'
    OBVIOUS
  <2>1. pace[p] # 0
    OBVIOUS
  <2>2. ASSUME NEW q \in Queries, NEW o \in Peers, AskStep(q, o) \/ Refuse(q, o)
        PROVE  pace[p] < Timeout(p)'
    BY <2>1, <2>2, AverageAfter, RecordsLeaveTime
  <2>3. CASE profile' = profile
    BY <2>3, RecordsLeaveTime
  <2>4. ASSUME NEW q \in Queries, Search(q) \/ QueryStep(q)
        PROVE  profile' = profile
    BY <2>4 DEF Search, QueryStep, NobodyFound, FanOut, Return
  <2>5. ASSUME NEW o \in Peers, Change(o)
        PROVE  profile' = profile
    BY <2>5 DEF Change
  <2> QED BY <2>2, <2>3, <2>4, <2>5 DEF RoutingNext
<1> QED BY <1>1, RoutingInitTyped, RoutingStepTyped, PTL DEF RoutingSpec, InTimeStays
=============================================================================
