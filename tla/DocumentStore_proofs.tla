------------------------- MODULE DocumentStore_proofs -------------------------
(***************************************************************************)
(* What holds of the document index for every set of processes, roles and  *)
(* pages, and however many documents are added: the types of the state,    *)
(* that a doc_id names one page, and that a sweep of the documents by      *)
(* OFFSET skips no more of them than there were removals.                  *)
(***************************************************************************)
EXTENDS DocumentStore, FiniteSetTheorems, TLAPS

(* What a connection reads is finite, so that a page of it can be counted. *)
Finite ==
  /\ IsFiniteSet(docs)
  /\ \A p \in Procs : IsFiniteSet(conn[p].view)

(* Every id given out is below the next one, and an insert that is not yet *)
(* committed has the next one: only one process can be in an insert, since *)
(* it has the write lock.                                                  *)
IdsBelowNext ==
  /\ \A d \in named : d.id < nextId
  /\ \A p \in Procs : job[p].pc = "insert" => job[p].doc \in Doc /\ job[p].doc.id = nextId

IInv == TypeOK /\ Finite /\ IdsBelowNext /\ IdsNameOnePage

-----------------------------------------------------------------------------
(* The part of the invariant that is about the connections and the jobs:   *)
(* they are of their type, one connection writes, and a write that is not  *)
(* committed has the lock and, when it is an insert, the next id.          *)
Locked(c, j, n) ==
  /\ c \in [Procs -> Connection]
  /\ j \in [Procs -> Job]
  /\ \A p, q \in Procs : c[p].mode = "writing" /\ c[q].mode = "writing" => p = q
  /\ \A p \in Procs : j[p].pc \in {"insert", "erase", "merge"} => c[p].mode = "writing"
  /\ \A p \in Procs : IsFiniteSet(c[p].view)
  /\ \A p \in Procs : j[p].pc = "insert" => j[p].doc \in Doc /\ j[p].doc.id = n

(* The invariant, put together from the parts an action changes. *)
LEMMA Parts ==
  ASSUME IInv
  PROVE  /\ Locked(conn, job, nextId)
         /\ role \in [Procs -> Roles] /\ sweep \in [Procs -> Sweep]
         /\ docs \subseteq Doc /\ IsFiniteSet(docs)
<1>1. QED
  BY DEF IInv, TypeOK, Finite, IdsBelowNext, Locked

LEMMA DocsUnchanged ==
  ASSUME IInv, UNCHANGED <<docs, nextId, named>>,
         Locked(conn', job', nextId), role' \in [Procs -> Roles], sweep' \in [Procs -> Sweep]
  PROVE  IInv'
<1>1. TypeOK'
  BY DEF IInv, TypeOK, Locked
<1>2. Finite'
  BY DEF IInv, Finite, Locked
<1>3. IdsBelowNext'
  BY DEF IInv, IdsBelowNext, Locked
<1>4. IdsNameOnePage'
  BY DEF IInv, IdsNameOnePage
<1>5. QED
  BY <1>1, <1>2, <1>3, <1>4 DEF IInv

LEMMA IdleIsAJob == Idle \in Job /\ Idle.pc = "idle"
<1>1. QED
  BY DEF Idle, Job

LEMMA NoConnectionIsOne ==
  /\ NoConnection \in Connection /\ NoConnection.mode = "auto" /\ IsFiniteSet(NoConnection.view)
<1>1. IsFiniteSet({})
  BY FS_EmptySet
<1>2. QED
  BY <1>1 DEF NoConnection, Connection

-----------------------------------------------------------------------------
(* What the operations on a connection keep *)

(* A process that gets the lock may begin any write. *)
LEMMA LocksKeeps ==
  ASSUME NEW p \in Procs, NEW j \in Job, Locked(conn, job, nextId), CanWrite(p), Locks(p),
         j.pc = "insert" => j.doc \in Doc /\ j.doc.id = nextId,
         job' = [job EXCEPT ![p] = j]
  PROVE  Locked(conn', job', nextId)
<1>1. conn' = [conn EXCEPT ![p].mode = "writing"]
  BY DEF Locks
<1>2. conn' \in [Procs -> Connection]
  BY <1>1 DEF Locked, Connection
<1>3. \A q \in Procs : conn'[q].mode = "writing" => q = p
  BY <1>1 DEF Locked, CanWrite
<1>4. conn'[p].mode = "writing"
  BY <1>1 DEF Locked, Connection
<1>5. \A q \in Procs : conn'[q].view = conn[q].view
  BY <1>1 DEF Locked, Connection
<1>6. \A q \in Procs : job'[q] = IF q = p THEN j ELSE job[q]
  BY DEF Locked
<1>7. job' \in [Procs -> Job]
  BY DEF Locked
<1>8. \A q \in Procs : q # p => conn'[q] = conn[q]
  BY <1>1 DEF Locked
<1>9. \A q \in Procs : job'[q].pc \in {"insert", "erase", "merge"} => conn'[q].mode = "writing"
  BY <1>4, <1>6, <1>8 DEF Locked
<1>10. \A q \in Procs : job'[q].pc = "insert" => job'[q].doc \in Doc /\ job'[q].doc.id = nextId
  BY <1>6 DEF Locked
<1>11. QED
  BY <1>2, <1>3, <1>5, <1>7, <1>9, <1>10 DEF Locked

(* A step of p that ends outside a transaction, or one that reads or fails,*)
(* while p is not in the middle of a write.                                *)
LEMMA OwnKeeps ==
  ASSUME NEW p \in Procs, NEW c \in Connection, NEW j \in Job, Locked(conn, job, nextId),
         IsFiniteSet(c.view), c.mode = "writing" => conn[p].mode = "writing",
         j.pc \in {"idle", "delete", "crawled"},
         conn' = [conn EXCEPT ![p] = c], job' = [job EXCEPT ![p] = j]
  PROVE  Locked(conn', job', nextId)
<1>1. conn' \in [Procs -> Connection] /\ job' \in [Procs -> Job]
  BY DEF Locked
<1>2. \A q \in Procs : /\ conn'[q] = IF q = p THEN c ELSE conn[q]
                       /\ job'[q] = IF q = p THEN j ELSE job[q]
  BY DEF Locked
<1>3. \A q, r \in Procs : conn'[q].mode = "writing" /\ conn'[r].mode = "writing" => q = r
  BY <1>2 DEF Locked
<1>4. \A q \in Procs : job'[q].pc \in {"insert", "erase", "merge"} => conn'[q].mode = "writing"
  BY <1>2 DEF Locked
<1>5. \A q \in Procs : IsFiniteSet(conn'[q].view)
  BY <1>2 DEF Locked
<1>6. \A q \in Procs : job'[q].pc = "insert" => job'[q].doc \in Doc /\ job'[q].doc.id = nextId
  BY <1>2 DEF Locked
<1>7. QED
  BY <1>1, <1>3, <1>4, <1>5, <1>6 DEF Locked

(* A failed write and a read leave a connection of the same process. *)
LEMMA BusyIsOwn ==
  ASSUME NEW p \in Procs, Locked(conn, job, nextId), Busy(p)
  PROVE  \E c \in Connection : /\ conn' = [conn EXCEPT ![p] = c] /\ IsFiniteSet(c.view)
                               /\ c.mode = "writing" => conn[p].mode = "writing"
<1>1. DEFINE c == [conn[p] EXCEPT !.mode = IF @ = "auto" THEN "open" ELSE @]
<1>2. c \in Connection /\ c.view = conn[p].view /\ (c.mode = "writing" => conn[p].mode = "writing")
  BY DEF Locked, Connection
<1>3. conn' = [conn EXCEPT ![p] = c]
  BY DEF Busy, Locked
<1>4. QED
  BY <1>2, <1>3 DEF Locked

LEMMA ReadsIsOwn ==
  ASSUME NEW p \in Procs, Locked(conn, job, nextId), Reads(p), docs \subseteq Doc, IsFiniteSet(docs)
  PROVE  \E c \in Connection : /\ conn' = [conn EXCEPT ![p] = c] /\ IsFiniteSet(c.view)
                               /\ c.mode = "writing" => conn[p].mode = "writing"
<1>1. CASE conn[p].mode = "open"
  <2>1. DEFINE c == [mode |-> "reading", view |-> docs, newest |-> TRUE]
  <2>2. c \in Connection /\ IsFiniteSet(c.view) /\ c.mode # "writing"
    BY DEF Connection
  <2>3. conn' = [conn EXCEPT ![p] = c]
    BY <1>1 DEF Reads
  <2>4. QED
    BY <2>2, <2>3
<1>2. CASE conn[p].mode # "open"
  <2>1. conn' = [conn EXCEPT ![p] = conn[p]]
    BY <1>2 DEF Reads, Locked
  <2>2. QED
    BY <2>1 DEF Locked
<1>3. QED
  BY <1>1, <1>2

(* A commit of p gives the lock back and changes nobody else's mode. *)
LEMMA CommitKeeps ==
  ASSUME NEW p \in Procs, NEW n, Locked(conn, job, nextId),
         conn[p].mode = "writing",
         conn' = Committed(p) \/ conn' = [conn EXCEPT ![p] = NoConnection],
         job' = [job EXCEPT ![p] = Idle]
  PROVE  Locked(conn', job', n)
<1>1. conn' \in [Procs -> Connection]
  <2>1. CASE conn' = Committed(p)
    BY <2>1, NoConnectionIsOne DEF Committed, Locked, Connection
  <2>2. CASE conn' = [conn EXCEPT ![p] = NoConnection]
    BY <2>2, NoConnectionIsOne DEF Locked
  <2>3. QED
    BY <2>1, <2>2
<1>2. conn'[p] = NoConnection
  BY DEF Committed, Locked
<1>3. \A q \in Procs : q # p => conn'[q].mode = conn[q].mode /\ conn'[q].view = conn[q].view
  BY DEF Committed, Locked, Connection
<1>4. \A q \in Procs : conn'[q].mode # "writing"
  BY <1>2, <1>3, NoConnectionIsOne DEF Locked
<1>5. job' \in [Procs -> Job]
  BY IdleIsAJob DEF Locked
<1>6. \A q \in Procs : job'[q] = IF q = p THEN Idle ELSE job[q]
  BY DEF Locked
<1>7. \A q \in Procs : job'[q].pc \notin {"insert", "erase", "merge"}
  BY <1>6, IdleIsAJob DEF Locked
<1>8. \A q \in Procs : IsFiniteSet(conn'[q].view)
  BY <1>2, <1>3, NoConnectionIsOne DEF Locked
<1>9. QED
  BY <1>1, <1>4, <1>5, <1>7, <1>8 DEF Locked
-----------------------------------------------------------------------------
(* The steps *)

LEMMA InitInvariant == Init => IInv
<1> SUFFICES ASSUME Init PROVE IInv
  OBVIOUS
<1>2. IsFiniteSet({})
  BY FS_EmptySet
<1>3. Locked(conn, job, nextId)
  BY NoConnectionIsOne, IdleIsAJob DEF Init, Locked
<1>4. TypeOK
  <2>1. nextId \in 1 .. MaxId + 1
    BY BoundsAssumption DEF Init
  <2>2. sweep \in [Procs -> Sweep] /\ role \in [Procs -> Roles]
    BY DEF Init, Sweep, NoSweep, Roles
  <2>3. QED
    BY <1>3, <2>1, <2>2 DEF Init, TypeOK, Locked
<1>5. Finite
  BY <1>2, <1>3 DEF Init, Finite, Locked
<1>6. IdsBelowNext
  BY <1>3 DEF Init, IdsBelowNext, Locked
<1>7. IdsNameOnePage
  BY DEF Init, IdsNameOnePage
<1>8. QED
  BY <1>4, <1>5, <1>6, <1>7 DEF IInv

LEMMA OpenKeeps ==
  ASSUME IInv, NEW p \in Procs, NEW r \in Roles, Open(p, r)
  PROVE  IInv'
<1>1. /\ docs \subseteq Doc /\ role \in [Procs -> Roles]
      /\ sweep \in [Procs -> Sweep] /\ Locked(conn, job, nextId)
  BY Parts
<1>2. role' \in [Procs -> Roles]
  BY <1>1 DEF Open
<1>3. sweep' \in [Procs -> Sweep]
  BY <1>1 DEF Open, Sweep, NoSweep, Begun
<1>4. Locked(conn', job', nextId)
  BY <1>1 DEF Open
<1>5. QED
  BY <1>2, <1>3, <1>4, DocsUnchanged DEF Open

LEMMA CloseKeeps ==
  ASSUME IInv, NEW p \in Procs, Close(p)
  PROVE  IInv'
<1>1. role \in [Procs -> Roles] /\ sweep \in [Procs -> Sweep] /\ Locked(conn, job, nextId)
  BY Parts
<1>2. role' \in [Procs -> Roles]
  BY <1>1 DEF Close, Roles
<1>3. sweep' \in [Procs -> Sweep]
  BY <1>1 DEF Close, Sweep, NoSweep
<1>4. conn' = [conn EXCEPT ![p] = NoConnection] /\ job' = [job EXCEPT ![p] = Idle]
  BY DEF Close
<1>5. Locked(conn', job', nextId)
  BY <1>1, <1>4, NoConnectionIsOne, IdleIsAJob, OwnKeeps
<1>6. QED
  BY <1>2, <1>3, <1>5, DocsUnchanged DEF Close

(* A write that begins, whatever comes of it. *)
LEMMA BeginKeeps ==
  ASSUME IInv, NEW p \in Procs, NEW j \in Job, CanWrite(p), Locks(p),
         j.pc = "insert" => j.doc \in Doc /\ j.doc.id = nextId,
         job' = [job EXCEPT ![p] = j],
         UNCHANGED <<docs, nextId, named, role, sweep>>
  PROVE  IInv'
<1>1. role \in [Procs -> Roles] /\ sweep \in [Procs -> Sweep] /\ Locked(conn, job, nextId)
  BY Parts
<1>2. Locked(conn', job', nextId)
  BY <1>1, LocksKeeps
<1>3. QED
  BY <1>1, <1>2, DocsUnchanged

(* A read, or a write that fails. *)
LEMMA AttemptKeeps ==
  ASSUME IInv, NEW p \in Procs, NEW j \in Job, Busy(p) \/ Reads(p),
         j.pc \in {"idle", "delete", "crawled"},
         job' = [job EXCEPT ![p] = j],
         UNCHANGED <<docs, nextId, named, role>>, sweep' \in [Procs -> Sweep]
  PROVE  IInv'
<1>1. role \in [Procs -> Roles] /\ Locked(conn, job, nextId) /\ docs \subseteq Doc /\ IsFiniteSet(docs)
  BY Parts
<1>2. PICK c \in Connection : /\ conn' = [conn EXCEPT ![p] = c] /\ IsFiniteSet(c.view)
                              /\ c.mode = "writing" => conn[p].mode = "writing"
  BY <1>1, BusyIsOwn, ReadsIsOwn
<1>3. Locked(conn', job', nextId)
  BY <1>1, <1>2, OwnKeeps
<1>4. QED
  BY <1>1, <1>3, DocsUnchanged

(* A sweep that ends, that goes on, and that a removal overtakes. *)
LEMMA SweepChanges ==
  ASSUME NEW w \in Sweep
  PROVE  /\ Ended(w) \in Sweep
         /\ \A S : Overtaken(w, S) \in Sweep /\ (Cardinality(S) \in Nat => Advanced(w, S) \in Sweep)
<1>1. Ended(w) \in Sweep
  BY DEF Sweep, Ended
<1>2. ASSUME NEW S PROVE Overtaken(w, S) \in Sweep
  <2>1. w.owed \ S \in SUBSET Doc
    BY DEF Sweep
  <2>2. QED
    BY <2>1 DEF Sweep, Overtaken
<1>3. ASSUME NEW S, Cardinality(S) \in Nat PROVE Advanced(w, S) \in Sweep
  <2>1. w.owed \ S \in SUBSET Doc
    BY DEF Sweep
  <2>2. w.offset + Cardinality(S) \in Nat
    BY <1>3 DEF Sweep
  <2>3. QED
    BY <2>1, <2>2 DEF Sweep, Advanced
<1>4. QED
  BY <1>1, <1>2, <1>3

(* A process that is not in the middle of a write stays so. *)
LEMMA FreeStays ==
  ASSUME IInv, NEW p \in Procs, Free(p)
  PROVE  [job EXCEPT ![p] = Idle] = job
<1>1. QED
  BY Parts DEF Locked, Free

LEMMA InsertKeeps ==
  ASSUME IInv, NEW p \in Procs, NEW page \in Pages, Insert(p, page)
  PROVE  IInv'
<1>1. DEFINE j == [pc |-> "insert", doc |-> [id |-> nextId, page |-> page]]
<1>2. nextId \in 1 .. MaxId
  BY BoundsAssumption DEF Insert, NextId, IInv, TypeOK
<1>3. j.doc \in Doc
  BY <1>2 DEF Doc
<1>4. j \in Job
  BY <1>3 DEF Job
<1>5. job' = [job EXCEPT ![p] = j]
  BY DEF Insert, NextId
<1>6. CanWrite(p) /\ Locks(p) /\ UNCHANGED <<docs, nextId, named, role, sweep>>
  BY DEF Insert
<1>7. j.doc.id = nextId
  OBVIOUS
<1>8. QED
  BY <1>3, <1>4, <1>5, <1>6, <1>7, BeginKeeps

LEMMA RefuseKeeps ==
  ASSUME IInv, NEW p \in Procs, NEW page \in Pages, Refuse(p, page)
  PROVE  IInv'
<1>1. CanWrite(p) /\ Locks(p) /\ UNCHANGED <<docs, nextId, named, role, sweep>>
  BY DEF Refuse
<1>2. job' = [job EXCEPT ![p] = Idle]
  BY FreeStays DEF Refuse
<1>3. QED
  BY <1>1, <1>2, IdleIsAJob, BeginKeeps

LEMMA InsertBusyKeeps ==
  ASSUME IInv, NEW p \in Procs, InsertBusy(p)
  PROVE  IInv'
<1>1. CASE role[p] = "import"
  BY <1>1, CloseKeeps DEF InsertBusy
<1>2. CASE role[p] # "import"
  <2>1. Busy(p) /\ UNCHANGED <<docs, nextId, named, role, job, sweep>>
    BY <1>2 DEF InsertBusy
  <2>2. job' = [job EXCEPT ![p] = Idle]
    BY <2>1, FreeStays DEF InsertBusy
  <2>3. sweep' \in [Procs -> Sweep]
    BY <2>1, Parts
  <2>4. QED
    BY <2>1, <2>2, <2>3, IdleIsAJob, AttemptKeeps
<1>3. QED
  BY <1>1, <1>2

(* The id that is given out is new: it is the next one, and no other       *)
(* process is in an insert.                                                *)
LEMMA CommitInsertKeeps ==
  ASSUME IInv, NEW p \in Procs, CommitInsert(p)
  PROVE  IInv'
<1> DEFINE d == job[p].doc
<1>1. d \in Doc /\ d.id = nextId /\ conn[p].mode = "writing"
  BY DEF IInv, IdsBelowNext, TypeOK, CommitInsert
<1>2. docs' = docs \cup {d} /\ named' = named \cup {d} /\ nextId' = d.id + 1
  BY DEF CommitInsert
<1>3. Locked(conn', job', nextId')
  BY <1>1, Parts, CommitKeeps DEF CommitInsert
<1>4. TypeOK'
  <2>1. nextId' \in 1 .. MaxId + 1
    BY <1>1, <1>2, BoundsAssumption DEF Doc
  <2>2. docs' \subseteq Doc /\ named' \subseteq Doc
    BY <1>1, <1>2 DEF IInv, TypeOK
  <2>3. role' \in [Procs -> Roles] /\ sweep' \in [Procs -> Sweep]
    BY DEF CommitInsert, IInv, TypeOK
  <2>4. QED
    BY <1>3, <2>1, <2>2, <2>3 DEF TypeOK, Locked
<1>5. Finite'
  <2>1. IsFiniteSet(docs')
    BY <1>2, Parts, FS_AddElement
  <2>2. QED
    BY <1>3, <2>1 DEF Finite, Locked
<1>6. IdsBelowNext'
  <2>1. \A e \in named' : e.id < nextId'
    BY <1>1, <1>2 DEF IInv, IdsBelowNext, TypeOK, Doc
  <2>2. QED
    BY <1>3, <2>1 DEF IdsBelowNext, Locked
<1>7. IdsNameOnePage'
  <2>1. \A e \in named : e.id # d.id
    BY <1>1 DEF IInv, IdsBelowNext, TypeOK, Doc
  <2>2. QED
    BY <1>2, <2>1 DEF IInv, IdsNameOnePage
<1>8. QED
  BY <1>4, <1>5, <1>6, <1>7 DEF IInv

LEMMA FindKeeps ==
  ASSUME IInv, NEW p \in Procs, NEW d, Find(p, d)
  PROVE  IInv'
<1>1. d \in Doc
  BY DEF Find, View, IInv, TypeOK, Connection
<1>2. [pc |-> "delete", doc |-> d] \in Job
  BY <1>1 DEF Job
<1>3. sweep' \in [Procs -> Sweep]
  BY Parts DEF Find
<1>4. QED
  BY <1>2, <1>3, AttemptKeeps DEF Find

LEMMA SearchKeeps ==
  ASSUME IInv, NEW p \in Procs, Search(p)
  PROVE  IInv'
<1>1. job' = [job EXCEPT ![p] = Idle]
  BY FreeStays DEF Search
<1>2. sweep' \in [Procs -> Sweep]
  BY Parts DEF Search
<1>3. QED
  BY <1>1, <1>2, IdleIsAJob, AttemptKeeps DEF Search

LEMMA DeleteKeeps ==
  ASSUME IInv, NEW p \in Procs, Delete(p)
  PROVE  IInv'
<1>1. job[p] \in Job /\ job[p].pc = "delete"
  BY DEF Delete, IInv, TypeOK
<1>2. PICK j \in Job : j.pc # "insert" /\ job' = [job EXCEPT ![p] = j]
  <2>1. [job[p] EXCEPT !.pc = "erase"] \in Job /\ [job[p] EXCEPT !.pc = "erase"].pc = "erase"
    BY <1>1 DEF Job
  <2>2. QED
    BY <2>1, IdleIsAJob DEF Delete
<1>3. QED
  BY <1>2, BeginKeeps DEF Delete

LEMMA DeleteBusyKeeps ==
  ASSUME IInv, NEW p \in Procs, DeleteBusy(p)
  PROVE  IInv'
<1>1. sweep' \in [Procs -> Sweep]
  BY Parts DEF DeleteBusy
<1>2. QED
  BY <1>1, IdleIsAJob, AttemptKeeps DEF DeleteBusy

LEMMA CommitDeleteKeeps ==
  ASSUME IInv, NEW p \in Procs, CommitDelete(p)
  PROVE  IInv'
<1> DEFINE gone == {d \in docs : d.id = job[p].doc.id}
<1>1. conn[p].mode = "writing"
  BY DEF CommitDelete, IInv, TypeOK
<1>2. docs' = docs \ gone /\ UNCHANGED <<nextId, named, role>>
  BY DEF CommitDelete
<1>3. Locked(conn', job', nextId)
  BY <1>1, Parts, CommitKeeps DEF CommitDelete
<1>4. sweep' \in [Procs -> Sweep]
  <2>1. sweep' = [q \in Procs |-> IF sweep[q].on THEN Overtaken(sweep[q], gone) ELSE sweep[q]]
    BY DEF CommitDelete
  <2>2. QED
    BY <2>1, Parts, SweepChanges
<1>5. TypeOK'
  BY <1>2, <1>3, <1>4 DEF IInv, TypeOK, Locked
<1>6. Finite'
  <2>1. IsFiniteSet(docs')
    BY <1>2, Parts, FS_Subset
  <2>2. QED
    BY <1>3, <2>1 DEF Finite, Locked
<1>7. IdsBelowNext'
  BY <1>2, <1>3 DEF IInv, IdsBelowNext, Locked
<1>8. IdsNameOnePage'
  BY <1>2 DEF IInv, IdsNameOnePage
<1>9. QED
  BY <1>5, <1>6, <1>7, <1>8 DEF IInv

LEMMA CrawledKeeps ==
  ASSUME IInv, NEW p \in Procs, Crawled(p)
  PROVE  IInv'
<1>1. PICK ended \in Job : ended.pc = "crawled" /\ job' = [job EXCEPT ![p] = ended]
  BY DEF Crawled, Job
<1>2. UNCHANGED <<docs, nextId, named, role, conn, sweep>>
  BY DEF Crawled
<1>3. Locked(conn, job, nextId)
  BY Parts
<1>4. conn' = [conn EXCEPT ![p] = conn[p]] /\ conn[p] \in Connection /\ IsFiniteSet(conn[p].view)
  BY <1>2, <1>3 DEF Locked
<1>5. Locked(conn', job', nextId)
  BY <1>1, <1>3, <1>4, OwnKeeps
<1>6. QED
  BY <1>2, <1>5, Parts, DocsUnchanged

LEMMA OptimizeKeeps ==
  ASSUME IInv, NEW p \in Procs, Optimize(p)
  PROVE  IInv'
<1>1. CASE CanWrite(p)
  <2>1. [job[p] EXCEPT !.pc = "merge"] \in Job /\ [job[p] EXCEPT !.pc = "merge"].pc = "merge"
    BY DEF IInv, TypeOK, Job
  <2>2. job' = [job EXCEPT ![p] = [job[p] EXCEPT !.pc = "merge"]] /\ Locks(p)
    BY <1>1 DEF Optimize
  <2>3. QED
    BY <1>1, <2>1, <2>2, BeginKeeps DEF Optimize
<1>2. CASE ~CanWrite(p)
  <2>1. Busy(p) /\ job' = [job EXCEPT ![p] = Idle]
    BY <1>2, FreeStays DEF Optimize
  <2>2. sweep' \in [Procs -> Sweep]
    BY Parts DEF Optimize
  <2>3. QED
    BY <2>1, <2>2, IdleIsAJob, AttemptKeeps DEF Optimize
<1>3. QED
  BY <1>1, <1>2

LEMMA CommitMergeKeeps ==
  ASSUME IInv, NEW p \in Procs, CommitMerge(p)
  PROVE  IInv'
<1>1. conn[p].mode = "writing"
  BY DEF CommitMerge, IInv, TypeOK
<1>2. Locked(conn', job', nextId)
  BY <1>1, Parts, CommitKeeps DEF CommitMerge
<1>3. QED
  BY <1>2, Parts, DocsUnchanged DEF CommitMerge

LEMMA RepublishKeeps ==
  ASSUME IInv, NEW p \in Procs, Republish(p)
  PROVE  IInv'
<1> DEFINE page == Window(View(p), sweep[p].offset)
<1>1. Cardinality(page) \in Nat
  <2>1. IsFiniteSet(View(p))
    BY DEF View, IInv, Finite
  <2>2. IsFiniteSet(page)
    BY <2>1, FS_Subset DEF Window
  <2>3. QED
    BY <2>2, FS_CardinalityType
<1>2. sweep \in [Procs -> Sweep]
  BY Parts
<1>3. PICK w \in Sweep : sweep' = [sweep EXCEPT ![p] = w]
  <2>1. sweep' = [sweep EXCEPT ![p] = IF page = {} THEN Ended(sweep[p]) ELSE Advanced(sweep[p], page)]
    BY DEF Republish
  <2>2. QED
    BY <1>1, <1>2, <2>1, SweepChanges
<1>4. sweep' \in [Procs -> Sweep]
  BY <1>2, <1>3
<1>5. job' = [job EXCEPT ![p] = Idle]
  BY FreeStays DEF Republish
<1>6. QED
  BY <1>4, <1>5, IdleIsAJob, AttemptKeeps DEF Republish

LEMMA StepKeeps == IInv /\ [Next]_vars => IInv'
<1>1. ASSUME IInv, UNCHANGED vars PROVE IInv'
  BY <1>1, Parts, DocsUnchanged DEF vars
<1>2. ASSUME IInv, NEW p \in Procs, Step(p) PROVE IInv'
  <2>1. CASE \E r \in Roles \ {"none"} : Open(p, r)
    BY <1>2, <2>1, OpenKeeps
  <2>2. CASE Close(p)
    BY <1>2, <2>2, CloseKeeps
  <2>3. CASE \E page \in Pages : Insert(p, page) \/ Refuse(p, page)
    BY <1>2, <2>3, InsertKeeps, RefuseKeeps
  <2>4. CASE InsertBusy(p) \/ CommitInsert(p)
    BY <1>2, <2>4, InsertBusyKeeps, CommitInsertKeeps
  <2>5. CASE Search(p) \/ \E d \in docs \cup conn[p].view : Find(p, d)
    BY <1>2, <2>5, SearchKeeps, FindKeeps
  <2>6. CASE Delete(p) \/ DeleteBusy(p) \/ CommitDelete(p)
    BY <1>2, <2>6, DeleteKeeps, DeleteBusyKeeps, CommitDeleteKeeps
  <2>7. CASE Crawled(p) \/ Optimize(p) \/ CommitMerge(p)
    BY <1>2, <2>7, CrawledKeeps, OptimizeKeeps, CommitMergeKeeps
  <2>8. CASE Republish(p)
    BY <1>2, <2>8, RepublishKeeps
  <2>9. QED
    BY <1>2, <2>1, <2>2, <2>3, <2>4, <2>5, <2>6, <2>7, <2>8 DEF Step
<1>3. QED
  BY <1>1, <1>2 DEF Next

LEMMA Inductive == Spec => []IInv
<1>1. QED
  BY InitInvariant, StepKeeps, PTL DEF Spec

(* Documents, connections and jobs are of their type, one process at a     *)
(* time has the write lock, and one in the middle of a write has it, for   *)
(* any processes and pages (add_document, delete_document, optimize).      *)
THEOREM TypeCorrect == Spec => []TypeOK
<1>1. IInv => TypeOK
  BY DEF IInv
<1>2. QED
  BY <1>1, Inductive, PTL

(* A doc_id never names another page than the one it was given to, for any *)
(* number of processes that insert, are refused, time out, remove and are  *)
(* killed (add_document, delete_document).                                 *)
THEOREM IdsAreKept == Spec => []IdsNameOnePage
<1>1. IInv => IdsNameOnePage
  BY DEF IInv
<1>2. QED
  BY <1>1, Inductive, PTL

-----------------------------------------------------------------------------
(* Paging by OFFSET: the rank of a document among those that are read.     *)

Before(S, d) == {e \in S : e.id < d.id}
Rank(S, d) == Cardinality(Before(S, d))
IdsDiffer(S) == \A d, e \in S : d.id = e.id => d = e

Docs(S) == S \subseteq Doc /\ IsFiniteSet(S)

\* A rank is a number, below the number of documents for one of them.
LEMMA RankIs ==
  ASSUME NEW S, Docs(S), NEW d
  PROVE  /\ IsFiniteSet(Before(S, d)) /\ Rank(S, d) \in Nat
         /\ d \in S => Rank(S, d) < Cardinality(S)
<1>1. Before(S, d) \in SUBSET S /\ IsFiniteSet(S)
  BY DEF Before, Docs
<1>2. IsFiniteSet(Before(S, d)) /\ Rank(S, d) \in Nat
  BY <1>1, FS_Subset, FS_CardinalityType DEF Rank
<1>3. ASSUME d \in S PROVE Rank(S, d) < Cardinality(S)
  <2>1. d \notin Before(S, d)
    BY <1>3 DEF Before, Docs, Doc
  <2>2. Before(S, d) \in SUBSET (S \ {d})
    BY <1>1, <2>1
  <2>3. IsFiniteSet(S \ {d}) /\ Cardinality(S \ {d}) = Cardinality(S) - 1
    BY <1>1, <1>3, FS_RemoveElement
  <2>4. Rank(S, d) <= Cardinality(S \ {d})
    BY <2>2, <2>3, FS_Subset DEF Rank
  <2>5. Cardinality(S) \in Nat
    BY <1>1, FS_CardinalityType
  <2> QED BY <1>2, <2>3, <2>4, <2>5
<1> QED BY <1>2, <1>3

\* A document with a greater id has a greater rank.
LEMMA RankGrows ==
  ASSUME NEW S, Docs(S), NEW d \in S, NEW e \in S, d.id < e.id
  PROVE  Rank(S, d) < Rank(S, e)
<1>1. Docs(Before(S, e))
  BY RankIs DEF Docs, Before
<1>2. d \in Before(S, e)
  BY DEF Before
<1>3. Before(Before(S, e), d) = Before(S, d)
  BY DEF Before, Docs, Doc
<1>4. Rank(Before(S, e), d) < Cardinality(Before(S, e))
  BY <1>1, <1>2, RankIs
<1> QED BY <1>3, <1>4 DEF Rank

\* No more documents than ranks.
LEMMA RanksBound ==
  ASSUME NEW S, Docs(S), IdsDiffer(S), NEW L \in SUBSET S, NEW a \in Nat, NEW n \in Nat,
         \A d \in L : a <= Rank(S, d) /\ Rank(S, d) < a + n
  PROVE  Cardinality(L) <= n
<1> DEFINE f == [d \in L |-> Rank(S, d)]
           T == a .. a + n - 1
<1>1. IsFiniteSet(T) /\ Cardinality(T) = n
  <2>1. a \in Int /\ a + n - 1 \in Int
    OBVIOUS
  <2>2. IsFiniteSet(T) /\ Cardinality(T) = IF a > a + n - 1 THEN 0 ELSE (a + n - 1) - a + 1
    BY <2>1, FS_Interval
  <2> HIDE DEF T
  <2> QED BY <2>2
<1>2. f \in [L -> T]
  <2> SUFFICES ASSUME NEW d \in L PROVE Rank(S, d) \in T
    OBVIOUS
  <2>1. Rank(S, d) \in Nat
    BY RankIs
  <2> QED BY <2>1
<1>3. ASSUME NEW d \in L, NEW e \in L, f[d] = f[e] PROVE d = e
  <2>1. Rank(S, d) = Rank(S, e) /\ Rank(S, d) \in Nat /\ d \in S /\ e \in S
    BY <1>3, RankIs
  <2>2. d.id \in Nat /\ e.id \in Nat
    BY <2>1, BoundsAssumption DEF Docs, Doc
  <2>3. ~(d.id < e.id) /\ ~(e.id < d.id)
    BY <2>1, RankGrows
  <2> QED BY <2>1, <2>2, <2>3 DEF IdsDiffer
<1> HIDE DEF f, T
<1>4. f \in Injection(L, T)
  BY <1>2, <1>3 DEF Injection, IsInjective
<1> QED BY <1>1, <1>4, FS_Injection

\* A page is as long as batch_size at most, and only the last is empty.
LEMMA PageIs ==
  ASSUME NEW S, Docs(S), IdsDiffer(S), NEW o \in Nat
  PROVE  /\ Cardinality(Window(S, o)) \in Nat /\ Cardinality(Window(S, o)) <= Batch
         /\ \A d \in S : d \in Window(S, o) <=> o <= Rank(S, d) /\ Rank(S, d) < o + Batch
<1> DEFINE page == Window(S, o)
<1>1. Batch \in Nat \ {0}
  BY BoundsAssumption
<1>2. page \subseteq S /\ \A d \in S : d \in page <=> Rank(S, d) \in o .. o + Batch - 1
  BY DEF Window, Rank, Before
<1> HIDE DEF page
<1>3. \A d \in S : d \in page <=> o <= Rank(S, d) /\ Rank(S, d) < o + Batch
  BY <1>1, <1>2, RankIs
<1>4. Cardinality(page) <= Batch
  BY <1>1, <1>2, <1>3, RanksBound
<1>5. Cardinality(page) \in Nat
  BY <1>2, FS_Subset, FS_CardinalityType DEF Docs
<1> QED BY <1>3, <1>4, <1>5 DEF page

\* The page that is shorter than batch_size is the end: the rest have been passed.
LEMMA LastPage ==
  ASSUME NEW S, Docs(S), IdsDiffer(S), NEW o \in Nat, Window(S, o) = {}, NEW d \in S
  PROVE  Rank(S, d) < o
<1> SUFFICES ASSUME ~(Rank(S, d) < o) PROVE FALSE
  OBVIOUS
<1> DEFINE high == {e \in S : o <= Rank(S, e)}
           low == S \ high
           n == Cardinality(S) - 1 - o
<1>0. Batch \in Nat \ {0} /\ Cardinality(S) \in Nat /\ \A e \in S : Rank(S, e) \in Nat
  BY BoundsAssumption, RankIs, FS_CardinalityType DEF Docs
<1>1. \A e \in high : o + 1 <= Rank(S, e) /\ Rank(S, e) < Cardinality(S)
  <2> SUFFICES ASSUME NEW e \in high
               PROVE  o + 1 <= Rank(S, e) /\ Rank(S, e) < Cardinality(S)
    OBVIOUS
  <2>1. ~(Rank(S, e) < o + Batch) /\ o <= Rank(S, e)
    BY PageIs
  <2>2. Rank(S, e) < Cardinality(S)
    BY RankIs
  <2> QED BY <1>0, <2>1, <2>2
<1>2. d \in high
  BY <1>0
<1>3. n \in Nat /\ Cardinality(S) = (o + 1) + n
  BY <1>0, <1>1, <1>2
<1>4. high \in SUBSET S /\ low \in SUBSET S
  OBVIOUS
<1>5. \A e \in low : 0 <= Rank(S, e) /\ Rank(S, e) < 0 + o
  BY <1>0
<1> HIDE DEF n
<1>6. \A e \in high : o + 1 <= Rank(S, e) /\ Rank(S, e) < (o + 1) + n
  BY <1>1, <1>3
<1> HIDE DEF high
<1>7. Cardinality(high) <= n
  <2>1. o + 1 \in Nat
    OBVIOUS
  <2> QED BY <1>3, <1>4, <1>6, <2>1, RanksBound
<1>8. Cardinality(low) <= o
  <2>1. 0 \in Nat
    OBVIOUS
  <2> QED BY <1>4, <1>5, <2>1, RanksBound
<1>9. Cardinality(low) = Cardinality(S) - Cardinality(high) /\ Cardinality(high) \in Nat
  <2>1. S \cap high = high
    BY <1>4
  <2> QED BY <1>4, <2>1, FS_Difference, FS_Subset, FS_CardinalityType DEF Docs
<1> QED BY <1>0, <1>3, <1>7, <1>8, <1>9

\* Whoever reads other documents finds those of the first that are left at most
\* as many ranks lower as there were removed.
LEMMA RankFalls ==
  ASSUME NEW S, Docs(S), NEW D, Docs(D), NEW d
  PROVE  Rank(S, d) <= Rank(D, d) + Cardinality(S \ D)
<1>1. /\ IsFiniteSet(Before(D, d)) /\ IsFiniteSet(S \ D)
      /\ Rank(D, d) \in Nat /\ Rank(S, d) \in Nat
      /\ Cardinality(S \ D) \in Nat
  BY RankIs, FS_Difference, FS_CardinalityType DEF Docs
<1> DEFINE both == Before(D, d) \cup (S \ D)
           common == Before(D, d) \cap (S \ D)
<1>2. /\ IsFiniteSet(both)
      /\ Cardinality(both) = Rank(D, d) + Cardinality(S \ D) - Cardinality(common)
  BY <1>1, FS_Union DEF Rank
<1>3. Cardinality(common) \in Nat
  BY <1>1, FS_Intersection, FS_CardinalityType
<1>4. Before(S, d) \in SUBSET both
  BY DEF Before
<1> HIDE DEF both, common
<1>5. Rank(S, d) <= Cardinality(both)
  BY <1>2, <1>4, FS_Subset DEF Rank
<1> QED BY <1>1, <1>2, <1>3, <1>5

\* So a removal takes at most one of them past the offset.
LEMMA PassedGrow ==
  ASSUME NEW S, Docs(S), IdsDiffer(S), NEW D, Docs(D), NEW W \in SUBSET S, NEW o \in Nat
  PROVE  Cardinality({d \in W : Rank(D, d) < o})
           <= Cardinality({d \in W : Rank(S, d) < o}) + Cardinality(S \ D)
<1> DEFINE k == Cardinality(S \ D)
           then == {d \in W : Rank(D, d) < o}
           now == {d \in W : Rank(S, d) < o}
           more == {d \in W : o <= Rank(S, d) /\ Rank(S, d) < o + k}
<1>1. k \in Nat /\ IsFiniteSet(W)
  BY FS_Difference, FS_CardinalityType, FS_Subset DEF Docs
<1>2. then \in SUBSET (now \cup more)
  <2> SUFFICES ASSUME NEW d \in W, Rank(D, d) < o, ~(Rank(S, d) < o)
               PROVE  o <= Rank(S, d) /\ Rank(S, d) < o + k
    OBVIOUS
  <2>1. Rank(S, d) <= Rank(D, d) + k
    BY RankFalls
  <2>2. Rank(S, d) \in Nat /\ Rank(D, d) \in Nat
    BY RankIs
  <2> HIDE DEF k
  <2> QED BY <1>1, <2>1, <2>2
<1> HIDE DEF k
<1>3. Cardinality(more) <= k
  <2>1. more \in SUBSET S /\ \A d \in more : o <= Rank(S, d) /\ Rank(S, d) < o + k
    OBVIOUS
  <2> HIDE DEF more
  <2> QED BY <1>1, <2>1, RanksBound
<1>4. now \in SUBSET W /\ more \in SUBSET W
  OBVIOUS
<1> HIDE DEF then, now, more
<1>5. /\ IsFiniteSet(now) /\ IsFiniteSet(more)
      /\ Cardinality(now) \in Nat /\ Cardinality(more) \in Nat
  BY <1>1, <1>4, FS_Subset, FS_CardinalityType
<1>6. /\ IsFiniteSet(now \cup more)
      /\ Cardinality(now \cup more) = Cardinality(now) + Cardinality(more) - Cardinality(now \cap more)
  BY <1>5, FS_Union
<1>7. Cardinality(now \cap more) \in Nat
  BY <1>5, FS_Intersection, FS_CardinalityType
<1>8. Cardinality(then) \in Nat /\ Cardinality(then) <= Cardinality(now \cup more)
  BY <1>2, <1>6, FS_Subset, FS_CardinalityType
<1>9. Cardinality(then) <= Cardinality(now) + k
  BY <1>1, <1>3, <1>5, <1>6, <1>7, <1>8
<1> QED BY <1>9 DEF then, now, k

-----------------------------------------------------------------------------
(* republish_local_index: what it may still skip.                          *)

\* The documents owed are there and are read, and those that the offset has
\* passed, with those a snapshot will still show, are no more than removals.
Fair(w, S, D) ==
  /\ w.owed \subseteq S /\ w.owed \subseteq D
  /\ Cardinality({d \in w.owed : Rank(S, d) < w.offset}) + Cardinality(S \ D) <= w.removed

\* Insertions, removals and the end of a snapshot.
LEMMA FairKept ==
  ASSUME NEW S, NEW D, NEW T, Docs(S), Docs(D), Docs(T), IdsDiffer(S),
         NEW w \in Sweep, NEW v \in Sweep, Fair(w, S, D),
         v.owed \subseteq w.owed, v.owed \subseteq T, v.offset = w.offset,
         w.removed + Cardinality(D \ T) <= v.removed,
         NEW R, R = S \/ R = T
  PROVE  Fair(v, R, T)
<1> DEFINE o == w.offset
           passed == {d \in w.owed : Rank(S, d) < o}
           still == {d \in v.owed : Rank(R, d) < o}
<1>0. o \in Nat /\ w.removed \in Nat /\ v.removed \in Nat /\ IsFiniteSet(w.owed)
  BY FS_Subset DEF Sweep, Fair, Docs
<1>1. /\ Cardinality(passed) \in Nat /\ Cardinality(S \ D) \in Nat
      /\ Cardinality(D \ T) \in Nat /\ Cardinality(S \ T) \in Nat
      /\ IsFiniteSet(S \ D) /\ IsFiniteSet(D \ T) /\ IsFiniteSet(passed)
  <2>1. passed \in SUBSET w.owed
    OBVIOUS
  <2> QED BY <1>0, <2>1, FS_Subset, FS_Difference, FS_CardinalityType DEF Docs
<1>2. Cardinality(S \ T) <= Cardinality(S \ D) + Cardinality(D \ T)
  <2> DEFINE both == (S \ D) \cup (D \ T)
             common == (S \ D) \cap (D \ T)
  <2>1. S \ T \in SUBSET both
    OBVIOUS
  <2>2. IsFiniteSet(both) /\ Cardinality(both) = Cardinality(S \ D) + Cardinality(D \ T) - Cardinality(common)
    BY <1>1, FS_Union
  <2>3. Cardinality(common) \in Nat
    BY <1>1, FS_Intersection, FS_CardinalityType
  <2> HIDE DEF both, common
  <2>4. Cardinality(S \ T) <= Cardinality(both)
    BY <2>1, <2>2, FS_Subset
  <2> QED BY <1>1, <2>2, <2>3, <2>4
<1>3. Cardinality(passed) + Cardinality(S \ D) <= w.removed
  BY DEF Fair
<1>4. Cardinality(passed) + Cardinality(S \ T) <= v.removed
  <2> HIDE DEF passed
  <2> QED BY <1>0, <1>1, <1>2, <1>3
<1>5. v.owed \subseteq R
  BY DEF Fair
<1>6. Cardinality(still) \in Nat /\ Cardinality(still) + Cardinality(R \ T) <= v.removed
  <2>1. CASE R = S
    <3>1. still \in SUBSET passed
      BY <2>1
    <3>2. Cardinality(still) \in Nat /\ Cardinality(still) <= Cardinality(passed)
      BY <1>1, <3>1, FS_Subset, FS_CardinalityType
    <3> HIDE DEF still, passed
    <3> QED BY <1>0, <1>1, <1>4, <2>1, <3>2
  <2>2. CASE R = T
    <3> DEFINE after == {d \in w.owed : Rank(T, d) < o}
    <3>1. w.owed \in SUBSET S
      BY DEF Fair
    <3>2. Cardinality(after) <= Cardinality(passed) + Cardinality(S \ T)
      BY <1>0, <3>1, PassedGrow
    <3>3. still \in SUBSET after /\ after \in SUBSET w.owed
      BY <2>2
    <3>4. IsFiniteSet(after) /\ Cardinality(after) \in Nat
      BY <1>0, <3>3, FS_Subset, FS_CardinalityType
    <3>5. Cardinality(still) \in Nat /\ Cardinality(still) <= Cardinality(after)
      BY <3>3, <3>4, FS_Subset, FS_CardinalityType
    <3>6. Cardinality(R \ T) = 0
      <4>1. R \ T = {}
        BY <2>2
      <4> QED BY <4>1, FS_EmptySet
    <3> HIDE DEF still, passed, after
    <3> QED BY <1>0, <1>1, <1>4, <3>2, <3>4, <3>5, <3>6
  <2> QED BY <2>1, <2>2
<1> QED BY <1>5, <1>6 DEF Fair

\* A page that is published.
LEMMA FairAdvances ==
  ASSUME NEW S, NEW D, Docs(S), Docs(D), IdsDiffer(S), NEW w \in Sweep, Fair(w, S, D)
  PROVE  /\ Advanced(w, Window(S, w.offset)) \in Sweep
         /\ Fair(Advanced(w, Window(S, w.offset)), S, D)
<1> DEFINE o == w.offset
           page == Window(S, o)
           v == Advanced(w, page)
           passed == {d \in w.owed : Rank(S, d) < o}
           now == {d \in v.owed : Rank(S, d) < v.offset}
<1>0. o \in Nat /\ w.removed \in Nat /\ IsFiniteSet(w.owed) /\ Batch \in Nat
  BY BoundsAssumption, FS_Subset DEF Sweep, Fair, Docs
<1>1. /\ Cardinality(page) \in Nat /\ Cardinality(page) <= Batch
      /\ \A d \in S : d \in page <=> o <= Rank(S, d) /\ Rank(S, d) < o + Batch
  BY <1>0, PageIs
<1>2. v \in Sweep
  BY <1>1, SweepChanges
<1>3. v.owed = w.owed \ page /\ v.offset = o + Cardinality(page) /\ v.removed = w.removed
  BY DEF Advanced
<1> HIDE DEF page, v
<1>4. now \in SUBSET passed
  <2> SUFFICES ASSUME NEW d \in w.owed, d \notin page, Rank(S, d) < o + Cardinality(page)
               PROVE  Rank(S, d) < o
    BY <1>3
  <2>1. d \in S /\ Rank(S, d) \in Nat
    BY RankIs DEF Fair
  <2> QED BY <1>0, <1>1, <2>1
<1>5. passed \in SUBSET w.owed
  OBVIOUS
<1>6. Cardinality(passed) + Cardinality(S \ D) <= w.removed
  BY DEF Fair
<1>7. Cardinality(S \ D) \in Nat
  BY FS_Difference, FS_CardinalityType DEF Docs
<1> HIDE DEF now, passed
<1>8. /\ Cardinality(passed) \in Nat
      /\ Cardinality(now) \in Nat /\ Cardinality(now) <= Cardinality(passed)
  BY <1>0, <1>4, <1>5, FS_Subset, FS_CardinalityType
<1>9. Cardinality(now) + Cardinality(S \ D) <= v.removed
  BY <1>0, <1>3, <1>6, <1>7, <1>8
<1>10. Fair(v, S, D)
  BY <1>3, <1>9 DEF Fair, now
<1> QED BY <1>2, <1>10 DEF v, page

\* At the end the offset has passed all.
LEMMA FairEnds ==
  ASSUME NEW S, NEW D, Docs(S), Docs(D), IdsDiffer(S), NEW w \in Sweep, Fair(w, S, D),
         Window(S, w.offset) = {}
  PROVE  Cardinality(w.owed) <= w.removed
<1>0. w.offset \in Nat /\ w.removed \in Nat /\ IsFiniteSet(w.owed)
  BY FS_Subset DEF Sweep, Fair, Docs
<1>1. \A d \in w.owed : Rank(S, d) < w.offset
  BY <1>0, LastPage DEF Fair
<1>2. {d \in w.owed : Rank(S, d) < w.offset} = w.owed
  BY <1>1
<1>3. Cardinality(w.owed) + Cardinality(S \ D) <= w.removed
  BY <1>2 DEF Fair
<1>4. Cardinality(w.owed) \in Nat /\ Cardinality(S \ D) \in Nat
  BY <1>0, FS_Difference, FS_CardinalityType DEF Docs
<1> QED BY <1>0, <1>3, <1>4

-----------------------------------------------------------------------------
(* What a process reads is what is there or what was there when its        *)
(* snapshot was taken.                                                     *)

Paged ==
  \A p \in Procs :
    /\ sweep[p].on => Fair(sweep[p], View(p), docs)
    /\ View(p) \subseteq named
    /\ role[p] = "none" => conn[p].mode = "auto" /\ job[p].pc = "idle"

\* A step leaves a process its snapshot or ends it.
LEMMA ViewMoves ==
  ASSUME IInv, NEW p \in Procs, Step(p), NEW q \in Procs
  PROVE  View(q)' = View(q) \/ View(q)' = docs'
<1>0. conn \in [Procs -> Connection]
  BY DEF IInv, TypeOK
<1>1. \/ conn' = conn
      \/ conn' = [conn EXCEPT ![p] = NoConnection] \/ conn' = Committed(p)
      \/ Locks(p) \/ Busy(p)
      \/ Reads(p) /\ docs' = docs
  BY DEF Step, Open, Close, Insert, Refuse, InsertBusy, CommitInsert, Search, Find, Delete,
         DeleteBusy, CommitDelete, Crawled, Optimize, CommitMerge, Republish
<1>2. CASE conn' = conn
  BY <1>2 DEF View
<1>3. CASE conn' = [conn EXCEPT ![p] = NoConnection]
  BY <1>0, <1>3, NoConnectionIsOne DEF View
<1>4. CASE conn' = Committed(p)
  <2>1. conn'[q] = NoConnection \/ (conn'[q].mode = conn[q].mode /\ conn'[q].view = conn[q].view)
    BY <1>0, <1>4 DEF Committed, Connection
  <2> QED BY <2>1, NoConnectionIsOne DEF View
<1>5. CASE Locks(p)
  <2>1. conn'[q].mode = "writing" \/ conn'[q] = conn[q]
    BY <1>0, <1>5 DEF Locks, Connection
  <2> QED BY <2>1 DEF View
<1>6. CASE Busy(p)
  <2>1. conn'[q].mode = "open" \/ conn'[q] = conn[q]
    <3>1. conn' = [conn EXCEPT ![p] = [conn[p] EXCEPT !.mode = IF conn[p].mode = "auto" THEN "open" ELSE conn[p].mode]]
      BY <1>6 DEF Busy
    <3>2. [conn[p] EXCEPT !.mode = conn[p].mode] = conn[p]
      BY <1>0 DEF Connection
    <3>3. [conn[p] EXCEPT !.mode = "open"].mode = "open"
      BY <1>0 DEF Connection
    <3> QED BY <1>0, <3>1, <3>2, <3>3
  <2> QED BY <2>1 DEF View
<1>7. CASE Reads(p) /\ docs' = docs
  <2>1. conn'[q] = conn[q] \/ (conn'[q].mode = "reading" /\ conn'[q].view = docs)
    BY <1>0, <1>7 DEF Reads
  <2> QED BY <1>7, <2>1 DEF View
<1> QED BY <1>1, <1>2, <1>3, <1>4, <1>5, <1>6, <1>7

\* What a step takes from the documents, and what it does to the sweeps.
LEMMA SweepMoves ==
  ASSUME IInv, NEW p \in Procs, Step(p)
  PROVE  \/ docs \subseteq docs' /\ sweep' = sweep
         \/ /\ docs' = docs /\ sweep' = [sweep EXCEPT ![p] = NoSweep]
         \/ /\ docs' = docs /\ role[p] = "none" /\ View(p)' = View(p)
            /\ sweep' = [sweep EXCEPT ![p] = Begun]
         \/ /\ docs' = docs /\ Republish(p)
         \/ \E gone \in SUBSET docs :
              /\ Cardinality(gone) <= 1 /\ docs' = docs \ gone
              /\ sweep' = [q \in Procs |-> IF sweep[q].on THEN Overtaken(sweep[q], gone) ELSE sweep[q]]
<1>1. CASE \E r \in Roles \ {"none"} : Open(p, r)
  BY <1>1 DEF Open, View
<1>2. CASE Close(p) \/ InsertBusy(p)
  BY <1>2 DEF Close, InsertBusy
<1>3. CASE CommitDelete(p)
  <2> DEFINE gone == {d \in docs : d.id = job[p].doc.id}
  <2>1. /\ docs' = docs \ gone
        /\ sweep' = [q \in Procs |-> IF sweep[q].on THEN Overtaken(sweep[q], gone) ELSE sweep[q]]
    BY <1>3 DEF CommitDelete
  <2>2. \A d, e \in gone : d = e
    BY DEF IInv, IdsNameOnePage
  <2>3. gone = {} \/ \E d : gone = {d}
    <3>1. CASE gone # {}
      <4>1. PICK d : d \in gone
        BY <3>1
      <4>2. gone = {d}
        BY <2>2, <4>1
      <4> QED BY <4>2
    <3> QED BY <3>1
  <2> HIDE DEF gone
  <2>4. Cardinality(gone) <= 1
    BY <2>3, FS_EmptySet, FS_Singleton
  <2>5. gone \in SUBSET docs
    BY DEF gone
  <2> QED BY <2>1, <2>4, <2>5
<1>4. CASE Republish(p)
  BY <1>4 DEF Republish
<1>5. CASE \/ \E page \in Pages : Insert(p, page) \/ Refuse(p, page)
           \/ CommitInsert(p)
           \/ Search(p) \/ \E d \in docs \cup conn[p].view : Find(p, d)
           \/ Delete(p) \/ DeleteBusy(p) \/ Crawled(p) \/ Optimize(p) \/ CommitMerge(p)
  BY <1>5 DEF Insert, Refuse, CommitInsert, Search, Find, Delete, DeleteBusy, Crawled, Optimize, CommitMerge
<1> QED BY <1>1, <1>2, <1>3, <1>4, <1>5 DEF Step

\* A process that is not running does nothing.
LEMMA RolesKept ==
  ASSUME IInv, Paged, NEW p \in Procs, Step(p), NEW q \in Procs, role'[q] = "none"
  PROVE  conn'[q].mode = "auto" /\ job'[q].pc = "idle"
<1>0. /\ conn \in [Procs -> Connection] /\ job \in [Procs -> Job] /\ role \in [Procs -> Roles]
      /\ role[q] = "none" => conn[q].mode = "auto" /\ job[q].pc = "idle"
  BY DEF IInv, TypeOK, Paged
<1>1. CASE q = p
  <2>1. CASE Close(p)
    BY <1>0, <1>1, <2>1, NoConnectionIsOne, IdleIsAJob DEF Close
  <2>2. CASE ~Close(p)
    <3>1. role[p] = "none" => job[p].pc = "idle"
      BY <1>0, <1>1
    <3>2. FALSE
      BY <1>0, <1>1, <2>2, <3>1
      DEF Step, Open, Insert, Refuse, InsertBusy, CommitInsert, Search, Find, Delete,
          DeleteBusy, CommitDelete, Crawled, Optimize, CommitMerge, Republish, Free
    <3> QED BY <3>2
  <2> QED BY <2>1, <2>2
<1>2. CASE q # p
  <2>1. job'[q] = job[q] /\ role'[q] = role[q]
    BY <1>0, <1>2
    DEF Step, Open, Close, Insert, Refuse, InsertBusy, CommitInsert, Search, Find, Delete,
        DeleteBusy, CommitDelete, Crawled, Optimize, CommitMerge, Republish
  <2>2. conn'[q].mode = conn[q].mode
    <3>1. \/ \E c : conn' = [conn EXCEPT ![p] = c]
          \/ conn' = conn \/ conn' = Committed(p)
      <4>1. Locks(p) \/ Busy(p) \/ Reads(p) => \/ \E c : conn' = [conn EXCEPT ![p] = c]
                                               \/ conn' = conn
        BY DEF Locks, Busy, Reads
      <4> QED BY <4>1
          DEF Step, Open, Close, Insert, Refuse, InsertBusy, CommitInsert, Search, Find, Delete,
              DeleteBusy, CommitDelete, Crawled, Optimize, CommitMerge, Republish
    <3>2. CASE conn' = Committed(p)
      BY <1>0, <1>2, <3>2 DEF Committed, Connection
    <3> QED BY <1>0, <1>2, <3>1, <3>2
  <2> QED BY <1>0, <2>1, <2>2
<1> QED BY <1>1, <1>2

\* Every step keeps the invariant, action by action.
LEMMA PagedKept == IInv /\ IInv' /\ Paged /\ [Next]_vars => Paged'
<1> SUFFICES ASSUME IInv, IInv', Paged, [Next]_vars PROVE Paged'
  OBVIOUS
<1>1. CASE UNCHANGED vars
  BY <1>1 DEF vars, Paged, View
<1>2. ASSUME NEW p \in Procs, Step(p) PROVE Paged'
  <2> SUFFICES ASSUME NEW q \in Procs
               PROVE  /\ sweep'[q].on => Fair(sweep'[q], View(q)', docs')
                      /\ View(q)' \subseteq named'
                      /\ role'[q] = "none" => conn'[q].mode = "auto" /\ job'[q].pc = "idle"
    BY DEF Paged
  <2> DEFINE S == View(q)
             R == View(q)'
  <2>0. /\ sweep \in [Procs -> Sweep] /\ sweep'[q] \in Sweep /\ sweep[q] \in Sweep
        /\ docs \subseteq named /\ docs' \subseteq named'
    BY DEF IInv, TypeOK, IdsNameOnePage
  <2>1. Docs(docs) /\ Docs(docs')
    BY DEF Docs, IInv, TypeOK, Finite
  <2>2. Docs(S) /\ IdsDiffer(S)
    <3>1. IsFiniteSet(S) /\ S \subseteq named /\ named \subseteq Doc
      BY DEF IInv, TypeOK, Finite, View, Paged
    <3> QED BY <3>1 DEF Docs, IdsDiffer, IInv, IdsNameOnePage
  <2>3. R = S \/ R = docs'
    BY <1>2, ViewMoves
  <2>4. named \subseteq named'
    BY <1>2 DEF Step, Open, Close, Insert, Refuse, InsertBusy, CommitInsert, Search, Find, Delete,
                DeleteBusy, CommitDelete, Crawled, Optimize, CommitMerge, Republish
  <2>5. R \subseteq named'
    BY <2>0, <2>3, <2>4 DEF Paged
  <2>6. sweep[q].on => Fair(sweep[q], S, docs)
    BY DEF Paged
  <2>7. sweep[q].removed \in Nat /\ Cardinality({}) = 0
    BY <2>0, FS_EmptySet DEF Sweep
  <2> HIDE DEF S, R
  <2>8. ASSUME docs \subseteq docs', NEW w \in Sweep, Fair(w, S, docs) PROVE Fair(w, R, docs')
    <3>1. docs \ docs' = {} /\ w.removed \in Nat
      BY <2>8 DEF Sweep
    <3>2. w.removed + Cardinality(docs \ docs') <= w.removed
      BY <2>7, <3>1
    <3>3. w.owed \subseteq docs'
      BY <2>8 DEF Fair
    <3> QED BY <2>1, <2>2, <2>3, <2>8, <3>2, <3>3, FairKept
  <2>9. ASSUME sweep'[q].on PROVE Fair(sweep'[q], R, docs')
    <3>1. CASE docs \subseteq docs' /\ sweep' = sweep
      BY <2>0, <2>6, <2>8, <2>9, <3>1
    <3>2. CASE docs' = docs /\ sweep' = [sweep EXCEPT ![p] = NoSweep]
      <4>1. q # p
        BY <2>0, <2>9, <3>2 DEF NoSweep
      <4>2. sweep'[q] = sweep[q]
        BY <2>0, <3>2, <4>1
      <4> QED BY <2>0, <2>6, <2>8, <2>9, <3>2, <4>2
    <3>3. CASE /\ docs' = docs /\ role[p] = "none" /\ View(p)' = View(p)
               /\ sweep' = [sweep EXCEPT ![p] = Begun]
      <4>1. CASE q # p
        <5>1. sweep'[q] = sweep[q]
          BY <2>0, <3>3, <4>1
        <5> QED BY <2>0, <2>6, <2>8, <2>9, <3>3, <5>1
      <4>2. CASE q = p
        <5>1. R = docs
          BY <3>3, <4>2 DEF Paged, View, R
        <5>2. sweep'[q] = Begun
          BY <2>0, <3>3, <4>2
        <5>3. /\ Begun.owed = docs /\ Begun.offset = 0 /\ Begun.removed = 0
          BY DEF Begun
        <5>4. {d \in docs : Rank(docs, d) < 0} = {}
          BY <2>1, RankIs
        <5>5. Cardinality({d \in docs : Rank(docs, d) < 0}) + Cardinality(docs \ docs) <= 0
          BY <2>7, <5>4
        <5>6. Fair(Begun, docs, docs)
          BY <5>3, <5>5 DEF Fair
        <5> QED BY <3>3, <5>1, <5>2, <5>6
      <4> QED BY <4>1, <4>2
    <3>4. CASE docs' = docs /\ Republish(p)
      <4> DEFINE page == Window(View(p), sweep[p].offset)
      <4>1. /\ sweep[p].on
            /\ sweep' = [sweep EXCEPT ![p] = IF page = {} THEN Ended(sweep[p])
                                              ELSE Advanced(sweep[p], page)]
        BY <3>4 DEF Republish
      <4>2. CASE q # p
        <5>1. sweep'[q] = sweep[q]
          BY <2>0, <4>1, <4>2
        <5> QED BY <2>0, <2>6, <2>8, <2>9, <3>4, <5>1
      <4>3. CASE q = p
        <5>1. sweep'[q] = IF page = {} THEN Ended(sweep[p]) ELSE Advanced(sweep[p], page)
          BY <2>0, <4>1, <4>3
        <5>2. ~Ended(sweep[p]).on
          BY <2>0 DEF Ended, Sweep
        <5>3. sweep'[q] = Advanced(sweep[q], Window(S, sweep[q].offset))
          BY <2>9, <4>3, <5>1, <5>2 DEF S
        <5>4. Fair(sweep[q], S, docs)
          BY <2>6, <4>1, <4>3
        <5>5. Fair(sweep'[q], S, docs)
          BY <2>0, <2>1, <2>2, <5>3, <5>4, FairAdvances
        <5> QED BY <2>0, <2>8, <3>4, <5>5
      <4> QED BY <4>2, <4>3
    <3>5. ASSUME NEW gone \in SUBSET docs,
                 Cardinality(gone) <= 1, docs' = docs \ gone,
                 sweep' = [x \in Procs |-> IF sweep[x].on THEN Overtaken(sweep[x], gone) ELSE sweep[x]]
          PROVE  Fair(sweep'[q], R, docs')
      <4>1. sweep[q].on
        BY <2>9, <3>5
      <4>2. sweep'[q] = Overtaken(sweep[q], gone)
        BY <3>5, <4>1
      <4>3. /\ sweep'[q].owed = sweep[q].owed \ gone /\ sweep'[q].offset = sweep[q].offset
            /\ sweep'[q].removed = sweep[q].removed + 1
        BY <4>2 DEF Overtaken
      <4>4. Fair(sweep[q], S, docs)
        BY <2>6, <4>1
      <4>5. docs \ docs' = gone /\ Cardinality(gone) \in Nat
        BY <2>1, <3>5, FS_Subset, FS_CardinalityType DEF Docs
      <4>6. sweep[q].removed + Cardinality(docs \ docs') <= sweep'[q].removed
        <5>1. Cardinality(docs \ docs') <= 1 /\ Cardinality(docs \ docs') \in Nat
          BY <3>5, <4>5
        <5> QED BY <2>7, <4>3, <5>1
      <4>7. sweep'[q].owed \subseteq docs' /\ sweep'[q].owed \subseteq sweep[q].owed
        BY <3>5, <4>3, <4>4 DEF Fair
      <4> QED BY <2>0, <2>1, <2>2, <2>3, <4>3, <4>4, <4>6, <4>7, FairKept
    <3> QED BY <1>2, <3>1, <3>2, <3>3, <3>4, <3>5, SweepMoves
  <2> QED BY <1>2, <2>5, <2>9, RolesKept DEF R
<1> QED BY <1>1, <1>2 DEF Next

\* Nothing is owed before the first sweep.
LEMMA PagedInitial == Init => Paged
<1> SUFFICES ASSUME Init, NEW p \in Procs
             PROVE  /\ ~sweep[p].on /\ View(p) \subseteq named
                    /\ conn[p].mode = "auto" /\ job[p].pc = "idle"
  BY DEF Paged
<1> QED BY NoConnectionIsOne, IdleIsAJob DEF Init, NoSweep, View

\* However documents are inserted and removed while republish_local_index pages
\* through them by OFFSET, and whatever snapshot its connection reads, it skips
\* at most one document for each removal, for any page size and any processes.
THEOREM SkipsAreRemovals == Spec => SkipsOnlyForRemovals
<1>1. IInv /\ Paged /\ [Next]_vars
        => [\A p \in Procs : sweep[p].on /\ ~sweep'[p].on /\ role'[p] = "serve" =>
              Cardinality(sweep[p].owed) <= sweep[p].removed]_vars
  <2> SUFFICES ASSUME IInv, Paged, [Next]_vars, vars' # vars, NEW p \in Procs,
                      sweep[p].on, ~sweep'[p].on, role'[p] = "serve"
               PROVE  Cardinality(sweep[p].owed) <= sweep[p].removed
    OBVIOUS
  <2>0. sweep \in [Procs -> Sweep] /\ role \in [Procs -> Roles]
    BY DEF IInv, TypeOK
  <2>1. PICK q \in Procs : Step(q)
    BY DEF Next
  <2>2. Republish(q) /\ q = p
    <3>1. CASE Republish(q)
      BY <2>0, <3>1 DEF Republish
    <3>2. CASE \E r \in Roles \ {"none"} : Open(q, r)
      BY <2>0, <3>2 DEF Open, Begun
    <3>3. CASE Close(q) \/ InsertBusy(q)
      BY <2>0, <3>3 DEF Close, InsertBusy
    <3>4. CASE CommitDelete(q)
      BY <3>4 DEF CommitDelete, Overtaken
    <3>5. CASE \/ \E page \in Pages : Insert(q, page) \/ Refuse(q, page)
               \/ CommitInsert(q)
               \/ Search(q) \/ \E d \in docs \cup conn[q].view : Find(q, d)
               \/ Delete(q) \/ DeleteBusy(q) \/ Crawled(q) \/ Optimize(q) \/ CommitMerge(q)
      BY <3>5 DEF Insert, Refuse, CommitInsert, Search, Find, Delete, DeleteBusy, Crawled, Optimize, CommitMerge
    <3> QED BY <2>1, <3>1, <3>2, <3>3, <3>4, <3>5 DEF Step
  <2>3. Window(View(p), sweep[p].offset) = {}
    <3> DEFINE page == Window(View(p), sweep[p].offset)
    <3>1. sweep'[p] = IF page = {} THEN Ended(sweep[p]) ELSE Advanced(sweep[p], page)
      BY <2>0, <2>2 DEF Republish
    <3>2. Advanced(sweep[p], page).on = sweep[p].on
      BY DEF Advanced
    <3> QED BY <3>1, <3>2
  <2>4. Docs(docs) /\ Docs(View(p)) /\ IdsDiffer(View(p))
    <3>1. IsFiniteSet(View(p)) /\ View(p) \subseteq named /\ named \subseteq Doc
      BY DEF IInv, TypeOK, Finite, View, Paged
    <3> QED BY <3>1 DEF Docs, IdsDiffer, IInv, TypeOK, Finite, IdsNameOnePage
  <2>5. Fair(sweep[p], View(p), docs) /\ sweep[p] \in Sweep
    BY <2>0 DEF Paged
  <2> QED BY <2>3, <2>4, <2>5, FairEnds
<1>2. Spec => []Paged
  <2>1. IInv /\ Paged /\ [Next]_vars => IInv' /\ Paged'
    BY StepKeeps, PagedKept
  <2> QED BY <2>1, InitInvariant, PagedInitial, PTL DEF Spec
<1> QED BY <1>1, <1>2, Inductive, PTL DEF Spec, SkipsOnlyForRemovals
-----------------------------------------------------------------------------
(* The index as its users see it: PageIndex.                               *)

SameAs(d, page) == d.page.url = page.url \/ d.page.text = page.text

(* Two documents differ in address and text, and the page of an insert that *)
(* is not committed differs from all of them: nobody else can commit before *)
(* it does, since it has the write lock.                                    *)
Distinct ==
  /\ \A d, e \in docs : SameAs(d, e.page) => d = e
  /\ \A p \in Procs : job[p].pc = "insert" => \A d \in docs : ~SameAs(d, job[p].doc.page)

LEMMA DistinctInitial == Init => Distinct
<1>1. Idle.pc # "insert"
  BY DEF Idle
<1>2. QED
  BY <1>1 DEF Init, Distinct

(* A step that leaves the documents alone and begins no insert. *)
LEMMA DistinctStays ==
  ASSUME Distinct, UNCHANGED docs, NEW p \in Procs, NEW j, j.pc # "insert",
         job \in [Procs -> Job], job' = [job EXCEPT ![p] = j]
  PROVE  Distinct'
<1>1. \A q \in Procs : job'[q].pc = "insert" => job'[q] = job[q]
  OBVIOUS
<1>2. QED
  BY <1>1 DEF Distinct, SameAs

LEMMA DistinctUnchanged ==
  ASSUME Distinct, UNCHANGED <<docs, job>>
  PROVE  Distinct'
<1>1. QED
  BY DEF Distinct, SameAs

(* An insert begins only with a page that is not taken. *)
LEMMA InsertDistinct ==
  ASSUME IInv, Distinct, NEW p \in Procs, NEW page \in Pages, Insert(p, page)
  PROVE  Distinct'
<1> DEFINE d == [id |-> NextId, page |-> page]
<1>1. /\ docs' = docs
      /\ job' = [job EXCEPT ![p] = [pc |-> "insert", doc |-> d]]
      /\ ~Taken(d.page)
  BY DEF Insert
<1>2. job \in [Procs -> Job]
  BY DEF IInv, TypeOK
<1>3. job'[p].doc = d /\ \A q \in Procs \ {p} : job'[q] = job[q]
  BY <1>1, <1>2
<1>4. \A e \in docs : ~SameAs(e, d.page)
  BY <1>1 DEF Taken, SameAs
<1>5. QED
  BY <1>1, <1>3, <1>4 DEF Distinct, SameAs

(* Only the process with the lock commits an insert, and it has no other. *)
LEMMA CommitDistinct ==
  ASSUME IInv, Distinct, NEW p \in Procs, CommitInsert(p)
  PROVE  Distinct'
<1>1. /\ job[p].pc = "insert"
      /\ docs' = docs \cup {job[p].doc}
      /\ job' = [job EXCEPT ![p] = Idle]
  BY DEF CommitInsert
<1>2. job \in [Procs -> Job] /\ conn[p].mode = "writing"
  BY <1>1 DEF IInv, TypeOK
<1>3. ASSUME NEW q \in Procs, job'[q].pc = "insert" PROVE FALSE
  <2>1. q # p /\ job[q].pc = "insert"
    BY <1>1, <1>2, <1>3, IdleIsAJob
  <2>2. conn[q].mode = "writing"
    BY <2>1 DEF IInv, TypeOK
  <2>3. QED
    BY <1>2, <2>1, <2>2 DEF IInv, TypeOK
<1>4. \A d \in docs : ~SameAs(d, job[p].doc.page)
  BY <1>1 DEF Distinct
<1>5. \A d, e \in docs' : SameAs(d, e.page) => d = e
  BY <1>1, <1>4 DEF Distinct, SameAs
<1>6. QED
  BY <1>3, <1>5 DEF Distinct

LEMMA DeletionDistinct ==
  ASSUME IInv, Distinct, NEW p \in Procs, CommitDelete(p)
  PROVE  Distinct'
<1>1. docs' \subseteq docs /\ job' = [job EXCEPT ![p] = Idle]
  BY DEF CommitDelete
<1>2. job \in [Procs -> Job]
  BY DEF IInv, TypeOK
<1>3. \A q \in Procs : job'[q].pc = "insert" => job'[q] = job[q]
  BY <1>1, <1>2, IdleIsAJob
<1>4. QED
  BY <1>1, <1>3 DEF Distinct, SameAs

LEMMA DistinctKept == IInv /\ Distinct /\ [Next]_vars => Distinct'
<1>1. ASSUME Distinct, UNCHANGED vars PROVE Distinct'
  BY <1>1, DistinctUnchanged DEF vars
<1>2. ASSUME IInv, Distinct, NEW p \in Procs, Step(p) PROVE Distinct'
  <2> DEFINE erased == [job[p] EXCEPT !.pc = "erase"]
             merged == [job[p] EXCEPT !.pc = "merge"]
  <2>1. job \in [Procs -> Job]
    BY <1>2 DEF IInv, TypeOK
  <2>2. Idle.pc # "insert" /\ erased.pc # "insert" /\ merged.pc # "insert"
    BY <2>1 DEF Job, Idle
  <2>3. CASE \E r \in Roles \ {"none"} : Open(p, r)
    BY <1>2, <2>3, DistinctUnchanged DEF Open
  <2>4. CASE Close(p)
    BY <1>2, <2>1, <2>2, <2>4, DistinctStays DEF Close
  <2>5. CASE \E page \in Pages : Insert(p, page) \/ Refuse(p, page)
    BY <1>2, <2>5, InsertDistinct, DistinctUnchanged DEF Refuse
  <2>6. CASE InsertBusy(p)
    BY <1>2, <2>1, <2>2, <2>6, DistinctStays, DistinctUnchanged DEF InsertBusy, Close
  <2>7. CASE CommitInsert(p)
    BY <1>2, <2>7, CommitDistinct
  <2>8. CASE Search(p)
    BY <1>2, <2>8, DistinctUnchanged DEF Search
  <2>9. CASE \E d \in docs \cup conn[p].view : Find(p, d)
    <3>1. PICK d : Find(p, d)
      BY <2>9
    <3>2. [pc |-> "delete", doc |-> d].pc # "insert"
      OBVIOUS
    <3>3. QED
      BY <1>2, <2>1, <3>1, <3>2, DistinctStays DEF Find
  <2>10. CASE Delete(p)
    BY <1>2, <2>1, <2>2, <2>10, DistinctStays DEF Delete
  <2>11. CASE DeleteBusy(p)
    BY <1>2, <2>1, <2>2, <2>11, DistinctStays DEF DeleteBusy
  <2>12. CASE CommitDelete(p)
    BY <1>2, <2>12, DeletionDistinct
  <2>13. CASE Optimize(p)
    BY <1>2, <2>1, <2>2, <2>13, DistinctStays, DistinctUnchanged DEF Optimize
  <2>14. CASE CommitMerge(p)
    BY <1>2, <2>1, <2>2, <2>14, DistinctStays DEF CommitMerge
  <2>15. CASE Republish(p)
    BY <1>2, <2>15, DistinctUnchanged DEF Republish
  <2>16. CASE Crawled(p)
    <3>1. [pc |-> "crawled", doc |-> None].pc # "insert"
      OBVIOUS
    <3>2. QED
      BY <1>2, <2>1, <2>16, <3>1, DistinctStays DEF Crawled
  <2>17. QED
    BY <1>2, <2>3, <2>4, <2>5, <2>6, <2>7, <2>8, <2>9, <2>10, <2>11, <2>12, <2>13, <2>14, <2>15,
       <2>16
       DEF Step
<1>3. QED
  BY <1>1, <1>2 DEF Next

Shown(D) == {d.page : d \in D}

(* What a commit does to the pages: one is added that resembles none, or   *)
(* one is dropped, or nothing changes when the document is gone already.   *)
LEMMA CommitAdds ==
  ASSUME IInv, Distinct, NEW p \in Procs, CommitInsert(p)
  PROVE  Index!Next
<1>1. job[p].pc = "insert" /\ docs' = docs \cup {job[p].doc}
  BY DEF CommitInsert
<1>2. PICK d \in Doc : d = job[p].doc
  BY <1>1 DEF IInv, IdsBelowNext
<1>3. \A e \in docs : ~SameAs(e, d.page)
  BY <1>1, <1>2 DEF Distinct
<1>4. \A r \in Shown(docs) : ~Index!Alike(d.page, r)
  BY <1>3 DEF Shown, SameAs, Index!Alike
<1>5. Shown(docs') = Shown(docs) \cup {d.page}
  BY <1>1, <1>2 DEF Shown
<1>6. d.page \in Pages /\ Index!Add(d.page)
  BY <1>4, <1>5 DEF Index!Add, Shown, Doc
<1>7. QED
  BY <1>6 DEF Index!Next

LEMMA CommitDrops ==
  ASSUME IInv, Distinct, NEW p \in Procs, CommitDelete(p)
  PROVE  Index!Next \/ UNCHANGED docs
<1> DEFINE gone == {d \in docs : d.id = job[p].doc.id}
<1>1. docs' = docs \ gone
  BY DEF CommitDelete
<1>2. CASE gone = {}
  BY <1>1, <1>2
<1>3. CASE gone # {}
  <2>1. PICK d \in docs : d.id = job[p].doc.id
    BY <1>3
  <2>2. gone = {d}
    BY <2>1 DEF IInv, IdsNameOnePage
  <2>3. \A e \in docs : e.page = d.page => e = d
    BY <2>1 DEF Distinct, SameAs
  <2>4. Shown(docs') = Shown(docs) \ {d.page}
    BY <1>1, <2>1, <2>2, <2>3 DEF Shown
  <2>5. d.page \in Shown(docs) /\ d.page \in Pages
    BY <2>1 DEF Shown, IInv, TypeOK, Doc
  <2>6. Index!Drop(d.page)
    BY <2>4, <2>5 DEF Index!Drop, Shown
  <2>7. QED
    BY <2>5, <2>6 DEF Index!Next
<1>4. QED
  BY <1>2, <1>3

(* Every other step leaves the documents alone. *)
LEMMA StepOfIndex ==
  IInv /\ Distinct /\ [Next]_vars => [Index!Next]_{d.page : d \in docs}
<1>1. ASSUME IInv, Distinct, NEW p \in Procs, Step(p)
      PROVE  Index!Next \/ UNCHANGED docs
  <2>1. CASE CommitInsert(p)
    BY <1>1, <2>1, CommitAdds
  <2>2. CASE CommitDelete(p)
    BY <1>1, <2>2, CommitDrops
  <2>3. CASE ~CommitInsert(p) /\ ~CommitDelete(p)
    BY <1>1, <2>3 DEF Step, Open, Close, Insert, Refuse, InsertBusy, Search, Find, Delete,
                      DeleteBusy, Crawled, Optimize, CommitMerge, Republish
  <2>4. QED
    BY <2>1, <2>2, <2>3
<1>2. QED
  BY <1>1 DEF Next, vars

(* The index is a set of pages with different addresses and texts that     *)
(* grows and shrinks by whole pages, for any number of processes that      *)
(* insert, are refused, time out, remove and are killed (add_document,     *)
(* delete_document): DocumentStore implements PageIndex.                   *)
THEOREM StoreIsAnIndex == Spec => PagesComeAndGo
<1>1. Init => Index!Init
  BY DEF Init, Index!Init
<1>2. QED
  BY <1>1, Inductive, DistinctInitial, DistinctKept, StepOfIndex, PTL
     DEF Spec, PagesComeAndGo, Index!Spec

=============================================================================
