---------------------------- MODULE DocumentStore ----------------------------
(***************************************************************************)
(* The document index of one data directory (index/local_store.py) and the *)
(* processes that have it open: serve, with its crawl loop, the hourly     *)
(* optimization and the republishing at its start (services.py,            *)
(* crawl_loop.py), the MCP server, which crawls, searches and removes      *)
(* (mcp/handlers.py), and `infomesh index import` (index/snapshot.py).     *)
(*                                                                         *)
(* A process has one connection.  sqlite3 begins a transaction before a    *)
(* write; it ends with commit() only, which a refused write never reaches. *)
(* What SQLite does is modelled from there: in WAL mode one connection     *)
(* writes at a time, until its commit; a transaction that reads keeps the  *)
(* snapshot it read and can write only while that is the newest.           *)
(***************************************************************************)
EXTENDS Naturals, FiniteSets, FiniteSetsExt

CONSTANTS Procs,       \* slots for processes
          Kinds,       \* the roles a slot may have
          Pages,       \* pages that are crawled or imported: records of url, text
          None,
          Batch,       \* batch_size of republish_local_index
          MaxId        \* bound: documents ever added

ASSUME KindsAssumption == Kinds \in [Procs -> SUBSET {"serve", "mcp", "import"}]
ASSUME BoundsAssumption == Batch \in Nat \ {0} /\ MaxId \in Nat \ {0}

VARIABLES docs,    \* the table documents, as committed
          nextId,  \* its AUTOINCREMENT
          named,   \* every document that was ever committed
          role,    \* what runs in a slot
          conn,    \* its connection to index.db
          job,     \* the write it is in the middle of
          sweep    \* its run of republish_local_index

vars == <<docs, nextId, named, role, conn, job, sweep>>

Doc == [id : 1 .. MaxId, page : Pages]
Roles == {"none", "serve", "mcp", "import"}

\* auto: no transaction; open: one that has neither read nor locked; reading:
\* one with a snapshot; writing: one with the write lock.
Connection == [mode : {"auto", "open", "reading", "writing"}, view : SUBSET Doc, newest : BOOLEAN]

NoConnection == [mode |-> "auto", view |-> {}, newest |-> TRUE]

Job == [pc : {"idle", "insert", "delete", "erase", "crawled", "merge"}, doc : {None} \cup Doc]

Idle == [pc |-> "idle", doc |-> None]

\* removed counts the documents removed since it began, owed those that are
\* there since it began and were not published.
Sweep == [on : BOOLEAN, offset : Nat, owed : SUBSET Doc, removed : Nat]

NoSweep == [on |-> FALSE, offset |-> 0, owed |-> {}, removed |-> 0]

Begun == [on |-> TRUE, offset |-> 0, owed |-> docs, removed |-> 0]

Ended(w) == [w EXCEPT !.on = FALSE]

Advanced(w, page) ==
  [on |-> w.on, offset |-> w.offset + Cardinality(page), owed |-> w.owed \ page, removed |-> w.removed]

Overtaken(w, gone) ==
  [on |-> w.on, offset |-> w.offset, owed |-> w.owed \ gone, removed |-> w.removed + 1]

Init ==
  /\ docs = {} /\ nextId = 1 /\ named = {}
  /\ role = [p \in Procs |-> "none"]
  /\ conn = [p \in Procs |-> NoConnection]
  /\ job = [p \in Procs |-> Idle]
  /\ sweep = [p \in Procs |-> NoSweep]

-----------------------------------------------------------------------------
(* SQLite and the sqlite3 module *)

Free(p) == role[p] # "none" /\ job[p] = Idle

\* The documents p reads.
View(p) == IF conn[p].mode = "reading" THEN conn[p].view ELSE docs

\* A write of p gets the lock, at once or within busy_timeout.
CanWrite(p) ==
  /\ \A q \in Procs : conn[q].mode = "writing" => q = p
  /\ conn[p].mode = "reading" => conn[p].newest

\* fault: the connection is in autocommit mode.
LocksNever(p) == UNCHANGED conn

\* The write begins a transaction, if there is none.
Locks(p) == conn' = [conn EXCEPT ![p].mode = "writing"]

\* "database is locked", after busy_timeout or at once: the transaction stays.
Busy(p) ==
  conn' = [conn EXCEPT ![p].mode = IF @ = "auto" THEN "open" ELSE @]

\* A read inside a transaction keeps its snapshot.
Reads(p) ==
  conn' = IF conn[p].mode = "open"
          THEN [conn EXCEPT ![p] = [mode |-> "reading", view |-> docs, newest |-> TRUE]]
          ELSE conn

\* What the commit of p leaves the others with.
Committed(p) ==
  [q \in Procs |-> IF q = p THEN NoConnection
                   ELSE [conn[q] EXCEPT !.newest = @ /\ conn[q].mode # "reading"]]

\* fault: an id is given out again once the newest document was removed.
NextIdReused == 1 + (IF docs = {} THEN 0 ELSE Max({d.id : d \in docs}))

\* AUTOINCREMENT
NextId == nextId

Open(p, r) ==
  /\ role[p] = "none" /\ r \in Kinds[p]
  /\ role' = [role EXCEPT ![p] = r]
  /\ sweep' = [sweep EXCEPT ![p] = IF r = "serve" THEN Begun ELSE NoSweep]
  /\ UNCHANGED <<docs, nextId, named, conn, job>>

\* The process ends, orderly or not: SQLite rolls back what was not committed.
Close(p) ==
  /\ role[p] # "none"
  /\ role' = [role EXCEPT ![p] = "none"]
  /\ conn' = [conn EXCEPT ![p] = NoConnection]
  /\ job' = [job EXCEPT ![p] = Idle]
  /\ sweep' = [sweep EXCEPT ![p] = NoSweep]
  /\ UNCHANGED <<docs, nextId, named>>

-----------------------------------------------------------------------------
(* Crawled and imported pages: index_document, import_snapshot *)

\* fault: text_hash is not UNIQUE.
TakenByUrl(page) == \E d \in docs : d.page.url = page.url

\* url and text_hash are UNIQUE.
Taken(page) == \E d \in docs : d.page.url = page.url \/ d.page.text = page.text

\* add_document: INSERT.
Insert(p, page) ==
  /\ Free(p)
  /\ CanWrite(p) /\ ~Taken(page) /\ NextId <= MaxId
  /\ Locks(p)
  /\ job' = [job EXCEPT ![p] = [pc |-> "insert", doc |-> [id |-> NextId, page |-> page]]]
  /\ UNCHANGED <<docs, nextId, named, role, sweep>>

\* IntegrityError: add_document returns None, inside the transaction.
Refuse(p, page) ==
  /\ Free(p)
  /\ CanWrite(p) /\ Taken(page)
  /\ Locks(p)
  /\ UNCHANGED <<docs, nextId, named, role, job, sweep>>

\* The page is lost; an import goes no further.
InsertBusy(p) ==
  /\ Free(p)
  /\ ~CanWrite(p)
  /\ IF role[p] = "import" THEN Close(p)
     ELSE Busy(p) /\ UNCHANGED <<docs, nextId, named, role, job, sweep>>

\* commit() of add_document.
CommitInsert(p) ==
  /\ job[p].pc = "insert"
  /\ docs' = docs \cup {job[p].doc} /\ named' = named \cup {job[p].doc}
  /\ nextId' = job[p].doc.id + 1
  /\ conn' = Committed(p)
  /\ job' = [job EXCEPT ![p] = Idle]
  /\ UNCHANGED <<role, sweep>>

-----------------------------------------------------------------------------
(* Searching, removing, optimizing *)

Search(p) ==
  /\ Free(p)
  /\ role[p] = "mcp"
  /\ Reads(p)
  /\ UNCHANGED <<docs, nextId, named, role, job, sweep>>

\* handle_remove_url: get_document_by_url.
Find(p, d) ==
  /\ Free(p) /\ role[p] = "mcp"
  /\ d \in View(p)
  /\ Reads(p)
  /\ job' = [job EXCEPT ![p] = [pc |-> "delete", doc |-> d]]
  /\ UNCHANGED <<docs, nextId, named, role, sweep>>

\* delete_document: DELETE by id.  When nothing is deleted it does not commit.
Delete(p) ==
  /\ job[p].pc = "delete"
  /\ CanWrite(p)
  /\ Locks(p)
  /\ job' = [job EXCEPT ![p] = IF \E d \in docs : d.id = job[p].doc.id
                               THEN [@ EXCEPT !.pc = "erase"] ELSE Idle]
  /\ UNCHANGED <<docs, nextId, named, role, sweep>>

DeleteBusy(p) ==
  /\ job[p].pc = "delete"
  /\ ~CanWrite(p)
  /\ Busy(p)
  /\ job' = [job EXCEPT ![p] = Idle]
  /\ UNCHANGED <<docs, nextId, named, role, sweep>>

\* commit() of delete_document; the vector store is not told.
CommitDelete(p) ==
  LET gone == {d \in docs : d.id = job[p].doc.id}
  IN  /\ job[p].pc = "erase"
      /\ docs' = docs \ gone
      /\ conn' = Committed(p)
      /\ job' = [job EXCEPT ![p] = Idle]
      /\ sweep' = [q \in Procs |-> IF sweep[q].on THEN Overtaken(sweep[q], gone) ELSE sweep[q]]
      /\ UNCHANGED <<nextId, named, role>>

\* The crawl loop comes to the optimization behind a crawl only, when the last one is an
\* hour ago: get_url has returned a URL, and what came of it was inserted, refused or
\* nothing.  A loop that waits for URLs, or pauses, does not come here.
Crawled(p) ==
  /\ Free(p) /\ role[p] = "serve"
  /\ job' = [job EXCEPT ![p] = [pc |-> "crawled", doc |-> None]]
  /\ UNCHANGED <<docs, nextId, named, role, conn, sweep>>

\* What optimize raises is ignored.
Optimize(p) ==
  /\ job[p].pc = "crawled"
  /\ IF CanWrite(p) THEN Locks(p) /\ job' = [job EXCEPT ![p].pc = "merge"]
     ELSE Busy(p) /\ job' = [job EXCEPT ![p] = Idle]
  /\ UNCHANGED <<docs, nextId, named, role, sweep>>

\* fault: optimize does not commit.
MergeUncommitted(p) ==
  /\ job[p].pc = "merge"
  /\ job' = [job EXCEPT ![p] = Idle]
  /\ UNCHANGED <<docs, nextId, named, role, conn, sweep>>

\* A merge that finds nothing to do leaves the snapshots of the others new.
CommitMerge(p) ==
  /\ job[p].pc = "merge"
  /\ conn' \in {Committed(p), [conn EXCEPT ![p] = NoConnection]}
  /\ job' = [job EXCEPT ![p] = Idle]
  /\ UNCHANGED <<docs, nextId, named, role, sweep>>

-----------------------------------------------------------------------------
(* republish_local_index *)

\* fault: the first document of every page is skipped.
WindowShifted(S, offset) ==
  {d \in S : Cardinality({e \in S : e.id < d.id}) \in offset + 1 .. offset + Batch}

\* A page counts as published once it is read and handed over: a batch whose publishing
\* fails or times out is logged and not tried again.
\*
\* ORDER BY doc_id LIMIT Batch OFFSET offset
Window(S, offset) ==
  {d \in S : Cardinality({e \in S : e.id < d.id}) \in offset .. offset + Batch - 1}

Republish(p) ==
  LET page == Window(View(p), sweep[p].offset)
  IN  /\ Free(p) /\ sweep[p].on
      /\ Reads(p)
      /\ sweep' = [sweep EXCEPT ![p] = IF page = {} THEN Ended(@) ELSE Advanced(@, page)]
      /\ UNCHANGED <<docs, nextId, named, role, job>>
-----------------------------------------------------------------------------
Step(p) ==
  \/ \E r \in Roles \ {"none"} : Open(p, r)
  \/ Close(p)
  \/ \E page \in Pages : Insert(p, page) \/ Refuse(p, page)
  \/ InsertBusy(p) \/ CommitInsert(p)
  \/ Search(p) \/ \E d \in docs \cup conn[p].view : Find(p, d)
  \/ Delete(p) \/ DeleteBusy(p) \/ CommitDelete(p)
  \/ Crawled(p) \/ Optimize(p) \/ CommitMerge(p)
  \/ Republish(p)

Next == \E p \in Procs : Step(p)

Spec == Init /\ [][Next]_vars

\* A statement comes to its end.  Nothing is assumed of the URLs the loop gets.
FairSpec ==
  /\ Spec
  /\ \A p \in Procs : WF_vars(CommitInsert(p) \/ CommitDelete(p) \/ Optimize(p) \/ CommitMerge(p))
-----------------------------------------------------------------------------
(* Everything is of its type; one connection writes at a time, and one in  *)
(* the middle of a write has the lock.                                     *)
TypeOK ==
  /\ docs \subseteq Doc /\ named \subseteq Doc
  /\ nextId \in 1 .. MaxId + 1
  /\ role \in [Procs -> Roles]
  /\ conn \in [Procs -> Connection]
  /\ job \in [Procs -> Job]
  /\ sweep \in [Procs -> Sweep]
  /\ \A p, q \in Procs : conn[p].mode = "writing" /\ conn[q].mode = "writing" => p = q
  /\ \A p \in Procs : job[p].pc \in {"insert", "erase", "merge"} => conn[p].mode = "writing"

(* A doc_id, in a published pointer or in the vector store, never names    *)
(* another page than the one it was given to, whatever is removed, rolled  *)
(* back or imported in between (add_document, delete_document).            *)
IdsNameOnePage ==
  /\ \A d, e \in named : d.id = e.id => d = e
  /\ docs \subseteq named

(* Paging by OFFSET while documents are removed skips documents, but at    *)
(* most one for each removal (republish_local_index).                      *)
SkipsOnlyForRemovals ==
  [][\A p \in Procs : sweep[p].on /\ ~sweep'[p].on /\ role'[p] = "serve" =>
       Cardinality(sweep[p].owed) <= sweep[p].removed]_vars

(* To everyone who uses it the index is a set of pages with different       *)
(* addresses and texts that grows and shrinks by whole pages, whichever     *)
(* processes insert, time out, remove and are killed (add_document,         *)
(* delete_document): what an insert finds not taken before its write is not *)
(* taken at its commit either.                                              *)
Index == INSTANCE PageIndex WITH index <- {d.page : d \in docs}

PagesComeAndGo == Index!Spec

(* A refused insert leaves the write lock with its process.  A serve that   *)
(* comes to its optimization again and again gives it back: that commits    *)
(* whatever transaction is open.  One whose URLs have run out, or that      *)
(* pauses, keeps it (seed_and_crawl_loop, optimize).                        *)
LockGivenBack ==
  \A p \in Procs :
    []<>(job[p].pc = "crawled") =>
      (conn[p].mode = "writing" /\ role[p] = "serve" ~> conn[p].mode # "writing")
=============================================================================
