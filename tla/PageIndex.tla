------------------------------ MODULE PageIndex ------------------------------
(***************************************************************************)
(* The index of a data directory as its users see it: a set of pages that  *)
(* differ in address and in text, which grows and shrinks by one page at a *)
(* time.  DocumentStore, with all that SQLite adds, implements it, and so   *)
(* does the set of rows that CrawlLoop and ToolCalls have in its place.     *)
(***************************************************************************)
CONSTANT Pages   \* what may be indexed: records with a url and a text

VARIABLE index   \* the pages in the index

Alike(p, r) == p.url = r.url \/ p.text = r.text

Init == index = {}

\* A page joins only when none in the index has its address or its text.
Add(p) ==
  /\ \A r \in index : ~Alike(p, r)
  /\ index' = index \cup {p}

Drop(p) == p \in index /\ index' = index \ {p}

Next == \E p \in Pages : Add(p) \/ Drop(p)

Spec == Init /\ [][Next]_index
=============================================================================
