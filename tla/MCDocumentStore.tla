--------------------------- MODULE MCDocumentStore ---------------------------
(***************************************************************************)
(* serve and, beside it, the MCP server or an import, at the index of one  *)
(* data directory.                                                         *)
(***************************************************************************)
EXTENDS DocumentStore, TLC

CONSTANTS n, m, a, b, s, t

MCKinds == (n :> {"serve"}) @@ (m :> {"mcp", "import"})

\* Two addresses, and a second version of the first.
MCPages == {[url |-> a, text |-> s], [url |-> a, text |-> t], [url |-> b, text |-> t]}
=============================================================================
