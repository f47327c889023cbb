----------------------------- MODULE MCToolCalls -----------------------------
(***************************************************************************)
(* Two URLs and two texts.  The page at a1 changes: it has text x, or text *)
(* y and b1 as its canonical URL.  The page at b1 has text x; a snapshot   *)
(* has it too.  Links are in the instance of MCCrawlLoop.  Both queries    *)
(* find b1.  Two crawls overlap, or a crawl and a search, or a crawl and   *)
(* an import.                                                              *)
(***************************************************************************)
EXTENDS ToolCalls, TLC

CONSTANTS a1, b1, da, x, y, loop, t1, t2, s1, i1, q1, q2

MCUrls == {a1, b1}
MCDomainOf == [u \in MCUrls |-> da]
MCNoLinks == [u \in MCUrls |-> {}]
MCPages ==
  (a1 :> {[text |-> x, canonical |-> a1], [text |-> y, canonical |-> b1]})
    @@ (b1 :> {[text |-> x, canonical |-> b1]})
MCNormOf == [u \in MCUrls |-> u]
MCNoSitemap == [d \in {da} |-> {}]
MCMatches == [q \in Queries |-> {b1}]
MCClients == {{t1, t2}} \cup {{t, o} : t \in {t1, t2}, o \in {s1, i1}}
MCImports == {[url |-> b1, text |-> x]}

Symmetry == Permutations({t1, t2}) \cup Permutations(Queries)
=============================================================================
