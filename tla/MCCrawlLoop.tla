---------------------------- MODULE MCCrawlLoop ----------------------------
(***************************************************************************)
(* A web of four URLs on two domains: a1 and a2 share a domain and link to *)
(* each other; a3 is a1 with a tracking parameter (same normal form, same  *)
(* text); b1 has the text of a2, is linked from a1 and links back.         *)
(***************************************************************************)
EXTENDS CrawlLoop, TLC

CONSTANTS a1, a2, a3, b1, da, db, x, y, loop

MCUrls == {a1, a2, a3, b1}
MCDomains == {da, db}
MCDomainOf == (a1 :> da) @@ (a2 :> da) @@ (a3 :> da) @@ (b1 :> db)
MCLinksOf == (a1 :> {a2, b1}) @@ (a2 :> {a1}) @@ (a3 :> {a2}) @@ (b1 :> {a2})
MCNormOf == (a1 :> a1) @@ (a2 :> a2) @@ (a3 :> a1) @@ (b1 :> b1)

\* b1 names a2 as its canonical URL.
MCPages ==
  [u \in MCUrls |-> {[text |-> IF u \in {a1, a3} THEN x ELSE y,
                      canonical |-> IF u = b1 THEN a2 ELSE u]}]

\* b1's domain has a sitemap.
MCSitemap == (da :> {}) @@ (db :> {a3})
=============================================================================
