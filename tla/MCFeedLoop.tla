----------------------------- MODULE MCFeedLoop -----------------------------
(* Two feeds and a malformed one, room for two of them; three items. *)
EXTENDS FeedLoop

CONSTANTS f1, f2, bad, i1, i2, i3
=============================================================================
