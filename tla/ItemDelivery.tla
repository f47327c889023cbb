---------------------------- MODULE ItemDelivery ----------------------------
(***************************************************************************)
(* What feed polling and the priority queue promise together: an item is   *)
(* offered to the crawler at most once in the life of a process, an item   *)
(* is lost only to a full queue, and one that is queued is offered in the  *)
(* end.  FeedLoop implements this.                                         *)
(***************************************************************************)
CONSTANTS
  Items,
  Full(_)   \* whether these items leave no room for another one

VARIABLES
  queued,   \* items waiting for the crawler
  offered,  \* items the crawler was given
  dropped   \* items that found the queue full

vars == <<queued, offered, dropped>>

Known == queued \cup offered \cup dropped

Init == queued = {} /\ offered = {} /\ dropped = {}

\* New items are announced; those without room are dropped.
Announce ==
  \E new \in SUBSET (Items \ Known) : \E kept \in SUBSET new :
    /\ kept # new => Full(queued \cup kept)
    /\ queued' = queued \cup kept
    /\ dropped' = dropped \cup (new \ kept)
    /\ UNCHANGED offered

Offer(i) ==
  /\ i \in queued
  /\ queued' = queued \ {i}
  /\ offered' = offered \cup {i}
  /\ UNCHANGED dropped

\* A new process knows nothing of the old one's items.
Forget == queued' = {} /\ offered' = {} /\ dropped' = {}

Next == Announce \/ (\E i \in Items : Offer(i)) \/ Forget

Spec == Init /\ [][Next]_vars

FairSpec == Spec /\ WF_vars(\E i \in Items : Offer(i))
=============================================================================
