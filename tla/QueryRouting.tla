---------------------------- MODULE QueryRouting ----------------------------
(***************************************************************************)
(* How a search is put to other peers: QueryRouter.route_query             *)
(* (p2p/routing.py) with the profiles of the peers (p2p/peer_profile.py).  *)
(*                                                                         *)
(* A query looks its keywords up in the DHT, chooses some of the peers it  *)
(* finds by their latency and asks them all at once, each in a task with a *)
(* deadline that depends on the latency too.  What happens is recorded in  *)
(* the profiles, which the next choice and the next deadlines are made     *)
(* from.                                                                   *)
(*                                                                         *)
(* Latencies and timeouts are small numbers of the same unit; only how     *)
(* they compare matters.                                                   *)
(***************************************************************************)
EXTENDS Naturals, FiniteSets

CONSTANTS
  Queries,     \* the searches that run at the same time
  Peers,
  Finds,       \* the sets of candidates a lookup may leave
  Moods,       \* Moods[p]: the latencies p may have, 0 when it does not answer
  MaxFanout,   \* MAX_FANOUT
  KnownAfter,  \* interactions until a bandwidth class is given: 3
  Factor,      \* how much longer than its latency a peer may take: 5000 / 200
  MinTimeout,  \* 500 ms
  BaseTimeout, \* SEARCH_TIMEOUT_MS, the longest timeout also
  MaxPace      \* bound of the latencies in the model

ASSUME RoutingAssumption ==
  /\ IsFiniteSet(Peers)
  /\ Finds \subseteq {S \in SUBSET Peers : Cardinality(S) <= 2 * MaxFanout}
  /\ Moods \in [Peers -> (SUBSET (0 .. MaxPace)) \ {{}}]
  /\ MaxFanout \in Nat \ {0} /\ KnownAfter \in Nat \ {0} /\ Factor \in Nat /\ Factor > 1
  /\ MinTimeout \in Nat /\ BaseTimeout \in Nat /\ MinTimeout <= BaseTimeout
  /\ MaxPace \in Nat /\ MaxPace < BaseTimeout

VARIABLES
  stage,    \* stage[q]: where the query is
  found,    \* found[q]: the peers the DHT or the host knows for it, the best-scored of them
  ask,      \* ask[q][p]: how far the task of q that asks p is
  deadline, \* deadline[q][p]: its timeout
  profile,  \* profile[p]: what the tracker knows of p
  pace      \* pace[p]: how long p takes at present, 0 for ever

routingVars == <<stage, found, ask, deadline, profile, pace>>

QueryStage == {"idle", "lookup", "asking"}
Asking == {"asking", "answered", "failed"}
Finished == {"delivered", "empty"}
AskStage == {"none"} \cup Asking \cup Finished

\* avg: avg_latency_ms, 0 until the first success; seen: total_interactions,
\* 0 when there is no profile.
Profile == [avg : 0 .. MaxPace, seen : 0 .. KnownAfter]
NoProfile == [avg |-> 0, seen |-> 0]

Lesser(x, y) == IF x <= y THEN x ELSE y
Greater(x, y) == IF x >= y THEN x ELSE y

RoutingInit ==
  /\ stage = [q \in Queries |-> "idle"]
  /\ found = [q \in Queries |-> {}]
  /\ ask = [q \in Queries |-> [p \in Peers |-> "none"]]
  /\ deadline = [q \in Queries |-> [p \in Peers |-> 0]]
  /\ profile = [p \in Peers |-> NoProfile]
  /\ pace \in {m \in [Peers -> 0 .. MaxPace] : \A p \in Peers : m[p] \in Moods[p]}

-----------------------------------------------------------------------------
(* PeerProfileTracker *)

\* rank_by_latency: whoever has no bandwidth class yet comes last.
Rank(p) == IF profile[p].seen < KnownAfter THEN MaxPace + 1 ELSE profile[p].avg

\* The sets of k peers a sort of the candidates by rank may put in front.
Fastest(candidates, k) ==
  {S \in SUBSET candidates :
     /\ Cardinality(S) = k
     /\ \A p \in S, o \in candidates \ S : Rank(p) <= Rank(o)}

\* The targets: the faster half and then, because each of the slower ones may be
\* promoted, any of them, cut off at MAX_FANOUT.
TargetsByRank(candidates) ==                     \* fault: diversity=False
  Fastest(candidates, Lesser(MaxFanout, Cardinality(candidates)))
TargetsWithGaps(candidates) ==                   \* fault: who is not promoted is left out
  LET half == Greater(1, Cardinality(candidates) \div 2)
  IN  UNION {{fast \cup slow : slow \in {S \in SUBSET (candidates \ fast) :
                                           Cardinality(S) <= MaxFanout - half}} :
               fast \in Fastest(candidates, Lesser(MaxFanout, half))}
Targets(candidates) ==
  LET n == Cardinality(candidates)
      size == Lesser(MaxFanout, n)
      half == Greater(1, n \div 2)
  IN IF n <= 2 \/ half >= MaxFanout
     THEN Fastest(candidates, size)
     ELSE UNION {{fast \cup slow : slow \in {S \in SUBSET (candidates \ fast) :
                                              Cardinality(S) = size - half}} :
                  fast \in Fastest(candidates, half)}

\* adaptive_timeout
TimeoutTight(p) ==                               \* fault: the average itself
  IF profile[p].avg = 0 THEN BaseTimeout
  ELSE Greater(MinTimeout, Lesser(profile[p].avg, BaseTimeout))
Timeout(p) ==
  IF profile[p].avg = 0 THEN BaseTimeout
  ELSE Greater(MinTimeout, Lesser(Factor * profile[p].avg, BaseTimeout))

\* The average moves towards the latest latency.
Moved(avg, took) ==
  IF avg = 0 \/ avg = took THEN {took} ELSE (Lesser(avg, took) .. Greater(avg, took)) \ {avg}

\* The profiles after a record of p with that average: the first record of a peer may
\* remove profiles not used for long.
RecordedWith(p, avg) ==
  {[o \in Peers |->
      IF o = p THEN [avg |-> avg, seen |-> Lesser(KnownAfter, profile[p].seen + 1)]
      ELSE IF o \in stale THEN NoProfile ELSE profile[o]] :
     stale \in IF profile[p].seen = 0 THEN SUBSET (Peers \ {p}) ELSE {{}}}

Success(p) == UNION {RecordedWith(p, avg) : avg \in Moved(profile[p].avg, pace[p])}
Failure(p) == RecordedWith(p, profile[p].avg)

-----------------------------------------------------------------------------
(* route_query *)

\* What the lookup is going to find is up to the others.
Search(q) ==
  /\ stage[q] = "idle"
  /\ stage' = [stage EXCEPT ![q] = "lookup"]
  /\ \E candidates \in Finds : found' = [found EXCEPT ![q] = candidates]
  /\ UNCHANGED <<ask, deadline, profile, pace>>

\* Neither the DHT nor the host knows a peer.
NobodyFound(q) ==
  /\ stage[q] = "lookup" /\ found[q] = {}
  /\ stage' = [stage EXCEPT ![q] = "idle"]
  /\ UNCHANGED <<found, ask, deadline, profile, pace>>

\* Every task has a time of its own.
Shortest(targets) == CHOOSE t \in {Timeout(p) : p \in targets} :
                       \A p \in targets : t <= Timeout(p)
DeadlinesShared(targets) ==                      \* fault: one time for all the tasks
  [p \in Peers |-> IF p \in targets THEN Shortest(targets) ELSE 0]
Deadlines(targets) == [p \in Peers |-> IF p \in targets THEN Timeout(p) ELSE 0]

\* The candidates are at most twice as many as are asked.
FanOut(q) ==
  /\ stage[q] = "lookup" /\ found[q] # {}
  /\ \E targets \in Targets(found[q]) :
       /\ ask' = [ask EXCEPT ![q] = [p \in Peers |-> IF p \in targets THEN "asking" ELSE "none"]]
       /\ deadline' = [deadline EXCEPT ![q] = Deadlines(targets)]
  /\ stage' = [stage EXCEPT ![q] = "asking"]
  /\ UNCHANGED <<found, profile, pace>>

Goto(q, p, state) == ask' = [ask EXCEPT ![q][p] = state]

\* The answer is there before the deadline.
Answer(q, p) ==
  /\ ask[q][p] = "asking"
  /\ pace[p] \in 1 .. deadline[q][p]
  /\ profile' \in Success(p)
  /\ Goto(q, p, "answered")
  /\ UNCHANGED <<stage, found, deadline, pace>>

\* No connection, or an answer that cannot be used.
Refuse(q, p) ==
  /\ ask[q][p] = "asking" /\ pace[p] = 0
  /\ profile' \in Failure(p)
  /\ Goto(q, p, "failed")
  /\ UNCHANGED <<stage, found, deadline, pace>>

Deliver(q, p) ==
  /\ ask[q][p] \in {"answered", "failed"}
  /\ Goto(q, p, IF ask[q][p] = "answered" THEN "delivered" ELSE "empty")
  /\ UNCHANGED <<stage, found, deadline, profile, pace>>

\* The deadline passes before the answer, or just before what there is of it is
\* sent on: then the peer is recorded twice.
Overdue(q, p) ==
  \/ ask[q][p] = "asking" /\ (pace[p] = 0 \/ pace[p] >= deadline[q][p])
  \/ ask[q][p] \in {"answered", "failed"}

Expire(q, p) ==
  /\ Overdue(q, p)
  /\ profile' \in Failure(p)
  /\ Goto(q, p, "empty")
  /\ UNCHANGED <<stage, found, deadline, pace>>

\* The last task has closed the channel.
Return(q) ==
  /\ stage[q] = "asking"
  /\ \A p \in Peers : ask[q][p] \notin Asking
  /\ stage' = [stage EXCEPT ![q] = "idle"]
  /\ found' = [found EXCEPT ![q] = {}]
  /\ ask' = [ask EXCEPT ![q] = [p \in Peers |-> "none"]]
  /\ deadline' = [deadline EXCEPT ![q] = [p \in Peers |-> 0]]
  /\ UNCHANGED <<profile, pace>>

\* A peer gets slower or faster, goes or comes back.
Change(p) ==
  /\ \E k \in Moods[p] \ {pace[p]} : pace' = [pace EXCEPT ![p] = k]
  /\ UNCHANGED <<stage, found, ask, deadline, profile>>

AskStep(q, p) == Answer(q, p) \/ Deliver(q, p) \/ Expire(q, p)
QueryStep(q) == NobodyFound(q) \/ FanOut(q) \/ Return(q)

RoutingNext ==
  \/ \E q \in Queries : Search(q) \/ QueryStep(q) \/ \E p \in Peers : AskStep(q, p) \/ Refuse(q, p)
  \/ \E p \in Peers : Change(p)

RoutingSpec == RoutingInit /\ [][RoutingNext]_routingVars

\* The event loop runs, the timers go off and the DHT answers; a peer may hang and never
\* refuse.
RoutingFairSpec ==
  /\ RoutingSpec
  /\ \A q \in Queries : WF_routingVars(QueryStep(q)) /\ \A p \in Peers : WF_routingVars(AskStep(q, p))

\* Searches come again and again; whoever may be promoted at random again and again
\* is so again and again; of the answers that come in time some are sent on in time.
BusySpec ==
  /\ RoutingFairSpec
  /\ \A q \in Queries :
       /\ WF_routingVars(Search(q))
       /\ \A p \in Peers : SF_routingVars(FanOut(q) /\ ask'[q][p] = "asking") /\ SF_routingVars(Deliver(q, p))

-----------------------------------------------------------------------------
\* Everything is of its type; the deadline of whoever is asked is clamped as
\* adaptive_timeout says.
RoutingTypeOK ==
  /\ stage \in [Queries -> QueryStage]
  /\ found \in [Queries -> Finds \cup {{}}]
  /\ ask \in [Queries -> [Peers -> AskStage]]
  /\ deadline \in [Queries -> [Peers -> 0 .. BaseTimeout]]
  /\ \A q \in Queries, p \in Peers : ask[q][p] # "none" => deadline[q][p] >= MinTimeout
  /\ profile \in [Peers -> Profile]
  /\ pace \in [Peers -> 0 .. MaxPace]

\* A query that has begun to ask has asked as many peers as MAX_FANOUT and the
\* candidates allow, one task for each: that slower peers are promoted takes
\* no place from the others and adds none (rank_by_latency, route_query).
Asked(q) == {p \in Peers : ask[q][p] # "none"}

FullFanout ==
  \A q \in Queries :
    Cardinality(Asked(q)) =
      IF stage[q] = "asking" THEN Lesser(MaxFanout, Cardinality(found[q])) ELSE 0

\* Slower peers "are included with a small probability to avoid starving them"
\* (PeerProfileTracker.rank_by_latency): whoever is again and again one of fewer
\* candidates than twice the fan-out is asked again and again, whatever it and the
\* others did before.  With as many candidates as that the faster half takes all the
\* places and the others are not asked.
NoPeerStarved ==
  \A p \in Peers :
    []<>(\E q \in Queries : p \in found[q] /\ Cardinality(found[q]) < 2 * MaxFanout) =>
      []<>(\E q \in Queries : ask[q][p] = "asking")

\* "Slower peers get more time" (PeerProfileTracker.adaptive_timeout): while a peer
\* keeps its latency and is within its timeout, no answer, failure or pruning takes that
\* time away, though every answer moves the average the timeout is made from.
InTimeStays ==
  [][\A p \in Peers :
       pace[p] \in 1 .. Timeout(p) - 1 /\ pace'[p] = pace[p] => pace[p] < Timeout(p)']_routingVars

\* A peer that keeps a latency within its timeout and is asked again and again is in the
\* results again and again, however slow it is and whoever else is asked (route_query).
\* A timeout does not move the average: a peer that slows down beyond its timeout may
\* stay outside for ever, and nothing is said of it.
HeardAgain ==
  \A p \in Peers : \A k \in Moods[p] \ {0} :
    /\ <>[](pace[p] = k /\ k < Timeout(p))
    /\ []<>(\E q \in Queries : ask[q][p] = "asking")
    => []<>(\E q \in Queries : ask[q][p] = "delivered")
=============================================================================
