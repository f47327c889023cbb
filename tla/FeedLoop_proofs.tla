-------------------------- MODULE FeedLoop_proofs --------------------------
(* What MCFeedLoop checks on a small instance, for every value of the      *)
(* constants, and that FeedLoop implements ItemDelivery.                   *)
EXTENDS FeedLoop, FiniteSetTheorems, SequenceTheorems, TLAPS

(* What the two structures of the queue, the set of seen items and the     *)
(* poll task have to do with each other.                                   *)
Linked ==
  /\ Cardinality(urls) = Len(heap)
  /\ urls \subseteq seen /\ taken \subseteq seen /\ poll.new \subseteq seen
  /\ urls \cap taken = {}
  /\ poll.new \cap (urls \cup taken) = {}
  /\ poll.pc # "enqueueing" => poll.new = {}
  /\ poll.todo \subseteq Registered

IInv == TypeOK /\ HeapIsExact /\ Linked /\ FeedsWithinLimit

USE FeedAssumption DEF FeedAssumption

LEMMA GoOnType ==
  ASSUME NEW todo \in SUBSET Feeds
  PROVE  /\ GoOn(todo) \in [pc : {"resting", "polling", "enqueueing", "dead"},
                            todo : SUBSET Feeds, new : SUBSET Items]
         /\ GoOn(todo).new = {} /\ GoOn(todo).pc # "enqueueing"
BY DEF GoOn, At

(* Every entry of the heap is live, so dequeue takes the head.             *)
LEMMA HeadIsFirst ==
  ASSUME IInv, Live # {}
  PROVE  /\ Len(heap) > 0 /\ First = 1 /\ heap[1] \in urls
         /\ SubSeq(heap, First + 1, Len(heap)) = Tail(heap)
         /\ Tail(heap) \in Seq(Items) /\ Len(Tail(heap)) = Len(heap) - 1
         /\ \A i \in 1 .. Len(heap) - 1 : Tail(heap)[i] = heap[i + 1]
<1>1. heap \in Seq(Items) /\ Len(heap) \in Nat /\ DOMAIN heap = 1 .. Len(heap)
  BY DEF IInv, TypeOK
<1>2. Live = 1 .. Len(heap)
  BY <1>1 DEF IInv, HeapIsExact, Live
<1>3. Len(heap) > 0 /\ 1 \in Live /\ \A j \in Live : 1 <= j
  BY <1>1, <1>2
<1>4. First = 1
  <2>1. First \in Live /\ \A j \in Live : First <= j
    BY <1>3 DEF First
  <2>2. QED
    BY <2>1, <1>2, <1>3
<1>5. SubSeq(heap, 2, Len(heap)) = Tail(heap)
  BY <1>1, <1>3, SMT
<1>6. QED
  BY <1>1, <1>2, <1>3, <1>4, <1>5 DEF Live

(* What a step that leaves the queue or the feeds alone preserves.         *)
LEMMA Frame ==
  /\ HeapIsExact /\ UNCHANGED <<heap, urls>> => HeapIsExact'
  /\ FeedsWithinLimit /\ Registered' = Registered => FeedsWithinLimit'
  /\ UNCHANGED feed => Registered' = Registered
<1>1. HeapIsExact /\ UNCHANGED <<heap, urls>> => HeapIsExact'
  BY DEF HeapIsExact
<1>2. FeedsWithinLimit /\ Registered' = Registered => FeedsWithinLimit'
  BY DEF FeedsWithinLimit
<1>3. UNCHANGED feed => Registered' = Registered
  BY DEF Registered
<1>4. QED
  BY <1>1, <1>2, <1>3

LEMMA InitInv == Init => IInv
<1> SUFFICES ASSUME Init PROVE IInv
  OBVIOUS
<1>1. Cardinality({}) = 0 /\ Registered = {}
  BY FS_EmptySet DEF Init, Registered
<1>2. QED
  BY <1>1 DEF Init, IInv, TypeOK, HeapIsExact, Linked, FeedsWithinLimit

(* enqueue of one item of an answer.                                       *)
LEMMA EnqueueStep ==
  ASSUME IInv, NEW u \in Items, EnqueueNext(u)
  PROVE  IInv'
<1> USE DEF EnqueueNext, IInv
<1>1. heap \in Seq(Items) /\ urls \subseteq Items /\ Len(heap) \in Nat
      /\ poll.todo \subseteq Feeds /\ u \notin urls /\ u \notin taken /\ u \in seen
  BY DEF TypeOK, Linked
<1>2. /\ poll' \in [pc : {"resting", "polling", "enqueueing", "dead"},
                    todo : SUBSET Feeds, new : SUBSET Items]
      /\ poll'.new \subseteq poll.new /\ u \notin poll'.new
      /\ poll'.pc # "enqueueing" => poll'.new = {}
  <2>1. CASE poll.new = {u}
    BY <2>1, <1>1, GoOnType
  <2>2. CASE poll.new # {u}
    BY <2>2 DEF TypeOK
  <2>3. QED
    BY <2>1, <2>2
<1>a. FeedsWithinLimit' /\ Registered' = Registered /\ poll'.todo \subseteq poll.todo
  <2>1. FeedsWithinLimit' /\ Registered' = Registered
    BY Frame
  <2>2. poll'.todo \subseteq poll.todo
    BY <1>1 DEF GoOn, At, TypeOK
  <2>3. QED
    BY <2>1, <2>2
<1>3. CASE Len(heap) >= MaxSize
  <2>1. heap' = heap /\ urls' = urls
    BY <1>3 DEF Enqueue
  <2>2. HeapIsExact'
    BY <2>1, Frame
  <2>3. TypeOK' /\ Linked'
    BY <2>1, <1>1, <1>2, <1>a DEF TypeOK, Linked
  <2>4. QED
    BY <2>2, <2>3, <1>a
<1>4. CASE ~(Len(heap) >= MaxSize)
  <2>1. heap' = Append(heap, u) /\ urls' = urls \cup {u}
    BY <1>1, <1>4 DEF Enqueue
  <2>2. heap' \in Seq(Items) /\ Len(heap') = Len(heap) + 1
        /\ DOMAIN heap = 1 .. Len(heap) /\ DOMAIN heap' = 1 .. Len(heap) + 1
        /\ \A i \in 1 .. Len(heap) : heap'[i] = heap[i]
        /\ heap'[Len(heap) + 1] = u
    BY <2>1, <1>1
  <2>3. Cardinality(urls') = Cardinality(urls) + 1
    BY <2>1, <1>1, FS_AddElement, FS_Subset
  <2>4. HeapIsExact'
    <3>1. {heap'[i] : i \in DOMAIN heap'} = urls'
      BY <2>1, <2>2, <1>1 DEF HeapIsExact
    <3>2. \A i, j \in DOMAIN heap' : heap'[i] = heap'[j] => i = j
      BY <2>2, <1>1 DEF HeapIsExact
    <3>3. Len(heap') <= MaxSize
      BY <2>2, <1>1, <1>4
    <3>4. QED
      BY <3>1, <3>2, <3>3 DEF HeapIsExact
  <2>5. TypeOK' /\ Linked'
    <3>1. TypeOK'
      BY <2>1, <2>2, <1>1, <1>2 DEF TypeOK
    <3>2. Linked'
      BY <2>1, <2>2, <2>3, <1>1, <1>2, <1>a DEF Linked
    <3>3. QED
      BY <3>1, <3>2
  <2>6. QED
    BY <2>4, <2>5, <1>a
<1>5. QED
  BY <1>3, <1>4

(* dequeue, and the end of a batch.                                        *)
LEMMA BatchStep ==
  ASSUME IInv, NEW left \in 0 .. Batch, NextOfBatch(left),
         UNCHANGED <<feed, poll, seen>>, Quiet
  PROVE  IInv'
<1> USE DEF IInv
<1>0. poll.new = {} /\ FeedsWithinLimit' /\ Registered' = Registered /\ heap \in Seq(Items)
      /\ left \in Nat /\ Batch \in Nat
  BY Frame DEF Quiet, Linked, TypeOK
<1>1. CASE left = 0
  <2>1. HeapIsExact'
    BY <1>1, Frame DEF NextOfBatch
  <2>2. TypeOK' /\ Linked'
    BY <1>0, <1>1 DEF NextOfBatch, TypeOK, Linked
  <2>3. QED
    BY <2>1, <2>2, <1>0
<1>2. CASE left # 0 /\ Live = {}
  <2>1. heap = <<>>
    BY <1>2, <1>0 DEF Live, HeapIsExact
  <2>2. heap' = heap /\ urls' = urls /\ taken' = taken
    BY <2>1, <1>2 DEF NextOfBatch
  <2>3. HeapIsExact'
    BY <2>2, Frame
  <2>4. TypeOK' /\ Linked'
    BY <2>2, <1>0, <1>2 DEF NextOfBatch, TypeOK, Linked
  <2>5. QED
    BY <2>3, <2>4, <1>0
<1>3. CASE left # 0 /\ Live # {}
  <2>1. /\ Len(heap) > 0 /\ heap' = Tail(heap)
        /\ urls' = urls \ {heap[1]} /\ taken' = taken \cup {heap[1]}
        /\ loop' = [pc |-> "crawling", left |-> left - 1]
        /\ heap[1] \in urls /\ heap' \in Seq(Items) /\ Len(heap') = Len(heap) - 1
        /\ \A i \in 1 .. Len(heap) - 1 : heap'[i] = heap[i + 1]
    BY <1>3, HeadIsFirst DEF NextOfBatch, DequeuedUrls
  <2>2. DOMAIN heap = 1 .. Len(heap) /\ DOMAIN heap' = 1 .. Len(heap) - 1 /\ Len(heap) \in Nat
    BY <2>1, <1>0
  <2>3. Cardinality(urls') = Cardinality(urls) - 1
    <3>1. IsFiniteSet(urls)
      BY FS_Subset DEF TypeOK
    <3>2. QED
      BY <2>1, <3>1, FS_RemoveElement
  <2>4. HeapIsExact'
    <3>1. \A i, j \in DOMAIN heap' : heap'[i] = heap'[j] => i = j
      BY <2>1, <2>2 DEF HeapIsExact
    <3>2. \A i \in DOMAIN heap' : heap'[i] \in urls'
      BY <2>1, <2>2 DEF HeapIsExact
    <3>3. ASSUME NEW v \in urls' PROVE \E i \in DOMAIN heap' : heap'[i] = v
      <4>1. PICK i \in DOMAIN heap : heap[i] = v
        BY <2>1 DEF HeapIsExact
      <4>2. i # 1 /\ i - 1 \in DOMAIN heap' /\ heap'[i - 1] = v
        BY <4>1, <2>1, <2>2, <3>3
      <4>3. QED
        BY <4>2
    <3>4. QED
      BY <3>1, <3>2, <3>3, <2>1, <2>2 DEF HeapIsExact
  <2>5. TypeOK' /\ Linked'
    <3>1. TypeOK'
      BY <2>1, <1>0, <1>3 DEF TypeOK
    <3>2. Linked'
      BY <2>1, <2>2, <2>3, <1>0 DEF TypeOK, Linked
    <3>3. QED
      BY <3>1, <3>2
  <2>6. QED
    BY <2>4, <2>5, <1>0
<1>4. QED
  BY <1>1, <1>2, <1>3

LEMMA NextInv == IInv /\ [Next]_vars => IInv'
<1> SUFFICES ASSUME IInv, [Next]_vars PROVE IInv'
  OBVIOUS
<1> USE DEF IInv
<1>a. {f \in Feeds : Due(f)} \subseteq Registered
  BY DEF Due, Registered
<1>1. CASE PollWake
  <2>1. HeapIsExact' /\ FeedsWithinLimit'
    BY <1>1, Frame DEF PollWake
  <2>2. TypeOK' /\ Linked'
    BY <1>1, <1>a, Frame DEF PollWake, At, TypeOK, Linked
  <2>3. QED
    BY <2>1, <2>2
<1>2. ASSUME NEW f \in Feeds, PollAnswer(f) PROVE IInv'
  <2>1. feed' \in [Feeds -> {Absent, Never} \cup (0 .. Interval)] /\ Registered' = Registered
    BY <1>2 DEF PollAnswer, Polls, TypeOK, Linked, Registered
  <2>2. PICK new \in SUBSET (Items \ seen) :
          /\ seen' = seen \cup new
          /\ poll' = IF new = {} THEN GoOn(poll.todo \ {f})
                     ELSE At("enqueueing", poll.todo \ {f}, new)
    BY <1>2 DEF PollAnswer, SeenWith
  <2>3. /\ poll' \in [pc : {"resting", "polling", "enqueueing", "dead"},
                      todo : SUBSET Feeds, new : SUBSET Items]
        /\ poll'.new = new
        /\ poll'.pc # "enqueueing" => poll'.new = {}
    <3>1. poll.todo \ {f} \in SUBSET Feeds
      BY DEF TypeOK
    <3>2. QED
      BY <2>2, <3>1, GoOnType DEF At
  <2>4. HeapIsExact' /\ FeedsWithinLimit'
    BY <1>2, <2>1, Frame DEF PollAnswer
  <2>5. TypeOK' /\ Linked'
    <3>1. poll'.todo \subseteq poll.todo
      BY <2>2 DEF GoOn, At
    <3>2. TypeOK'
      BY <1>2, <2>1, <2>2, <2>3 DEF PollAnswer, TypeOK
    <3>3. Linked'
      BY <1>2, <2>1, <2>2, <2>3, <3>1 DEF PollAnswer, Polls, TypeOK, Linked
    <3>4. QED
      BY <3>2, <3>3
  <2>6. QED
    BY <2>4, <2>5
<1>3. ASSUME NEW f \in Feeds, PollFails(f) PROVE IInv'
  <2>1. feed' \in [Feeds -> {Absent, Never} \cup (0 .. Interval)] /\ Registered' = Registered
    BY <1>3 DEF PollFails, Polls, TypeOK, Linked, Registered
  <2>2. poll.todo \ {f} \in SUBSET Feeds
    BY DEF TypeOK
  <2>3. HeapIsExact' /\ FeedsWithinLimit'
    BY <1>3, <2>1, Frame DEF PollFails
  <2>4. TypeOK' /\ Linked'
    <3>1. poll'.todo \subseteq poll.todo
      BY <1>3 DEF PollFails, GoOn, At
    <3>2. QED
      BY <1>3, <2>1, <2>2, <3>1, GoOnType DEF PollFails, Polls, TypeOK, Linked
  <2>5. QED
    BY <2>3, <2>4
<1>4. ASSUME NEW f \in Feeds, PollDies(f) PROVE IInv'
  <2>1. HeapIsExact' /\ FeedsWithinLimit'
    BY <1>4, Frame DEF PollDies
  <2>2. TypeOK' /\ Linked'
    BY <1>4 DEF PollDies, Polls, At, TypeOK, Linked
  <2>3. QED
    BY <2>1, <2>2
<1>5. ASSUME NEW u \in Items, EnqueueNext(u) PROVE IInv'
  BY <1>5, EnqueueStep
<1>6. CASE Quiet /\ LoopTurn
  <2>1. CASE urls = {}
    <3>1. HeapIsExact' /\ FeedsWithinLimit'
      BY <1>6, <2>1, Frame DEF LoopTurn
    <3>2. TypeOK' /\ Linked'
      <4>1. loop' = [pc |-> "page", left |-> 0] /\ UNCHANGED <<heap, urls, taken, feed, poll, seen>>
        BY <1>6, <2>1 DEF LoopTurn
      <4>2. TypeOK'
        BY <4>1 DEF TypeOK
      <4>3. Linked'
        BY <4>1, Frame DEF Linked
      <4>4. QED
        BY <4>2, <4>3
    <3>3. QED
      BY <3>1, <3>2
  <2>2. CASE urls # {}
    BY <1>6, <2>2, BatchStep DEF LoopTurn
  <2>3. QED
    BY <2>1, <2>2
<1>7. CASE Quiet /\ ItemDone
  <2>1. loop.left \in 0 .. Batch
    BY DEF TypeOK
  <2>2. QED
    BY <1>7, <2>1, BatchStep DEF ItemDone
<1>8. CASE Quiet /\ LoopPage
  <2>1. PICK named \in SUBSET Feeds : \E new \in WithRoom(Registered, named) :
          feed' = [f \in Feeds |-> IF f \in new \ Registered THEN Never ELSE feed[f]]
    BY <1>8 DEF LoopPage
  <2>2. PICK new \in WithRoom(Registered, named) :
          feed' = [f \in Feeds |-> IF f \in new \ Registered THEN Never ELSE feed[f]]
    BY <2>1
  <2>3. new \subseteq Feeds /\ Registered \subseteq new /\ Registered' = new
    <3>1. new \subseteq Feeds /\ Registered \subseteq new
      BY <2>2 DEF WithRoom, Registered
    <3>2. QED
      BY <2>2, <3>1 DEF Registered
  <2>4. Cardinality(new) <= MaxFeeds
    BY <2>2 DEF WithRoom, FeedsWithinLimit
  <2>5. HeapIsExact' /\ FeedsWithinLimit'
    BY <1>8, <2>3, <2>4, Frame DEF LoopPage, FeedsWithinLimit
  <2>6. feed' \in [Feeds -> {Absent, Never} \cup (0 .. Interval)]
    BY <2>2 DEF TypeOK
  <2>7. TypeOK' /\ Linked'
    BY <1>8, <2>3, <2>6 DEF LoopPage, TypeOK, Linked
  <2>8. QED
    BY <2>5, <2>7
<1>9. CASE Elapse
  <2>1. feed' \in [Feeds -> {Absent, Never} \cup (0 .. Interval)] /\ Registered' = Registered
    BY <1>9 DEF Elapse, TypeOK, Registered
  <2>2. HeapIsExact' /\ FeedsWithinLimit'
    BY <1>9, <2>1, Frame DEF Elapse
  <2>3. TypeOK' /\ Linked'
    BY <1>9, <2>1 DEF Elapse, TypeOK, Linked
  <2>4. QED
    BY <2>2, <2>3
<1>10. CASE Restart
  <2>1. Cardinality({}) = 0 /\ Registered' = {}
    BY <1>10, FS_EmptySet DEF Restart, Registered
  <2>2. QED
    BY <1>10, <2>1 DEF Restart, At, TypeOK, HeapIsExact, Linked, FeedsWithinLimit
<1>11. CASE UNCHANGED vars
  <2>1. HeapIsExact' /\ FeedsWithinLimit'
    BY <1>11, Frame DEF vars
  <2>2. TypeOK' /\ Linked'
    BY <1>11, Frame DEF vars, TypeOK, Linked
  <2>3. QED
    BY <2>1, <2>2
<1>12. QED
  BY <1>1, <1>2, <1>3, <1>4, <1>5, <1>6, <1>7, <1>8, <1>9, <1>10, <1>11
     DEF Next, PollStep, LoopStep

LEMMA Invariance == Spec => []IInv
<1>1. QED
  BY InitInv, NextInv, PTL DEF Spec

(* The feeds, the poll task, the queue and the loop are always of their    *)
(* type.                                                                   *)
THEOREM TypeCorrect == Spec => []TypeOK
<1>1. IInv => TypeOK
  BY DEF IInv
<1>2. QED
  BY Invariance, <1>1, PTL

(* The heap and the set of URLs of the priority queue agree after any      *)
(* enqueues and dequeues, and never hold more than max_size.               *)
THEOREM QueueExact == Spec => []HeapIsExact
<1>1. IInv => HeapIsExact
  BY DEF IInv
<1>2. QED
  BY Invariance, <1>1, PTL

(* No pages make the monitor hold more feeds than rss_max_feeds.           *)
THEOREM LimitKept == Spec => []FeedsWithinLimit
<1>1. IInv => FeedsWithinLimit
  BY DEF IInv
<1>2. QED
  BY Invariance, <1>1, PTL

-----------------------------------------------------------------------------
(* The steps that give an item to the crawler are offers.                  *)
LEMMA BatchOffers ==
  ASSUME IInv, NEW left \in 0 .. Batch, NextOfBatch(left),
         UNCHANGED <<feed, poll, seen>>, Quiet
  PROVE  [Delivery!Next]_(Delivery!vars)
<1>1. CASE left = 0 \/ Live = {}
  BY <1>1 DEF NextOfBatch, Delivery!vars
<1>2. CASE left # 0 /\ Live # {}
  <2>1. /\ urls' = urls \ {heap[1]} /\ taken' = taken \cup {heap[1]} /\ heap[1] \in urls
        /\ heap[1] \in Items
    BY <1>2, HeadIsFirst DEF NextOfBatch, DequeuedUrls, IInv, TypeOK
  <2>2. (seen \ (urls \cup taken \cup poll.new))' = seen \ (urls \cup taken \cup poll.new)
    BY <2>1
  <2>3. Delivery!Offer(heap[1])
    BY <2>1, <2>2 DEF Delivery!Offer
  <2>4. QED
    BY <2>1, <2>3 DEF Delivery!Next
<1>3. QED
  BY <1>1, <1>2

(* An item that is queued or refused has been announced.                   *)
LEMMA EnqueueAnnounces ==
  ASSUME IInv, NEW u \in Items, EnqueueNext(u)
  PROVE  [Delivery!Next]_(Delivery!vars)
<1> DEFINE dropped == seen \ (urls \cup taken \cup poll.new)
<1>1. /\ u \in poll.new /\ u \in seen /\ u \notin urls \cup taken
      /\ UNCHANGED <<seen, taken>> /\ poll'.new = poll.new \ {u}
  <2>1. poll.todo \in SUBSET Feeds
    BY DEF IInv, TypeOK
  <2>2. CASE poll.new = {u}
    BY <2>1, <2>2, GoOnType DEF EnqueueNext, IInv, Linked
  <2>3. CASE poll.new # {u}
    BY <2>3 DEF EnqueueNext, IInv, Linked, TypeOK
  <2>4. QED
    BY <2>2, <2>3
<1>2. u \in Items \ (urls \cup taken \cup dropped)
  BY <1>1
<1>3. CASE Len(heap) >= MaxSize
  <2>1. urls' = urls /\ dropped' = dropped \cup {u}
    BY <1>1, <1>3 DEF EnqueueNext, Enqueue
  <2>2. Cardinality(urls) = MaxSize
    BY <1>3 DEF IInv, Linked, HeapIsExact, TypeOK
  <2>3. Delivery!Announce
    <3>1. {u} \in SUBSET (Items \ Delivery!Known) /\ {} \in SUBSET {u}
      BY <1>2 DEF Delivery!Known
    <3>2. /\ {} # {u} => NoRoom(urls \cup {})
          /\ urls' = urls \cup {} /\ dropped' = dropped \cup ({u} \ {}) /\ UNCHANGED taken
      BY <2>1, <2>2, <1>1 DEF NoRoom
    <3>3. QED
      BY <3>1, <3>2 DEF Delivery!Announce
  <2>4. QED
    BY <2>3 DEF Delivery!Next
<1>4. CASE ~(Len(heap) >= MaxSize)
  <2>1. urls' = urls \cup {u} /\ dropped' = dropped
    BY <1>1, <1>4 DEF EnqueueNext, Enqueue
  <2>2. Delivery!Announce
    <3>1. {u} \in SUBSET (Items \ Delivery!Known) /\ {u} \in SUBSET {u}
      BY <1>2 DEF Delivery!Known
    <3>2. /\ {u} # {u} => NoRoom(urls \cup {u})
          /\ urls' = urls \cup {u} /\ dropped' = dropped \cup ({u} \ {u}) /\ UNCHANGED taken
      BY <2>1, <1>1
    <3>3. QED
      BY <3>1, <3>2 DEF Delivery!Announce
  <2>3. QED
    BY <2>2 DEF Delivery!Next
<1>5. QED
  BY <1>3, <1>4

LEMMA StepDelivers == IInv /\ [Next]_vars => [Delivery!Next]_(Delivery!vars)
<1> SUFFICES ASSUME IInv, [Next]_vars PROVE [Delivery!Next]_(Delivery!vars)
  OBVIOUS
<1>1. CASE PollWake
  BY <1>1 DEF PollWake, At, Delivery!vars, IInv, Linked
<1>2. ASSUME NEW f \in Feeds, PollAnswer(f) PROVE UNCHANGED Delivery!vars
  <2>1. PICK new \in SUBSET (Items \ seen) :
          /\ seen' = seen \cup new
          /\ poll' = IF new = {} THEN GoOn(poll.todo \ {f})
                     ELSE At("enqueueing", poll.todo \ {f}, new)
    BY <1>2 DEF PollAnswer, SeenWith
  <2>2. poll.new = {} /\ poll'.new = new
    <3>1. poll.todo \ {f} \in SUBSET Feeds
      BY DEF IInv, TypeOK
    <3>2. QED
      BY <1>2, <2>1, <3>1, GoOnType DEF PollAnswer, Polls, At, IInv, Linked
  <2>3. QED
    BY <1>2, <2>1, <2>2 DEF PollAnswer, Delivery!vars, IInv, Linked
<1>3. ASSUME NEW f \in Feeds, PollFails(f) PROVE UNCHANGED Delivery!vars
  <2>1. poll.todo \ {f} \in SUBSET Feeds
    BY DEF IInv, TypeOK
  <2>2. QED
    BY <1>3, <2>1, GoOnType DEF PollFails, Polls, Delivery!vars, IInv, Linked
<1>4. ASSUME NEW f \in Feeds, PollDies(f) PROVE UNCHANGED Delivery!vars
  BY <1>4 DEF PollDies, Polls, At, Delivery!vars, IInv, Linked
<1>5. ASSUME NEW u \in Items, EnqueueNext(u) PROVE [Delivery!Next]_(Delivery!vars)
  BY <1>5, EnqueueAnnounces
<1>6. CASE Quiet /\ LoopTurn
  <2>1. CASE urls = {}
    BY <1>6, <2>1 DEF LoopTurn, Delivery!vars
  <2>2. CASE urls # {}
    BY <1>6, <2>2, BatchOffers DEF LoopTurn
  <2>3. QED
    BY <2>1, <2>2
<1>7. CASE Quiet /\ ItemDone
  <2>1. loop.left \in 0 .. Batch
    BY DEF IInv, TypeOK
  <2>2. QED
    BY <1>7, <2>1, BatchOffers DEF ItemDone
<1>8. CASE Quiet /\ LoopPage
  BY <1>8 DEF LoopPage, Delivery!vars
<1>9. CASE Elapse
  BY <1>9 DEF Elapse, Delivery!vars
<1>10. CASE Restart
  <2>1. Delivery!Forget
    BY <1>10 DEF Restart, At, Delivery!Forget
  <2>2. QED
    BY <2>1 DEF Delivery!Next
<1>11. CASE UNCHANGED vars
  BY <1>11 DEF vars, Delivery!vars
<1>12. QED
  BY <1>1, <1>2, <1>3, <1>4, <1>5, <1>6, <1>7, <1>8, <1>9, <1>10, <1>11
     DEF Next, PollStep, LoopStep

(* FeedLoop implements ItemDelivery: no item is offered twice in the life  *)
(* of a process and only a full queue loses one.                           *)
THEOREM Delivers == Spec => Delivery!Spec
<1>1. Init => Delivery!Init
  BY DEF Init, Delivery!Init
<1>2. QED
  BY <1>1, Invariance, StepDelivers, PTL DEF Spec, Delivery!Spec
=============================================================================
