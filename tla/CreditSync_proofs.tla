-------------------------- MODULE CreditSync_proofs --------------------------
(***************************************************************************)
(* Theorems about CreditSync for any nodes, owners, ids, clocks and bounds.*)
(* What is counted at a node is true because every summary under way is:   *)
(* it carries the id, the owner and no more than the credits of its sender.*)
(***************************************************************************)
EXTENDS CreditSync, TLAPS

TableType == table \in [Nodes -> SUBSET Row]
KnownType == known \in [Nodes -> SUBSET [id : Ids, since : 0 .. Interval + 1]]

LEMMA MessageType ==
  ASSUME NEW m \in Message
  PROVE  /\ m.from \in Nodes /\ m.to \in Nodes /\ m.age \in Nat /\ m.id \in Ids
         /\ m.owner \in Owners \cup {NoOwner} /\ m.earned \in Nat
         /\ [m EXCEPT !.read = FALSE] \in Message
         /\ m.age # MaxDelay => [m EXCEPT !.age = @ + 1] \in Message
<1> USE SyncAssumption
<1>1. /\ m.from \in Nodes /\ m.to \in Nodes /\ m.age \in 0 .. MaxDelay /\ m.id \in Ids
      /\ m.owner \in Owners \cup {NoOwner} /\ m.earned \in Nat /\ m.age \in Nat
  BY DEF Message
<1>2. [m EXCEPT !.read = FALSE] \in Message
  BY DEF Message
<1>3. ASSUME m.age # MaxDelay PROVE [m EXCEPT !.age = @ + 1] \in Message
  <2>1. m.age + 1 \in 0 .. MaxDelay
    BY <1>1, <1>3
  <2> QED BY <2>1 DEF Message
<1> QED BY <1>1, <1>2, <1>3

\* Upserting a row of the type and noting a peer keep the tables' types.
LEMMA ReceiveType ==
  ASSUME TypeOK, NEW n \in Nodes, NEW m \in wire, ReceiveSummary(n, m)
  PROVE  TableType' /\ KnownType'
<1> DEFINE row == RowOf(n, m)
<1>1. m \in Message
  BY DEF TypeOK
<1>2. CASE ~Accepts(n, row)
  BY <1>2 DEF ReceiveSummary, TypeOK, TableType, KnownType
<1>3. CASE Accepts(n, row)
  <2>1. row.id \in Ids /\ row.earned \in Nat /\ row.owner \in Owners
    BY <1>1, <1>3, MessageType, SyncAssumption DEF RowOf, Accepts, OwnersAgree, HasIdentity
  <2>2. row.age \in Int
    <3>1. m.from \in Nodes /\ m.age \in Nat
      BY <1>1, MessageType
    <3>2. Ahead[n] \in Nat /\ Ahead[m.from] \in Nat /\ TTL \in Nat
      BY <3>1, SyncAssumption
    <3>3. m.age + Ahead[n] - Ahead[m.from] \in Int /\ TTL + 1 \in Int
      BY <3>1, <3>2
    <3>4. row.age = Smaller(m.age + Ahead[n] - Ahead[m.from], TTL + 1)
      BY DEF RowOf
    <3> QED BY <3>3, <3>4 DEF Smaller
  <2>3. row \in Row
    BY <2>1, <2>2 DEF RowOf, Row
  <2>4. table' = [table EXCEPT ![n] = Upsert(@, row)] /\ known' = [known EXCEPT ![n] = Noted(@, row.id, 0)]
    BY <1>3 DEF ReceiveSummary
  <2>5. TableType'
    BY <2>3, <2>4 DEF TypeOK, TableType, Upsert
  <2>6. KnownType'
    BY <2>1, <2>4, SyncAssumption DEF TypeOK, KnownType, Noted
  <2> QED BY <2>5, <2>6
<1> QED BY <1>2, <1>3

LEMMA UnreadType ==
  ASSUME wire \subseteq Message, NEW n \in Nodes
  PROVE  Unread(n) \subseteq Message
BY MessageType DEF Unread

LEMMA StartedType ==
  ASSUME NEW n \in Nodes, NEW connected \in SUBSET Nodes
  PROVE  Started(n, connected) \in TaskState
BY DEF Started, TaskState, Ids

\* A task may skip a peer, wait for one or stop waiting.
LEMMA TaskStateType ==
  ASSUME NEW t \in TaskState
  PROVE  /\ \A x : [t EXCEPT !.todo = @ \ {x}] \in TaskState
         /\ \A p \in Nodes \cup {None} : [t EXCEPT !.waits = p] \in TaskState
         /\ [t EXCEPT !.pc = "loop"] \in TaskState
         /\ \A S \in SUBSET Ids : [t EXCEPT !.pc = "round", !.todo = S] \in TaskState
<1>1. ASSUME NEW x
      PROVE  [t EXCEPT !.todo = @ \ {x}] \in TaskState
  BY DEF TaskState
<1>2. ASSUME NEW p \in Nodes \cup {None}
      PROVE  [t EXCEPT !.waits = p] \in TaskState
  BY DEF TaskState
<1>3. [t EXCEPT !.pc = "loop"] \in TaskState
  BY DEF TaskState
<1>4. ASSUME NEW S \in SUBSET Ids
      PROVE  [t EXCEPT !.pc = "round", !.todo = S] \in TaskState
  BY DEF TaskState
<1> QED BY <1>1, <1>2, <1>3, <1>4

LEMMA SendType ==
  ASSUME TypeOK, NEW n \in Nodes, NEW p \in Nodes, NEW m \in Message, Send(n, p, m)
  PROVE  task' \in [Nodes -> TaskState] /\ wire' \subseteq Message
<1>1. Without(n, p) \in TaskState
  BY TaskStateType DEF TypeOK, Without
<1>2. [Without(n, p) EXCEPT !.waits = p] \in TaskState
  BY <1>1, TaskStateType
<1> QED BY <1>2 DEF TypeOK, Send, Continue

LEMMA BuildType ==
  ASSUME TypeOK, NEW n \in Nodes, NEW p \in Nodes, NEW kind \in {"exchange", "answer"}
  PROVE  /\ BuildSummary(n, p, kind) \in Message
         /\ Announcement(n, p) \in Message
BY SyncAssumption DEF TypeOK, BuildSummary, Announcement, Message, Ids

\* A round's clock may be set back.
LEMMA Reset ==
  ASSUME sinceRound \in [Nodes -> 0 .. Interval], NEW n \in Nodes
  PROVE  [sinceRound EXCEPT ![n] = 0] \in [Nodes -> 0 .. Interval]
<1>1. 0 \in 0 .. Interval
  BY SyncAssumption
<1> QED BY <1>1

\* What a main task does keeps the types.
LEMMA TaskType ==
  ASSUME TypeOK, NEW n \in Nodes, TaskStep(n)
  PROVE  TypeOK'
<1> USE SyncAssumption
<1>0. task[n] \in TaskState /\ \A t \in TaskState : Continue(n, t) => task' \in [Nodes -> TaskState]
  BY DEF TypeOK, Continue
<1>1. CASE AnnounceNext(n)
  <2>1. PICK p \in Nodes :
          \/ Send(n, p, Announcement(n, p))
          \/ Continue(n, Without(n, p)) /\ UNCHANGED wire
    BY <1>1 DEF AnnounceNext
  <2>3. Announcement(n, p) \in Message
    BY BuildType
  <2>4. task' \in [Nodes -> TaskState] /\ wire' \subseteq Message
    <3>1. Without(n, p) \in TaskState
      BY <1>0, TaskStateType DEF Without
    <3>2. CASE Continue(n, Without(n, p)) /\ UNCHANGED wire
      BY <1>0, <3>1, <3>2 DEF TypeOK
    <3> QED BY <2>1, <2>3, <3>2, SendType
  <2> QED BY <1>1, <2>4 DEF AnnounceNext, TypeOK
<1>2. CASE AnnounceDone(n)
  <2>1. task' \in [Nodes -> TaskState]
    BY <1>0, <1>2, TaskStateType DEF AnnounceDone
  <2>2. sinceRound' \in [Nodes -> 0 .. Interval]
    BY <1>2, Reset DEF AnnounceDone, TypeOK
  <2> QED BY <1>2, <2>1, <2>2 DEF AnnounceDone, TypeOK
<1>3. CASE RoundStart(n)
  <2>1. {e.id : e \in known[n]} \in SUBSET Ids
    BY DEF TypeOK
  <2>2. task' \in [Nodes -> TaskState]
    <3>1. CASE HasIdentity(n)
      <4>1. [task[n] EXCEPT !.pc = "round", !.todo = {e.id : e \in known[n]}] \in TaskState
        BY <1>0, <2>1, TaskStateType
      <4>2. Continue(n, [task[n] EXCEPT !.pc = "round", !.todo = {e.id : e \in known[n]}])
        BY <1>3, <3>1 DEF RoundStart
      <4> QED BY <1>0, <4>1, <4>2
    <3>2. CASE ~HasIdentity(n)
      BY <1>3, <3>2 DEF RoundStart, TypeOK
    <3> QED BY <3>1, <3>2
  <2>3. TableType'
    <3>1. CASE HasIdentity(n)
      <4>1. table' = [table EXCEPT ![n] = Unpurged(@)]
        BY <1>3, <3>1 DEF RoundStart
      <4> QED BY <4>1 DEF TypeOK, TableType, Unpurged
    <3>2. CASE ~HasIdentity(n)
      BY <1>3, <3>2 DEF RoundStart, TypeOK, TableType
    <3> QED BY <3>1, <3>2
  <2>4. sinceRound' \in [Nodes -> 0 .. Interval]
    BY <1>3, Reset DEF RoundStart, TypeOK
  <2> QED BY <1>3, <2>2, <2>3, <2>4 DEF RoundStart, TypeOK, TableType
<1>4. CASE RoundSkip(n)
  <2>1. task' \in [Nodes -> TaskState]
    BY <1>0, <1>4, TaskStateType DEF RoundSkip, Without
  <2> QED BY <1>4, <2>1 DEF RoundSkip, TypeOK
<1>5. CASE RoundSend(n)
  <2>1. PICK p \in Nodes : Send(n, p, BuildSummary(n, p, "exchange"))
    BY <1>5 DEF RoundSend
  <2>2. BuildSummary(n, p, "exchange") \in Message
    BY BuildType
  <2>3. task' \in [Nodes -> TaskState] /\ wire' \subseteq Message
    BY <2>1, <2>2, SendType
  <2> QED BY <1>5, <2>3 DEF RoundSend, TypeOK
<1>6. CASE RoundDone(n)
  <2>1. task' \in [Nodes -> TaskState]
    BY <1>0, <1>6, TaskStateType DEF RoundDone
  <2> QED BY <1>6, <2>1 DEF RoundDone, TypeOK
<1>7. [task[n] EXCEPT !.waits = None] \in TaskState
  BY <1>0, TaskStateType
<1>8. CASE ReadAnswer(n)
  <2>1. PICK a \in wire : a.kind = "answer" /\ ReceiveSummary(n, a) /\ wire' = wire \ {a}
    BY <1>8 DEF ReadAnswer
  <2>2. TableType' /\ KnownType'
    BY <2>1, ReceiveType
  <2>3. task' \in [Nodes -> TaskState]
    BY <1>0, <1>7, <1>8 DEF ReadAnswer
  <2> QED BY <1>8, <2>1, <2>2, <2>3 DEF ReadAnswer, TypeOK, TableType, KnownType
<1>9. CASE GiveUp(n)
  <2>1. task' \in [Nodes -> TaskState]
    BY <1>0, <1>7, <1>9 DEF GiveUp
  <2> QED BY <1>9, <2>1, UnreadType DEF GiveUp, TypeOK
<1> QED BY <1>1, <1>2, <1>3, <1>4, <1>5, <1>6, <1>8, <1>9 DEF TaskStep

\* So do the handlers and the environment.
LEMMA TypeStep ==
  ASSUME TypeOK, [Next]_vars
  PROVE  TypeOK'
<1> USE SyncAssumption
<1>1. CASE \E n \in Nodes : TaskStep(n)
  BY <1>1, TaskType
<1>2. ASSUME NEW n \in Nodes, HandleAnnounce(n)
      PROVE  TypeOK'
  <2>1. PICK m \in wire :
          /\ m.kind = "announce" /\ m.to = n
          /\ IF m.owner # NoOwner /\ m.owner = OwnerOf[n]
             THEN /\ known' = [known EXCEPT ![n] = Registered(n, m.id)]
                  /\ wire' = (wire \ {m}) \cup
                             (IF m.read THEN {BuildSummary(n, m.from, "answer")} ELSE {})
             ELSE wire' = wire \ {m} /\ UNCHANGED known
    BY <1>2 DEF HandleAnnounce
  <2>2. m.from \in Nodes /\ m.id \in Ids
    BY <2>1, MessageType DEF TypeOK
  <2>3. BuildSummary(n, m.from, "answer") \in Message
    BY <2>2, BuildType
  <2>4. wire' \subseteq Message
    BY <2>1, <2>3 DEF TypeOK
  <2>5. Registered(n, m.id) \subseteq [id : Ids, since : 0 .. Interval + 1]
    BY <2>2 DEF Registered, Noted, TypeOK
  <2>6. KnownType'
    <3>1. CASE known' = known
      BY <3>1 DEF KnownType, TypeOK
    <3>2. CASE known' = [known EXCEPT ![n] = Registered(n, m.id)]
      BY <2>5, <3>2 DEF KnownType, TypeOK
    <3> QED BY <2>1, <3>1, <3>2
  <2> QED BY <1>2, <2>4, <2>6 DEF HandleAnnounce, TypeOK, KnownType
<1>3. ASSUME NEW n \in Nodes, HandleExchange(n)
      PROVE  TypeOK'
  <2>1. PICK m \in wire : m.kind = "exchange" /\ ReceiveSummary(n, m) /\ wire' = wire \ {m}
    BY <1>3 DEF HandleExchange
  <2>2. TableType' /\ KnownType'
    BY <2>1, ReceiveType
  <2> QED BY <1>3, <2>1, <2>2 DEF HandleExchange, TypeOK, TableType, KnownType
<1>4. ASSUME NEW n \in Nodes, Earn(n)
      PROVE  TypeOK'
  BY <1>4 DEF Earn, TypeOK
<1>5. ASSUME NEW n \in Nodes, Restart(n)
      PROVE  TypeOK'
  <2>1. PICK connected \in SUBSET Reach[n] : Continue(n, Started(n, connected))
    BY <1>5 DEF Restart
  <2>2. Started(n, connected) \in TaskState
    BY <2>1, StartedType
  <2>3. task' \in [Nodes -> TaskState]
    BY <2>1, <2>2 DEF Continue, TypeOK
  <2>4. sinceRound' \in [Nodes -> 0 .. Interval]
    BY <1>5, Reset DEF Restart, TypeOK
  <2>5. KnownType'
    BY <1>5 DEF Restart, TypeOK, KnownType
  <2>6. wire' \subseteq Message
    BY <1>5, UnreadType DEF Restart, TypeOK
  <2> QED BY <1>5, <2>3, <2>4, <2>5, <2>6 DEF Restart, TypeOK, KnownType
<1>6. CASE Lose
  BY <1>6 DEF Lose, TypeOK
<1>7. CASE Elapse
  <2>1. wire' \subseteq Message
    <3>1. ASSUME NEW m \in wire
          PROVE  Older(m) \subseteq Message
      BY MessageType DEF Older, TypeOK
    <3> QED BY <1>7, <3>1 DEF Elapse
  <2>2. TableType'
    <3>1. ASSUME NEW r \in Row
          PROVE  [r EXCEPT !.age = Smaller(@ + 1, TTL + 1)] \in Row
      BY DEF Row, Smaller
    <3>2. table' = [n \in Nodes |-> {[r EXCEPT !.age = Smaller(@ + 1, TTL + 1)] : r \in table[n]}]
      BY <1>7 DEF Elapse
    <3> QED BY <3>1, <3>2 DEF TypeOK, TableType
  <2>3. KnownType'
    <3>1. ASSUME NEW e \in [id : Ids, since : 0 .. Interval + 1]
          PROVE  [e EXCEPT !.since = Smaller(@ + 1, Interval + 1)] \in [id : Ids, since : 0 .. Interval + 1]
      BY DEF Smaller
    <3>2. known' = [n \in Nodes |-> {[e EXCEPT !.since = Smaller(@ + 1, Interval + 1)] : e \in known[n]}]
      BY <1>7 DEF Elapse
    <3> QED BY <3>1, <3>2 DEF TypeOK, KnownType
  <2>4. sinceRound' \in [Nodes -> 0 .. Interval]
    BY <1>7 DEF Elapse, TypeOK, Smaller
  <2> QED BY <1>7, <2>1, <2>2, <2>3, <2>4 DEF Elapse, TypeOK, TableType, KnownType
<1>8. CASE UNCHANGED vars
  BY <1>8 DEF vars, TypeOK
<1> QED BY <1>1, <1>2, <1>3, <1>4, <1>5, <1>6, <1>7, <1>8 DEF Next

LEMMA TypeInit == Init => TypeOK
<1> SUFFICES ASSUME Init PROVE TypeOK
  OBVIOUS
<1>1. PICK connected \in [Nodes -> SUBSET Nodes] :
        task = [n \in Nodes |-> Started(n, connected[n] \cap Reach[n])]
  BY DEF Init
<1>2. \A n \in Nodes : Started(n, connected[n] \cap Reach[n]) \in TaskState
  BY <1>1, StartedType
<1>3. task \in [Nodes -> TaskState]
  BY <1>1, <1>2
<1> QED BY <1>3, SyncAssumption DEF Init, TypeOK

\* The ledgers, tables, peers, tasks and messages are always of their type
\* (CreditSyncManager, _announce_credit_sync, _run_credit_sync_round,
\* _handle_credit_sync).
THEOREM TypeCorrect == Spec => []TypeOK
BY TypeInit, TypeStep, PTL DEF Spec

-----------------------------------------------------------------------------
\* A summary under way tells no more of its sender than is so.
Honest(m) ==
  /\ m.id = IdOf[m.from] /\ m.owner = OwnerOf[m.from]
  /\ m.earned <= earned[m.from]
MessagesTrue == \A m \in wire : m.kind # "announce" => Honest(m)

\* The two halves of NoCreditInvented.
RowTrue(n, r) == \E m \in Other(n) : SameOwner(n, m) /\ r.id = IdOf[m] /\ r.earned <= earned[m]
RowsTrue == \A n \in Nodes : \A r \in table[n] : RowTrue(n, r)
OneRowEach == \A n \in Nodes : \A r, q \in table[n] : r.id = q.id => r = q

IInv == TypeOK /\ MessagesTrue /\ RowsTrue /\ OneRowEach

\* What is received is true of another node of the owner, and replaces what was
\* there of it.
LEMMA ReceiveTrue ==
  ASSUME IInv, NEW n \in Nodes, NEW m \in wire, m.kind # "announce",
         ReceiveSummary(n, m), UNCHANGED earned
  PROVE  RowsTrue' /\ OneRowEach'
<1> DEFINE row == RowOf(n, m)
<1> USE DEF IInv
<1>1. m.from \in Nodes /\ Honest(m)
  BY MessageType DEF TypeOK, MessagesTrue
<1>2. CASE ~Accepts(n, row)
  BY <1>2 DEF ReceiveSummary, RowsTrue, RowTrue, OneRowEach
<1>3. CASE Accepts(n, row)
  <2>1. table' = [table EXCEPT ![n] = Upsert(@, row)]
    BY <1>3 DEF ReceiveSummary
  <2>2. row.id = m.id /\ row.owner = m.owner /\ row.earned = m.earned
    BY DEF RowOf
  <2>3. m.from # n /\ SameOwner(n, m.from)
    BY <1>1, <1>3, <2>2 DEF Accepts, OwnersAgree, Honest, SameOwner
  <2>4. RowTrue(n, row)
    BY <1>1, <2>2, <2>3 DEF RowTrue, Honest, Other
  <2>5. \A k \in Nodes : table'[k] = IF k = n THEN Upsert(table[n], row) ELSE table[k]
    BY <2>1 DEF TypeOK
  <2>6. \A k \in Nodes : \A r \in table'[k] : RowTrue(k, r)
    BY <2>4, <2>5 DEF RowsTrue, Upsert
  <2>7. RowsTrue'
    BY <2>6 DEF RowsTrue, RowTrue
  <2>8. OneRowEach'
    BY <2>5 DEF OneRowEach, Upsert
  <2> QED BY <2>7, <2>8
<1> QED BY <1>2, <1>3

\* A summary that n builds is honest, and stays so while nobody else's credits
\* fall.
LEMMA BuildHonest ==
  ASSUME TypeOK, NEW n \in Nodes, NEW p \in Nodes, NEW kind
  PROVE  Honest(BuildSummary(n, p, kind))
BY DEF TypeOK, Honest, BuildSummary

\* Credits do not fall, and what was true of a sender or a row stays true.
LEMMA EarnMore ==
  ASSUME TypeOK, TypeOK', \A n \in Nodes : earned[n] <= earned'[n]
  PROVE  /\ \A m \in Message : Honest(m) => Honest(m)'
         /\ \A n \in Nodes, r \in Row : RowTrue(n, r) => RowTrue(n, r)'
<1>1. ASSUME NEW m \in Message, Honest(m)
      PROVE  Honest(m)'
  <2>1. m.from \in Nodes /\ m.earned \in Nat
    BY MessageType
  <2>2. earned[m.from] \in Nat /\ earned'[m.from] \in Nat
    BY <2>1 DEF TypeOK
  <2>3. m.earned <= earned[m.from] /\ earned[m.from] <= earned'[m.from]
    BY <1>1, <2>1 DEF Honest
  <2> QED BY <1>1, <2>1, <2>2, <2>3 DEF Honest
<1>2. ASSUME NEW n \in Nodes, NEW r \in Row, RowTrue(n, r)
      PROVE  RowTrue(n, r)'
  BY <1>2 DEF RowTrue, TypeOK, Other, Row
<1> QED BY <1>1, <1>2

\* Rows that only grow older, or are dropped, stay true.
LEMMA OlderRows ==
  ASSUME RowsTrue, OneRowEach, UNCHANGED earned,
         \A n \in Nodes : table'[n] \subseteq table[n]
  PROVE  RowsTrue' /\ OneRowEach'
BY DEF RowsTrue, RowTrue, OneRowEach

\* Messages that were there and whose sender and content are as they were.
LEMMA SameMessages ==
  ASSUME MessagesTrue, UNCHANGED earned,
         \A q \in wire' : q.kind # "announce" =>
           \/ Honest(q)
           \/ \E m \in wire : /\ q.kind = m.kind /\ q.from = m.from /\ q.id = m.id
                             /\ q.owner = m.owner /\ q.earned = m.earned
  PROVE  MessagesTrue'
BY DEF MessagesTrue, Honest

\* Closing the streams of n changes no message's content.
LEMMA UnreadTrue ==
  ASSUME IInv, NEW n \in Nodes, wire' = Unread(n), UNCHANGED earned
  PROVE  MessagesTrue'
<1>1. ASSUME NEW q \in wire'
      PROVE  \E m \in wire : /\ q.kind = m.kind /\ q.from = m.from /\ q.id = m.id
                            /\ q.owner = m.owner /\ q.earned = m.earned
  <2>1. CASE q \in wire
    BY <2>1
  <2>2. CASE q \notin wire
    <3>1. PICK m \in wire : q = [m EXCEPT !.read = FALSE]
      BY <2>2 DEF Unread
    <3>2. m \in Message
      BY DEF IInv, TypeOK
    <3> QED BY <3>1, <3>2 DEF Message
  <2> QED BY <2>1, <2>2
<1> QED BY <1>1, SameMessages DEF IInv

LEMMA TaskTrue ==
  ASSUME IInv, NEW n \in Nodes, TaskStep(n)
  PROVE  MessagesTrue' /\ RowsTrue' /\ OneRowEach'
<1> USE DEF IInv
<1>1. CASE AnnounceNext(n)
  <2>1. PICK p \in Nodes :
          \/ Send(n, p, Announcement(n, p))
          \/ Continue(n, Without(n, p)) /\ UNCHANGED wire
    BY <1>1 DEF AnnounceNext
  <2>2. \A q \in wire' : q \in wire \/ q.kind = "announce"
    BY <2>1 DEF Send, Announcement
  <2>3. MessagesTrue'
    BY <1>1, <2>2, SameMessages DEF AnnounceNext
  <2> QED BY <1>1, <2>3, OlderRows DEF AnnounceNext
<1>2. CASE AnnounceDone(n) \/ RoundSkip(n) \/ RoundDone(n)
  <2>1. UNCHANGED <<earned, table, wire>>
    BY <1>2 DEF AnnounceDone, RoundSkip, RoundDone
  <2> QED BY <2>1, SameMessages, OlderRows
<1>3. CASE RoundStart(n)
  <2>1. UNCHANGED <<earned, wire>> /\ \A k \in Nodes : table'[k] \subseteq table[k]
    BY <1>3 DEF RoundStart, Unpurged, TypeOK
  <2> QED BY <2>1, SameMessages, OlderRows
<1>4. CASE RoundSend(n)
  <2>1. PICK p \in Nodes : Send(n, p, BuildSummary(n, p, "exchange"))
    BY <1>4 DEF RoundSend
  <2>2. \A q \in wire' : q \in wire \/ Honest(q)
    BY <2>1, BuildHonest DEF Send
  <2>3. MessagesTrue'
    BY <1>4, <2>2, SameMessages DEF RoundSend
  <2> QED BY <1>4, <2>3, OlderRows DEF RoundSend
<1>5. CASE ReadAnswer(n)
  <2>1. PICK a \in wire : a.kind = "answer" /\ ReceiveSummary(n, a) /\ wire' = wire \ {a}
    BY <1>5 DEF ReadAnswer
  <2>2. UNCHANGED earned
    BY <1>5 DEF ReadAnswer
  <2>3. MessagesTrue'
    BY <2>1, <2>2, SameMessages
  <2> QED BY <2>1, <2>2, <2>3, ReceiveTrue
<1>6. CASE GiveUp(n)
  <2>1. UNCHANGED <<earned, table>> /\ wire' = Unread(n)
    BY <1>6 DEF GiveUp
  <2> QED BY <2>1, UnreadTrue, OlderRows
<1> QED BY <1>1, <1>2, <1>3, <1>4, <1>5, <1>6 DEF TaskStep

\* Every step keeps messages and rows true.
LEMMA TrueStep ==
  ASSUME IInv, [Next]_vars
  PROVE  MessagesTrue' /\ RowsTrue' /\ OneRowEach'
<1> USE DEF IInv
<1>1. CASE \E n \in Nodes : TaskStep(n)
  BY <1>1, TaskTrue
<1>2. ASSUME NEW n \in Nodes, HandleAnnounce(n)
      PROVE  MessagesTrue' /\ RowsTrue' /\ OneRowEach'
  <2>1. PICK m \in wire :
          IF m.owner # NoOwner /\ m.owner = OwnerOf[n]
          THEN /\ known' = [known EXCEPT ![n] = Registered(n, m.id)]
               /\ wire' = (wire \ {m}) \cup
                          (IF m.read THEN {BuildSummary(n, m.from, "answer")} ELSE {})
          ELSE wire' = wire \ {m} /\ UNCHANGED known
    BY <1>2 DEF HandleAnnounce
  <2>2. Honest(BuildSummary(n, m.from, "answer"))
    BY BuildHonest, MessageType DEF TypeOK
  <2>3. \A q \in wire' : q \in wire \/ Honest(q)
    BY <2>1, <2>2
  <2>4. UNCHANGED <<earned, table>>
    BY <1>2 DEF HandleAnnounce
  <2> QED BY <2>3, <2>4, SameMessages, OlderRows
<1>3. ASSUME NEW n \in Nodes, HandleExchange(n)
      PROVE  MessagesTrue' /\ RowsTrue' /\ OneRowEach'
  <2>1. PICK m \in wire : m.kind = "exchange" /\ ReceiveSummary(n, m) /\ wire' = wire \ {m}
    BY <1>3 DEF HandleExchange
  <2>2. UNCHANGED earned
    BY <1>3 DEF HandleExchange
  <2>3. MessagesTrue'
    BY <2>1, <2>2, SameMessages
  <2> QED BY <2>1, <2>2, <2>3, ReceiveTrue
<1>4. ASSUME NEW n \in Nodes, Earn(n)
      PROVE  MessagesTrue' /\ RowsTrue' /\ OneRowEach'
  <2>1. TypeOK' /\ UNCHANGED <<table, wire>>
    BY <1>4, TypeStep DEF Next, Earn
  <2>2. \A k \in Nodes : earned[k] <= earned'[k]
    BY <1>4 DEF Earn, TypeOK
  <2>3. MessagesTrue'
    BY <2>1, <2>2, EarnMore DEF MessagesTrue, TypeOK
  <2>4. RowsTrue'
    BY <2>1, <2>2, EarnMore DEF RowsTrue, TypeOK
  <2> QED BY <2>1, <2>3, <2>4 DEF OneRowEach
<1>5. ASSUME NEW n \in Nodes, Restart(n)
      PROVE  MessagesTrue' /\ RowsTrue' /\ OneRowEach'
  <2>1. UNCHANGED <<earned, table>> /\ wire' = Unread(n)
    BY <1>5 DEF Restart
  <2> QED BY <2>1, UnreadTrue, OlderRows
<1>6. CASE Lose
  <2>1. UNCHANGED <<earned, table>> /\ wire' \subseteq wire
    BY <1>6 DEF Lose
  <2> QED BY <2>1, SameMessages, OlderRows
<1>7. CASE Elapse
  <2>1. UNCHANGED earned
    BY <1>7 DEF Elapse
  <2>2. ASSUME NEW q \in wire'
        PROVE  \E m \in wire : /\ q.kind = m.kind /\ q.from = m.from /\ q.id = m.id
                              /\ q.owner = m.owner /\ q.earned = m.earned
    <3>1. PICK m \in wire : q = [m EXCEPT !.age = @ + 1]
      BY <1>7 DEF Elapse, Older
    <3>2. m \in Message
      BY DEF TypeOK
    <3> QED BY <3>1, <3>2 DEF Message
  <2>3. MessagesTrue'
    BY <2>1, <2>2, SameMessages
  <2>4. ASSUME NEW n \in Nodes, NEW q \in table'[n]
        PROVE  \E r \in table[n] : /\ q = [r EXCEPT !.age = Smaller(@ + 1, TTL + 1)]
                                  /\ q.id = r.id /\ q.earned = r.earned
    <3>1. table'[n] = {[r EXCEPT !.age = Smaller(@ + 1, TTL + 1)] : r \in table[n]}
      BY <1>7 DEF Elapse
    <3>2. PICK r \in table[n] : q = [r EXCEPT !.age = Smaller(@ + 1, TTL + 1)]
      BY <3>1
    <3>3. r \in Row
      BY DEF TypeOK
    <3> QED BY <3>2, <3>3 DEF Row
  <2>5. RowsTrue'
    BY <2>1, <2>4 DEF RowsTrue, RowTrue
  <2>6. OneRowEach'
    <3> SUFFICES ASSUME NEW n \in Nodes, NEW q \in table'[n], NEW s \in table'[n], q.id = s.id
                 PROVE  q = s
      BY DEF OneRowEach
    <3>1. PICK r \in table[n] : q = [r EXCEPT !.age = Smaller(@ + 1, TTL + 1)] /\ q.id = r.id
      BY <2>4
    <3>2. PICK t \in table[n] : s = [t EXCEPT !.age = Smaller(@ + 1, TTL + 1)] /\ s.id = t.id
      BY <2>4
    <3>3. r = t
      BY <3>1, <3>2 DEF OneRowEach
    <3> QED BY <3>1, <3>2, <3>3
  <2> QED BY <2>3, <2>5, <2>6
<1>8. CASE UNCHANGED vars
  <2>1. UNCHANGED <<earned, table, wire>>
    BY <1>8 DEF vars
  <2> QED BY <2>1, SameMessages, OlderRows
<1> QED BY <1>1, <1>2, <1>3, <1>4, <1>5, <1>6, <1>7, <1>8 DEF Next

LEMMA TrueInit == Init => IInv
BY TypeInit, SyncAssumption DEF Init, IInv, MessagesTrue, RowsTrue, OneRowEach

\* What a node adds to its own credits are credits that another node of its
\* owner has earned, once for each, whatever is delayed, lost or overtaken and
\* whoever restarts (receive_summary, store_summary, purge_stale).
THEOREM NothingInvented == Spec => []NoCreditInvented
<1>1. IInv /\ [Next]_vars => IInv'
  BY TypeStep, TrueStep DEF IInv
<1>2. IInv => NoCreditInvented
  BY DEF IInv, RowsTrue, RowTrue, OneRowEach, NoCreditInvented
<1> QED BY <1>1, <1>2, TrueInit, PTL DEF Spec
=============================================================================
