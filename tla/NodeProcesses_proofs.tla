------------------------ MODULE NodeProcesses_proofs ------------------------
(* What MCNodeProcesses checks with four PIDs, for any set of PIDs and of  *)
(* commands.                                                               *)
EXTENDS NodeProcesses, TLAPS

(* The reason why EntryKept holds: the lock is not held for as long as the *)
(* node works, but while it is held no node works, because the holder has  *)
(* read the PID file after taking it, and a node's entry is its own.       *)
NoneWorks == ~wiped => \A i, j \in Pids : lock = i => ~Active(j)

IInv == TypeOK /\ EntryKept /\ NoneWorks

USE PidsAssumption, CommandsAssumption DEF PidsAssumption, CommandsAssumption

HoldPcs == {"unlink", "prepare", "write"}

(* A step after which no further process works and the lock is its         *)
(* holder's still, or free.                                                *)
Calm == /\ proc' \in [Pids -> Process]
        /\ \A j \in Pids : Active(j)' => Active(j)
        /\ lock' \in {lock, None}
        /\ \A j \in Pids : lock' = j <=> Holding(j)'

(* A calm step keeps the invariant, whoever writes or removes the entry.   *)
LEMMA CalmKeeps ==
  ASSUME IInv, Calm,
         UNCHANGED <<pidFile, wiped>> \/ \E pid \in Pids \cup {None} : SetFile(pid)
  PROVE  IInv'
<1>1. TypeOK'
  BY DEF IInv, TypeOK, Calm, SetFile
<1>2. ~wiped' => ~wiped
  BY DEF SetFile, IInv, TypeOK
<1>3. EntryKept'
  <2>1. SUFFICES ASSUME ~wiped', NEW j \in Pids, Active(j)' PROVE pidFile' = j
    BY DEF EntryKept
  <2>2. Active(j) /\ pidFile = j
    BY <2>1, <1>2 DEF IInv, EntryKept, Calm
  <2>3. CASE UNCHANGED <<pidFile, wiped>>
    BY <2>2, <2>3
  <2>4. ASSUME NEW pid \in Pids \cup {None}, SetFile(pid) PROVE pidFile' = j
    BY <2>1, <2>2, <2>4 DEF SetFile
  <2>5. QED
    BY <2>3, <2>4
<1>4. NoneWorks'
  <2>1. SUFFICES ASSUME ~wiped', NEW i \in Pids, NEW j \in Pids, lock' = i PROVE ~Active(j)'
    BY DEF NoneWorks
  <2>2. lock = i
    BY <2>1 DEF Calm
  <2>3. QED
    BY <2>1, <2>2, <1>2 DEF IInv, NoneWorks, Calm
<1>5. QED
  BY <1>1, <1>3, <1>4 DEF IInv

(* What a process that ends leaves of the others.                          *)
LEMMA DeadShape ==
  ASSUME TypeOK, NEW t
  PROVE  /\ Dead(proc, t) \in [Pids -> Process]
         /\ \A j \in Pids :
              \/ j # t /\ Dead(proc, t)[j].cmd = proc[j].cmd /\ Dead(proc, t)[j].pc = proc[j].pc
              \/ /\ Dead(proc, t)[j].cmd = "none" /\ Dead(proc, t)[j].pc \in {"gone", "zombie"}
                 /\ j # t => proc[j].pc = "zombie"
<1>1. Gone \in Process /\ Gone.cmd = "none" /\ Gone.pc = "gone"
  BY DEF Gone, Process, Pcs
<1>2. ASSUME NEW par \in Pids \cup {None}
      PROVE  /\ [Gone EXCEPT !.pc = "zombie", !.parent = par] \in Process
             /\ [Gone EXCEPT !.pc = "zombie", !.parent = par].cmd = "none"
             /\ [Gone EXCEPT !.pc = "zombie", !.parent = par].pc = "zombie"
  BY DEF Gone, Process, Pcs
<1>3. ASSUME NEW j \in Pids
      PROVE  /\ Dead(proc, t)[j] \in Process
             /\ \/ j # t /\ Dead(proc, t)[j].cmd = proc[j].cmd /\ Dead(proc, t)[j].pc = proc[j].pc
                \/ /\ Dead(proc, t)[j].cmd = "none" /\ Dead(proc, t)[j].pc \in {"gone", "zombie"}
                   /\ j # t => proc[j].pc = "zombie"
  <2>1. proc[j] \in Process /\ proc[j].parent \in Pids \cup {None}
    BY DEF TypeOK, Process
  <2>2. CASE j = t /\ proc[j].parent = None
    <3>1. Dead(proc, t)[j] = Gone
      BY <2>2 DEF Dead
    <3>2. QED
      BY <3>1, <2>2, <1>1
  <2>3. CASE j = t /\ proc[j].parent # None
    <3>1. Dead(proc, t)[j] = [Gone EXCEPT !.pc = "zombie", !.parent = proc[j].parent]
      BY <2>3 DEF Dead
    <3>2. QED
      BY <3>1, <2>1, <2>3, <1>2
  <2>4. CASE j # t /\ proc[j].parent # t
    <3>1. Dead(proc, t)[j] = proc[j]
      BY <2>4 DEF Dead
    <3>2. QED
      BY <3>1, <2>1, <2>4
  <2>5. CASE j # t /\ proc[j].parent = t /\ proc[j].pc = "zombie"
    <3>1. Dead(proc, t)[j] = Gone
      BY <2>5 DEF Dead
    <3>2. QED
      BY <3>1, <2>5, <1>1
  <2>6. CASE j # t /\ proc[j].parent = t /\ proc[j].pc # "zombie"
    <3>1. Dead(proc, t)[j] = [proc[j] EXCEPT !.parent = None]
      BY <2>6 DEF Dead
    <3>2. QED
      BY <3>1, <2>1, <2>6 DEF Process
  <2>7. QED
    BY <2>2, <2>3, <2>4, <2>5, <2>6
<1>4. Dead(proc, t) \in [Pids -> Process]
  <2>1. Dead(proc, t) = [j \in Pids |-> Dead(proc, t)[j]]
    BY DEF Dead
  <2>2. QED
    BY <2>1, <1>3
<1>5. QED
  BY <1>3, <1>4

(* The end of a process frees its lock, and nobody else's.                 *)
LEMMA DeadFrees ==
  ASSUME TypeOK, NEW t \in Pids \cup {None}
  PROVE  /\ Released(t) \in {lock, None}
         /\ \A j \in Pids : Released(t) = j <=> /\ Dead(proc, t)[j].cmd \in Starters
                                                /\ Dead(proc, t)[j].pc \in HoldPcs
<1>1. Released(t) \in {lock, None}
  BY DEF Released
<1>2. ASSUME NEW j \in Pids
      PROVE  Released(t) = j <=> Dead(proc, t)[j].cmd \in Starters /\ Dead(proc, t)[j].pc \in HoldPcs
  <2>1. lock = j <=> proc[j].cmd \in Starters /\ proc[j].pc \in HoldPcs
    BY DEF TypeOK, Holding, HoldPcs
  <2>2. Released(t) = j <=> lock = j /\ j # t
    BY DEF Released
  <2>3. CASE j # t /\ Dead(proc, t)[j].cmd = proc[j].cmd /\ Dead(proc, t)[j].pc = proc[j].pc
    BY <2>1, <2>2, <2>3
  <2>4. CASE /\ Dead(proc, t)[j].cmd = "none" /\ Dead(proc, t)[j].pc \in {"gone", "zombie"}
             /\ j # t => proc[j].pc = "zombie"
    BY <2>1, <2>2, <2>4 DEF Starters, HoldPcs
  <2>5. QED
    BY <2>3, <2>4, DeadShape
<1>3. QED
  BY <1>1, <1>2

LEMMA ExitIsCalm ==
  ASSUME TypeOK, NEW i \in Pids, Exit(i)
  PROVE  Calm
<1>1. proc' = Dead(proc, i) /\ lock' = Released(i)
  BY DEF Exit
<1>2. ASSUME NEW j \in Pids, Active(j)' PROVE Active(j)
  BY <1>1, <1>2, DeadShape DEF Active
<1>3. \A j \in Pids : lock' = j <=> Holding(j)'
  BY <1>1, DeadFrees DEF Holding, HoldPcs
<1>4. QED
  BY <1>1, <1>2, <1>3, DeadShape, DeadFrees DEF Calm

(* SIGTERM: a node that handles it goes on to close, others end.           *)
LEMMA StruckIsCalm ==
  ASSUME TypeOK, NEW i \in Pids, NEW t \in Pids \cup {None}, NEW pc \in {"wait", "rewait"},
         proc[i].pc \notin HoldPcs,
         proc' = [Struck(t) EXCEPT ![i].pc = pc], lock' = StruckLock(t)
  PROVE  Calm
<1>1. /\ Struck(t) \in [Pids -> Process]
      /\ StruckLock(t) \in {lock, None}
      /\ \A j \in Pids : StruckLock(t) = j <=> /\ Struck(t)[j].cmd \in Starters
                                               /\ Struck(t)[j].pc \in HoldPcs
      /\ \A j \in Pids : Struck(t)[j].cmd = "_serve"
             /\ Struck(t)[j].pc \in {"booting", "running", "closing", "stopping"} => Active(j)
      /\ Struck(t)[i].pc \notin HoldPcs
  <2>1. CASE Handles(t)
    <3>1. Struck(t) = [proc EXCEPT ![t].pc = IF @ = "running" THEN "closing" ELSE @]
      BY <2>1 DEF Struck
    <3>2. ASSUME NEW j \in Pids
          PROVE  /\ Struck(t)[j] \in Process /\ Struck(t)[j].cmd = proc[j].cmd
                 /\ \/ Struck(t)[j].pc = proc[j].pc
                    \/ proc[j].pc = "running" /\ Struck(t)[j].pc = "closing"
      <4>1. proc[j] \in Process
        BY DEF TypeOK
      <4>2. CASE j # t
        BY <3>1, <4>1, <4>2 DEF TypeOK
      <4>3. CASE j = t
        BY <3>1, <4>1, <4>3 DEF TypeOK, Process, Pcs
      <4>4. QED
        BY <4>2, <4>3
    <3>3. Struck(t) \in [Pids -> Process]
      <4>1. Struck(t) = [j \in Pids |-> Struck(t)[j]]
        BY <3>1 DEF TypeOK
      <4>2. QED
        BY <4>1, <3>2
    <3>4. StruckLock(t) = lock
      BY <2>1 DEF StruckLock
    <3>5. \A j \in Pids : lock = j <=> Struck(t)[j].cmd \in Starters /\ Struck(t)[j].pc \in HoldPcs
      BY <3>2 DEF TypeOK, Holding, HoldPcs
    <3>6. QED
      BY <3>2, <3>3, <3>4, <3>5 DEF Active, HoldPcs
  <2>2. CASE ~Handles(t)
    <3>1. Struck(t) = Dead(proc, t) /\ StruckLock(t) = Released(t)
      BY <2>2 DEF Struck, StruckLock
    <3>2. QED
      BY <3>1, DeadShape, DeadFrees DEF Active, HoldPcs
  <2>3. QED
    BY <2>1, <2>2
<1>2. ASSUME NEW j \in Pids
      PROVE  /\ proc'[j] \in Process
             /\ proc'[j].cmd = Struck(t)[j].cmd
             /\ proc'[j].pc = IF j = i THEN pc ELSE Struck(t)[j].pc
  <2>1. Struck(t)[j] \in Process
    BY <1>1
  <2>2. QED
    BY <1>1, <2>1 DEF Process, Pcs
<1>3. proc' \in [Pids -> Process]
  <2>1. proc' = [j \in Pids |-> proc'[j]]
    BY <1>1
  <2>2. QED
    BY <2>1, <1>2
<1>4. ASSUME NEW j \in Pids, Active(j)' PROVE Active(j)
  BY <1>1, <1>2, <1>4 DEF Active
<1>5. ASSUME NEW j \in Pids PROVE lock' = j <=> Holding(j)'
  BY <1>1, <1>2 DEF Holding, HoldPcs
<1>6. QED
  BY <1>1, <1>3, <1>4, <1>5 DEF Calm

(* A process that goes on, without the lock and without starting to work.  *)
LEMMA MoveIsCalm ==
  ASSUME TypeOK, NEW i \in Pids, NEW r \in Process, proc' = [proc EXCEPT ![i] = r], lock' = lock,
         r.cmd \in Starters /\ r.pc \in HoldPcs <=> Holding(i),
         r.cmd = "_serve" /\ r.pc \in {"booting", "running", "closing", "stopping"} => Active(i)
  PROVE  Calm
<1>1. proc' \in [Pids -> Process] /\ \A j \in Pids : proc'[j] = IF j = i THEN r ELSE proc[j]
  BY DEF TypeOK
<1>2. \A j \in Pids : Active(j)' => Active(j)
  BY <1>1 DEF Active
<1>3. \A j \in Pids : Holding(j)' <=> Holding(j)
  BY <1>1 DEF Holding, HoldPcs
<1>4. QED
  BY <1>1, <1>2, <1>3 DEF Calm, TypeOK

LEMMA GotoIsCalm ==
  ASSUME TypeOK, NEW i \in Pids, NEW pc \in Pcs, Goto(i, pc), lock' = lock,
         proc[i].cmd \in Starters => (pc \in HoldPcs <=> proc[i].pc \in HoldPcs),
         proc[i].cmd = "_serve" /\ pc \in {"booting", "running", "closing", "stopping"} => Active(i)
  PROVE  Calm
<1> DEFINE r == [proc[i] EXCEPT !.pc = pc]
<1>1. proc[i] \in Process
  BY DEF TypeOK
<1>2. r \in Process /\ r.cmd = proc[i].cmd /\ r.pc = pc
  BY <1>1 DEF Process
<1>3. proc' = [proc EXCEPT ![i] = r]
  BY DEF Goto
<1>4. r.cmd \in Starters /\ r.pc \in HoldPcs <=> Holding(i)
  BY <1>2 DEF Holding, HoldPcs
<1> HIDE DEF r
<1>5. QED
  BY <1>2, <1>3, <1>4, MoveIsCalm

LEMMA InitInvariant == Init => IInv
<1>1. SUFFICES ASSUME Init PROVE IInv
  OBVIOUS
<1>2. Gone \in Process
  BY DEF Gone, Process, Pcs
<1>3. \A i \in Pids : ~Active(i) /\ ~Holding(i) /\ lock # i
  BY <1>1 DEF Init, Gone, Active, Holding
<1>4. QED
  BY <1>1, <1>2, <1>3 DEF Init, IInv, TypeOK, EntryKept, NoneWorks

LEMMA RunKeeps ==
  ASSUME IInv, NEW i \in Pids, NEW cmd \in Commands, Run(i, cmd)
  PROVE  IInv'
<1>1. /\ New(cmd, None) \in Process /\ New(cmd, None).cmd = cmd
      /\ New(cmd, None).pc \in {"begin", "idle"}
  BY DEF New, Gone, Process, Pcs
<1>2. ~Holding(i)
  BY DEF Run, Exists, Holding
<1>3. Calm
  BY <1>1, <1>2, MoveIsCalm DEF Run, IInv, HoldPcs
<1>4. QED
  BY <1>3, CalmKeeps DEF Run

(* The check, under the lock: had a node worked, its entry would be in the *)
(* file and the node alive.                                                *)
LEMMA CheckKeeps ==
  ASSUME IInv, NEW i \in Pids, Check(i)
  PROVE  IInv'
<1> DEFINE pc == IF pidFile = None \/ Live(pidFile) THEN Passed(i) ELSE "unlink"
<1> DEFINE r == [proc[i] EXCEPT !.pc = pc]
<1>1. proc[i] \in Process /\ proc[i].cmd \in Starters /\ proc[i].pc = "begin"
  BY DEF Check, At, IInv, TypeOK
<1>2. pc \in HoldPcs /\ pc \in Pcs
  BY DEF Passed, HoldPcs, Pcs
<1>3. r \in Process /\ r.cmd = proc[i].cmd /\ r.pc \in HoldPcs
  BY <1>1, <1>2 DEF Process
<1>4. proc' = [proc EXCEPT ![i] = r] /\ lock = None /\ lock' = i /\ UNCHANGED <<pidFile, wiped>>
  BY DEF Check, Goto
<1> HIDE DEF r, pc
<1>5. proc' \in [Pids -> Process] /\ \A j \in Pids : proc'[j] = IF j = i THEN r ELSE proc[j]
  BY <1>3, <1>4 DEF IInv, TypeOK
<1>6. \A j \in Pids : ~Holding(j)
  BY <1>4 DEF IInv, TypeOK
<1>7. \A j \in Pids : Active(j)' => Active(j) /\ j # i
  BY <1>1, <1>3, <1>5 DEF Active, HoldPcs
<1>8. TypeOK'
  <2>1. \A j \in Pids : lock' = j <=> Holding(j)'
    BY <1>1, <1>3, <1>4, <1>5, <1>6 DEF Holding, HoldPcs
  <2>2. QED
    BY <1>4, <1>5, <2>1 DEF IInv, TypeOK
<1>9. ASSUME ~wiped, NEW j \in Pids, j # i PROVE ~Active(j)
  <2>1. SUFFICES ASSUME Active(j) PROVE FALSE
    OBVIOUS
  <2>2. pidFile = j
    BY <1>9, <2>1 DEF IInv, EntryKept
  <2>3. Live(pidFile) /\ pidFile # None /\ pidFile # i
    BY <1>9, <2>1, <2>2 DEF Live, Active
  <2>4. QED
    BY <2>3 DEF Check, Taken
<1>10. EntryKept' /\ NoneWorks'
  BY <1>4, <1>7, <1>9 DEF EntryKept, NoneWorks
<1>11. QED
  BY <1>8, <1>10 DEF IInv

(* The holder of the lock writes: as no node works, there is no entry to   *)
(* take away.                                                              *)
LEMMA HolderWrites ==
  ASSUME IInv, NEW i \in Pids, Calm, Holding(i), pidFile' \in Pids \cup {None}, UNCHANGED wiped
  PROVE  IInv'
<1>1. lock = i
  BY DEF IInv, TypeOK
<1>2. ~wiped => \A j \in Pids : ~Active(j)'
  BY <1>1 DEF IInv, NoneWorks, Calm
<1>3. TypeOK'
  BY DEF IInv, TypeOK, Calm
<1>4. EntryKept' /\ NoneWorks'
  BY <1>2 DEF EntryKept, NoneWorks
<1>5. QED
  BY <1>3, <1>4 DEF IInv

LEMMA UnlinkStaleKeeps ==
  ASSUME IInv, NEW i \in Pids, UnlinkStale(i)
  PROVE  IInv'
<1>1. Passed(i) \in HoldPcs /\ Passed(i) \in Pcs /\ Passed(i) \in {"prepare", "write"}
  BY DEF Passed, HoldPcs, Pcs
<1>2. Holding(i) /\ proc[i].pc \in HoldPcs
  BY DEF UnlinkStale, At, Holding, HoldPcs
<1>3. Calm
  BY <1>1, <1>2, GotoIsCalm DEF UnlinkStale, IInv
<1>4. QED
  BY <1>2, <1>3, HolderWrites DEF UnlinkStale

(* The parent and the child it launches.                                   *)
LEMMA LaunchKeeps ==
  ASSUME IInv, NEW i \in Pids, NEW c \in Pids, Launch(i, c)
  PROVE  IInv'
<1> DEFINE r == [proc[i] EXCEPT !.pc = "write", !.target = c, !.node = c]
<1>1. /\ New("_serve", i) \in Process /\ New("_serve", i).cmd = "_serve"
      /\ New("_serve", i).pc = "begin"
  BY DEF New, Gone, Process, Pcs
<1>2. proc[i] \in Process
  BY DEF IInv, TypeOK
<1>3. r \in Process /\ r.cmd = proc[i].cmd /\ r.pc = "write"
  BY <1>2 DEF Process, Pcs
<1>4. proc[i].pc \in {"prepare", "launch"} /\ proc[i].cmd \in {"start", "update"} /\ proc[c].pc = "gone"
  BY DEF Launch, At, Exists
<1>5. i # c
  BY <1>4
<1>6. proc' = [proc EXCEPT ![i] = r, ![c] = New("_serve", i)] /\ UNCHANGED <<lock, pidFile, wiped>>
  BY <1>5 DEF Launch, IInv, TypeOK
<1>7. proc[i].cmd = "start" <=> proc[i].pc = "prepare"
  BY DEF Launch, At
<1> HIDE DEF r
<1>8. /\ proc' \in [Pids -> Process]
      /\ \A j \in Pids : proc'[j] = IF j = c THEN New("_serve", i) ELSE IF j = i THEN r ELSE proc[j]
  BY <1>1, <1>3, <1>5, <1>6 DEF IInv, TypeOK
<1>9. \A j \in Pids : Active(j)' => Active(j)
  BY <1>1, <1>3, <1>8 DEF Active
<1>10. ASSUME NEW j \in Pids PROVE Holding(j)' <=> Holding(j)
  <2>1. CASE j = c
    BY <2>1, <1>1, <1>4, <1>8 DEF Holding
  <2>2. CASE j = i
    BY <2>2, <1>3, <1>4, <1>5, <1>7, <1>8 DEF Holding, Starters
  <2>3. CASE j # c /\ j # i
    BY <2>3, <1>8 DEF Holding
  <2>4. QED
    BY <2>1, <2>2, <2>3
<1>11. Calm
  BY <1>6, <1>8, <1>9, <1>10 DEF Calm, IInv, TypeOK
<1>12. QED
  BY <1>6, <1>11, CalmKeeps

LEMMA RelaunchKeeps ==
  ASSUME IInv, NEW i \in Pids, NEW c \in Pids, Relaunch(i, c)
  PROVE  IInv'
<1> DEFINE r == [proc[i] EXCEPT !.pc = "shown", !.node = c]
<1>1. /\ New("_serve", i) \in Process /\ New("_serve", i).cmd = "_serve"
      /\ New("_serve", i).pc = "begin"
      /\ Gone \in Process /\ Gone.cmd = "none" /\ Gone.pc = "gone"
  BY DEF New, Gone, Process, Pcs
<1>2. proc[i] \in Process /\ proc[i].pc = "rewait" /\ proc[c].pc = "gone"
  BY DEF Relaunch, At, Exists, IInv, TypeOK
<1>3. r \in Process /\ r.cmd = proc[i].cmd /\ r.pc = "shown"
  BY <1>2 DEF Process, Pcs
<1>4. ASSUME NEW j \in Pids
      PROVE  \/ j = c /\ proc'[j] = New("_serve", i)
             \/ j = i /\ j # c /\ proc'[j] = r
             \/ j \notin {c, i} /\ proc[j].pc = "zombie" /\ proc'[j] = Gone
             \/ j \notin {c, i} /\ proc'[j] = proc[j]
  <2>1. i # c
    BY <1>2
  <2> DEFINE f == [k \in Pids |->
          CASE k = c -> New("_serve", i)
            [] k = i -> r
            [] k \notin {c, i, proc[i].target} /\ proc[k].parent = i /\ proc[k].pc = "zombie" -> Gone
            [] OTHER -> proc[k]]
  <2>2. proc' = f
    BY DEF Relaunch
  <2>3. f[j] = CASE j = c -> New("_serve", i)
            [] j = i -> r
            [] j \notin {c, i, proc[i].target} /\ proc[j].parent = i /\ proc[j].pc = "zombie" -> Gone
            [] OTHER -> proc[j]
    OBVIOUS
  <2> HIDE DEF f, r
  <2>4. CASE j = c
    BY <2>1, <2>2, <2>3, <2>4
  <2>5. CASE j = i
    BY <2>1, <2>2, <2>3, <2>5
  <2>6. CASE j \notin {c, i, proc[i].target} /\ proc[j].parent = i /\ proc[j].pc = "zombie"
    BY <2>2, <2>3, <2>6
  <2>7. CASE j \notin {c, i} /\ ~(j # proc[i].target /\ proc[j].parent = i /\ proc[j].pc = "zombie")
    BY <2>2, <2>3, <2>7
  <2>8. QED
    BY <2>4, <2>5, <2>6, <2>7
<1> HIDE DEF r
<1>5. \A j \in Pids : proc'[j] \in Process
  BY <1>1, <1>3, <1>4 DEF IInv, TypeOK
<1>6. proc' \in [Pids -> Process]
  <2>1. proc' = [j \in Pids |-> proc'[j]]
    BY DEF Relaunch
  <2>2. QED
    BY <2>1, <1>5
<1>7. \A j \in Pids : Active(j)' => Active(j)
  BY <1>1, <1>2, <1>3, <1>4 DEF Active
<1>8. \A j \in Pids : Holding(j)' <=> Holding(j)
  BY <1>1, <1>2, <1>3, <1>4 DEF Holding, Starters
<1>9. Calm
  BY <1>6, <1>7, <1>8 DEF Relaunch, Calm, IInv, TypeOK
<1>10. QED
  BY <1>9, CalmKeeps DEF Relaunch

LEMMA WriteStartKeeps ==
  ASSUME IInv, NEW i \in Pids, WriteStart(i)
  PROVE  IInv'
<1> DEFINE r == [proc[i] EXCEPT !.pc = "shown"]
<1>1. Holding(i) /\ lock = i /\ proc[i] \in Process /\ proc[i].target \in Pids \cup {None}
  BY DEF WriteStart, At, Holding, Starters, IInv, TypeOK, Process
<1>2. r \in Process /\ r.cmd = proc[i].cmd /\ r.pc = "shown"
  BY <1>1 DEF Process, Pcs
<1>3. proc' = [proc EXCEPT ![i] = r] /\ lock' = None
  BY <1>1 DEF WriteStart, Goto, Released
<1> HIDE DEF r
<1>4. proc' \in [Pids -> Process] /\ \A j \in Pids : proc'[j] = IF j = i THEN r ELSE proc[j]
  BY <1>2, <1>3 DEF IInv, TypeOK
<1>5. \A j \in Pids : (Active(j)' => Active(j)) /\ ~Holding(j)'
  BY <1>1, <1>2, <1>4 DEF Active, Holding, IInv, TypeOK
<1>6. Calm
  BY <1>3, <1>4, <1>5 DEF Calm
<1>7. QED
  BY <1>1, <1>6, HolderWrites DEF WriteStart

(* The one step by which a node starts to work: it holds the lock, so it   *)
(* is the only one, and its entry is the file's.                           *)
LEMMA WriteServeKeeps ==
  ASSUME IInv, NEW i \in Pids, WriteServe(i)
  PROVE  IInv'
<1> DEFINE r == [proc[i] EXCEPT !.pc = "booting"]
<1>1. Holding(i) /\ lock = i /\ proc[i] \in Process
  BY DEF WriteServe, At, Holding, Starters, IInv, TypeOK
<1>2. r \in Process /\ r.cmd = proc[i].cmd /\ r.pc = "booting"
  BY <1>1 DEF Process, Pcs
<1>3. proc' = [proc EXCEPT ![i] = r] /\ lock' = None /\ pidFile' = i /\ UNCHANGED wiped
  BY <1>1 DEF WriteServe, Goto, Released
<1> HIDE DEF r
<1>4. proc' \in [Pids -> Process] /\ \A j \in Pids : proc'[j] = IF j = i THEN r ELSE proc[j]
  BY <1>2, <1>3 DEF IInv, TypeOK
<1>5. \A j \in Pids : ~Holding(j)'
  BY <1>1, <1>2, <1>4 DEF Holding, IInv, TypeOK
<1>6. TypeOK'
  BY <1>3, <1>4, <1>5 DEF IInv, TypeOK
<1>7. \A j \in Pids : Active(j)' => Active(j) \/ j = i
  BY <1>4 DEF Active
<1>8. EntryKept' /\ NoneWorks'
  BY <1>1, <1>3, <1>7 DEF EntryKept, NoneWorks, IInv
<1>9. QED
  BY <1>6, <1>8 DEF IInv

LEMMA NodeGoesOnKeeps ==
  ASSUME IInv, NEW i \in Pids, NodeGoesOn(i)
  PROVE  IInv'
<1>1. PICK way \in {<<"booting", "running">>, <<"closing", "stopping">>, <<"stopping", "clear">>} :
         proc[i].pc = way[1] /\ Goto(i, way[2])
  BY DEF NodeGoesOn
<1>2. /\ way[1] \in {"booting", "closing", "stopping"}
      /\ way[2] \in {"running", "stopping", "clear"}
  OBVIOUS
<1>3. way[2] \in Pcs /\ proc[i].pc \notin HoldPcs /\ way[2] \notin HoldPcs /\ Active(i)
  BY <1>1, <1>2 DEF Pcs, HoldPcs, NodeGoesOn, Active
<1>4. Calm
  BY <1>1, <1>3, GotoIsCalm DEF NodeGoesOn, IInv
<1>5. QED
  BY <1>4, CalmKeeps DEF NodeGoesOn

(* clear_pid_file, in its two steps.                                       *)
LEMMA ClearKeeps ==
  ASSUME IInv, NEW i \in Pids, Clear(i) \/ Remove(i)
  PROVE  IInv'
<1>1. proc[i].pc \in {"clear", "remove"}
  BY DEF Clear, Remove
<1>2. ASSUME NEW pc \in {"remove", "launch"}, Goto(i, pc), lock' = lock PROVE Calm
  <2>1. pc \in Pcs /\ pc \notin HoldPcs /\ proc[i].pc \notin HoldPcs
    BY <1>1 DEF Pcs, HoldPcs
  <2>2. QED
    BY <1>2, <2>1, GotoIsCalm DEF IInv
<1>3. Exit(i) => Calm
  BY ExitIsCalm DEF IInv
<1>4. CASE Clear(i)
  <2>1. Calm
    BY <1>2, <1>3, <1>4 DEF Clear
  <2>2. QED
    BY <1>4, <2>1, CalmKeeps DEF Clear
<1>5. CASE Remove(i)
  <2>1. Calm
    BY <1>2, <1>3, <1>5 DEF Remove
  <2>2. QED
    BY <1>5, <2>1, CalmKeeps DEF Remove
<1>6. QED
  BY <1>4, <1>5

LEMMA LookKeeps ==
  ASSUME IInv, NEW i \in Pids, Look(i)
  PROVE  IInv'
<1> DEFINE r == [proc[i] EXCEPT !.pc = IF Live(pidFile) THEN "signal" ELSE "unlink",
                                !.target = pidFile]
<1>1. proc[i] \in Process /\ proc[i].cmd \in Enders /\ pidFile \in Pids \cup {None}
  BY DEF Look, At, IInv, TypeOK
<1>2. r \in Process /\ r.cmd = proc[i].cmd
  BY <1>1 DEF Process, Pcs
<1>3. CASE pidFile = None
  BY <1>3, ExitIsCalm, CalmKeeps DEF Look, IInv
<1>4. CASE pidFile # None
  <2>1. proc' = [proc EXCEPT ![i] = r] /\ lock' = lock
    BY <1>4 DEF Look
  <2>2. r.cmd \notin Starters /\ r.cmd # "_serve" /\ ~Holding(i)
    BY <1>1, <1>2 DEF Enders, Starters, Holding
  <2> HIDE DEF r
  <2>3. Calm
    BY <1>2, <2>1, <2>2, MoveIsCalm DEF IInv
  <2>4. QED
    BY <2>3, CalmKeeps DEF Look
<1>5. QED
  BY <1>3, <1>4

LEMMA SignalKeeps ==
  ASSUME IInv, NEW i \in Pids, Signal(i)
  PROVE  IInv'
<1>1. proc[i].cmd \in Enders /\ proc[i].pc = "signal" /\ proc[i].target \in Pids \cup {None}
  BY DEF Signal, At, IInv, TypeOK, Process
<1>2. CASE proc[i].target = i
  <2>1. proc' = Dead(proc, i) /\ lock' = Released(i)
    BY <1>1, <1>2 DEF Signal, StruckLock, Handles
  <2>2. Calm
    BY <2>1, ExitIsCalm DEF Exit, IInv
  <2>3. QED
    BY <2>2, CalmKeeps DEF Signal
<1>3. CASE proc[i].target # i
  <2>1. /\ proc' = [Struck(proc[i].target) EXCEPT ![i].pc = "wait"]
        /\ lock' = StruckLock(proc[i].target)
    BY <1>3 DEF Signal
  <2>2. Calm
    BY <1>1, <2>1, StruckIsCalm DEF IInv, HoldPcs
  <2>3. QED
    BY <2>2, CalmKeeps DEF Signal
<1>4. QED
  BY <1>2, <1>3

LEMMA NotFoundKeeps ==
  ASSUME IInv, NEW i \in Pids, NotFound(i)
  PROVE  IInv'
<1> DEFINE r == [proc[i] EXCEPT !.cmd = "stop", !.pc = "clear"]
<1>1. proc[i] \in Process /\ proc[i].pc = "signal"
  BY DEF NotFound, At, IInv, TypeOK
<1>2. r \in Process /\ r.cmd = "stop"
  BY <1>1 DEF Process, Pcs
<1>3. CASE Exit(i)
  BY <1>3, ExitIsCalm, CalmKeeps DEF NotFound, IInv
<1>4. CASE proc' = [proc EXCEPT ![i] = r] /\ lock' = lock
  <2>1. r.cmd \notin Starters /\ ~Holding(i)
    BY <1>1, <1>2 DEF Starters, Holding
  <2> HIDE DEF r
  <2>2. Calm
    BY <1>2, <1>4, <2>1, MoveIsCalm DEF IInv
  <2>3. QED
    BY <2>2, CalmKeeps DEF NotFound
<1>5. QED
  BY <1>3, <1>4 DEF NotFound

(* The steps that only end the process, and those that only go on.         *)
LEMMA EndKeeps ==
  ASSUME IInv, NEW i \in Pids, Exit(i),
         UNCHANGED <<pidFile, wiped>> \/ \E pid \in Pids \cup {None} : SetFile(pid)
  PROVE  IInv'
BY ExitIsCalm, CalmKeeps DEF IInv

LEMMA DashboardKeeps ==
  ASSUME IInv, NEW i \in Pids, StopAll(i) \/ RestartNode(i)
  PROVE  IInv'
<1>1. /\ proc[i].pc \notin HoldPcs
      /\ proc[i].target \in Pids \cup {None} /\ proc[i].node \in Pids \cup {None}
  BY DEF StopAll, RestartNode, At, HoldPcs, IInv, TypeOK, Process
<1>2. Calm
  <2>1. CASE StopAll(i)
    BY <1>1, <2>1, StruckIsCalm DEF StopAll, IInv
  <2>2. CASE RestartNode(i)
    BY <1>1, <2>2, StruckIsCalm DEF RestartNode, IInv
  <2>3. QED
    BY <2>1, <2>2
<1>3. QED
  BY <1>2, CalmKeeps DEF StopAll, RestartNode

LEMMA SeesExitKeeps ==
  ASSUME IInv, NEW i \in Pids, SeesExit(i)
  PROVE  IInv'
<1>1. "clear" \in Pcs /\ "clear" \notin HoldPcs /\ proc[i].pc \notin HoldPcs
  BY DEF Pcs, HoldPcs, SeesExit
<1>2. Calm
  BY <1>1, GotoIsCalm DEF SeesExit, IInv
<1>3. QED
  BY <1>2, CalmKeeps DEF SeesExit

LEMMA StepKeeps == IInv /\ [Next]_vars => IInv'
<1> SUFFICES ASSUME IInv, [Next]_vars PROVE IInv'
  OBVIOUS
<1>1. CASE UNCHANGED vars
  BY <1>1 DEF vars, IInv, TypeOK, EntryKept, NoneWorks, Active, Holding
<1>2. ASSUME NEW i \in Pids, Step(i) PROVE IInv'
  <2>1. CASE \E cmd \in Commands : Run(i, cmd)
    BY <2>1, RunKeeps
  <2>2. CASE Kill(i)
    BY <2>2, EndKeeps DEF Kill
  <2>3. CASE Check(i)
    BY <2>3, CheckKeeps
  <2>4. CASE AlreadyRunning(i) \/ LockTimeout(i) \/ Abort(i)
    BY <2>4, EndKeeps DEF AlreadyRunning, LockTimeout, Abort
  <2>5. CASE UnlinkStale(i)
    BY <2>5, UnlinkStaleKeeps
  <2>6. CASE \E c \in Pids : Launch(i, c)
    BY <2>6, LaunchKeeps
  <2>7. CASE WriteStart(i)
    BY <2>7, WriteStartKeeps
  <2>8. CASE WriteUpdate(i)
    <3>1. proc[i].target \in Pids \cup {None}
      BY DEF IInv, TypeOK, Process
    <3>2. QED
      BY <2>8, <3>1, EndKeeps DEF WriteUpdate
  <2>9. CASE WriteServe(i)
    BY <2>9, WriteServeKeeps
  <2>10. CASE NodeGoesOn(i)
    BY <2>10, NodeGoesOnKeeps
  <2>11. CASE Clear(i) \/ Remove(i)
    BY <2>11, ClearKeeps
  <2>12. CASE Look(i)
    BY <2>12, LookKeeps
  <2>13. CASE UnlinkSeen(i)
    BY <2>13, EndKeeps DEF UnlinkSeen
  <2>14. CASE Signal(i)
    BY <2>14, SignalKeeps
  <2>15. CASE NotFound(i)
    BY <2>15, NotFoundKeeps
  <2>16. CASE SeesExit(i)
    BY <2>16, SeesExitKeeps
  <2>17. CASE GiveUp(i) \/ Leave(i)
    BY <2>17, EndKeeps DEF GiveUp, Leave
  <2>18. CASE StopAll(i) \/ RestartNode(i)
    BY <2>18, DashboardKeeps
  <2>19. CASE \E c \in Pids : Relaunch(i, c)
    BY <2>19, RelaunchKeeps
  <2>20. QED
    BY <1>2, <2>1, <2>2, <2>3, <2>4, <2>5, <2>6, <2>7, <2>8, <2>9, <2>10, <2>11, <2>12, <2>13,
       <2>14, <2>15, <2>16, <2>17, <2>18, <2>19 DEF Step
<1>3. QED
  BY <1>1, <1>2 DEF Next

LEMMA Inductive == Spec => []IInv
<1>1. QED
  BY InitInvariant, StepKeeps, PTL DEF Spec

(* Processes, lock and PID file are of their type, and whoever is between  *)
(* its check and its write holds the start-up lock, and only it, for any   *)
(* PIDs and commands.                                                      *)
THEOREM TypeCorrect == Spec => []TypeOK
<1>1. IInv => TypeOK
  BY DEF IInv
<1>2. QED
  BY Inductive, <1>1, PTL

(* The PID file names every working node until a command without the lock  *)
(* takes a working node's entry away.                                      *)
THEOREM EntryAlwaysKept == Spec => []EntryKept
<1>1. IInv => EntryKept
  BY DEF IInv
<1>2. QED
  BY Inductive, <1>1, PTL

(* Until then there is never a second working node: what the start-up lock *)
(* and the check of the PID file are for.                                  *)
THEOREM OneNodeUnlessWiped == Spec => [](~wiped => OneNode)
<1>1. IInv => (~wiped => OneNode)
  BY DEF IInv, EntryKept, OneNode
<1>2. QED
  BY Inductive, <1>1, PTL
=============================================================================
