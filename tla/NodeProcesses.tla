---------------------------- MODULE NodeProcesses ----------------------------
(***************************************************************************)
(* The processes of one data directory: `infomesh start` with or without   *)
(* its dashboard, the `_serve` process it launches, `infomesh stop`,       *)
(* `infomesh update`, and other InfoMesh processes (the MCP server, say),  *)
(* which share a start-up lock and a PID file (cli/serve.py, runtime.py,   *)
(* dashboard/screens/settings.py).                                         *)
(*                                                                         *)
(* A process is its PID; the system gives a PID out again once the process *)
(* and, for a child that was never waited for, its parent have ended.      *)
(* Only start and _serve take the lock.  Reading the PID file and acting   *)
(* on what was read are steps of their own, for every command.             *)
(***************************************************************************)
EXTENDS Naturals, FiniteSets

CONSTANTS Pids,      \* the PIDs of the system
          None,
          Commands   \* the commands that are run

ASSUME PidsAssumption == None \notin Pids
ASSUME CommandsAssumption == Commands \subseteq {"start", "_serve", "stop", "update", "mcp"}

VARIABLES proc,      \* the processes
          lock,      \* who holds infomesh.start.lock
          pidFile,   \* the PID in infomesh.pid, or None
          wiped      \* has the entry of a working node been removed or replaced?

vars == <<proc, lock, pidFile, wiped>>

Pcs == {"gone", "zombie", "begin", "unlink", "prepare", "write", "shown", "rewait",
        "booting", "running", "closing", "stopping", "clear", "remove",
        "signal", "wait", "launch", "idle"}

Process == [cmd: {"none", "start", "_serve", "stop", "update", "mcp"}, pc: Pcs,
            target: Pids \cup {None},   \* the PID read, or the child launched
            node: Pids \cup {None},     \* the node the dashboard knows
            parent: Pids \cup {None}]

Gone == [cmd |-> "none", pc |-> "gone", target |-> None, node |-> None, parent |-> None]

New(cmd, parent) == [Gone EXCEPT !.cmd = cmd, !.pc = IF cmd = "mcp" THEN "idle" ELSE "begin",
                                 !.parent = parent]

\* os.kill(pid, 0) succeeds, also for a child that has ended and was not waited for.
Exists(i) == proc[i].pc # "gone"

\* is_infomesh_process: the command line of such a child is empty.
Live(i) == proc[i].pc \notin {"gone", "zombie"}

At(i, cmds, pc) == proc[i].cmd \in cmds /\ proc[i].pc = pc

\* A _serve process that has passed its check and still crawls or holds the P2P port.
Active(i) == proc[i].cmd = "_serve" /\ proc[i].pc \in {"booting", "running", "closing", "stopping"}

\* start and _serve between the check of the PID file and the writing of it.
Starters == {"start", "_serve"}

Holding(i) == proc[i].cmd \in Starters /\ proc[i].pc \in {"unlink", "prepare", "write"}

Init == /\ proc = [i \in Pids |-> Gone]
        /\ lock = None
        /\ pidFile = None
        /\ wiped = FALSE
-----------------------------------------------------------------------------
(* Ending and signalling.                                                  *)

\* The processes p after i has ended: i waits for its parent, its children have none.
Dead(p, i) ==
    [j \in Pids |->
        CASE j = i /\ p[i].parent = None -> Gone
          [] j = i /\ p[i].parent # None -> [Gone EXCEPT !.pc = "zombie", !.parent = p[i].parent]
          [] j # i /\ p[j].parent # i -> p[j]
          [] j # i /\ p[j].parent = i /\ p[j].pc = "zombie" -> Gone
          [] OTHER -> [p[j] EXCEPT !.parent = None]]

\* fault: the lock of a process that ends stays.
ReleasedNever(i) == lock

Released(i) == IF lock = i THEN None ELSE lock

Exit(i) == proc' = Dead(proc, i) /\ lock' = Released(i)

Goto(i, pc) == proc' = [proc EXCEPT ![i].pc = pc]

\* SIGTERM ends every process but a node that handles it.
Handles(i) == proc[i].pc \in {"running", "closing", "zombie"}

Struck(i) == IF Handles(i)
             THEN [proc EXCEPT ![i].pc = IF @ = "running" THEN "closing" ELSE @]
             ELSE Dead(proc, i)

StruckLock(i) == IF Handles(i) THEN lock ELSE Released(i)

\* A command without the lock writes pid or removes the file (None): it may take the
\* entry of a working node away.
SetFile(pid) ==
    /\ pidFile' = pid
    /\ wiped' = (wiped \/ (pidFile \notin {None, pid} /\ Active(pidFile)))

Run(i, cmd) ==
    /\ ~Exists(i)
    /\ proc' = [proc EXCEPT ![i] = New(cmd, None)]
    /\ UNCHANGED <<lock, pidFile, wiped>>

\* kill -9, or a crash.
Kill(i) == Live(i) /\ Exit(i) /\ UNCHANGED <<pidFile, wiped>>
-----------------------------------------------------------------------------
(* start and _serve under the lock.                                        *)

\* What follows the check of the PID file.
Passed(i) == IF proc[i].cmd = "start" THEN "prepare" ELSE "write"

\* fault: _serve relies on the check of the start that launched it.
TakenAtStart(i) == pidFile # None /\ Live(pidFile) /\ proc[i].cmd = "start"

\* The file names a live process; its own PID stops start, but not _serve.
Taken(i) == pidFile # None /\ Live(pidFile) /\ (proc[i].cmd = "start" \/ pidFile # i)

Check(i) ==
    /\ At(i, Starters, "begin")
    /\ lock = None
    /\ ~Taken(i)
    /\ lock' = i
    /\ Goto(i, IF pidFile = None \/ Live(pidFile) THEN Passed(i) ELSE "unlink")
    /\ UNCHANGED <<pidFile, wiped>>

AlreadyRunning(i) ==
    /\ At(i, Starters, "begin")
    /\ lock = None
    /\ Taken(i)
    /\ Exit(i)
    /\ UNCHANGED <<pidFile, wiped>>

LockTimeout(i) ==
    /\ At(i, Starters, "begin")
    /\ lock # None
    /\ Exit(i)
    /\ UNCHANGED <<pidFile, wiped>>

\* The stale file goes, or whatever is in its place by now.
UnlinkStale(i) ==
    /\ At(i, Starters, "unlink")
    /\ pidFile' = None
    /\ Goto(i, Passed(i))
    /\ UNCHANGED <<lock, wiped>>

\* A failed preflight check, or the user declines.
Abort(i) ==
    /\ At(i, {"start"}, "prepare")
    /\ Exit(i)
    /\ UNCHANGED <<pidFile, wiped>>

\* Popen of _serve by start (under the lock) and by update (without it).
Launch(i, c) ==
    /\ At(i, {"start"}, "prepare") \/ At(i, {"update"}, "launch")
    /\ ~Exists(c)
    /\ proc' = [proc EXCEPT ![i].pc = "write", ![i].target = c, ![i].node = c,
                            ![c] = New("_serve", i)]
    /\ UNCHANGED <<lock, pidFile, wiped>>

WriteStart(i) ==
    /\ At(i, {"start"}, "write")
    /\ pidFile' = proc[i].target
    /\ lock' = Released(i)
    /\ Goto(i, "shown")
    /\ UNCHANGED wiped

WriteUpdate(i) ==
    /\ At(i, {"update"}, "write")
    /\ SetFile(proc[i].target)
    /\ Exit(i)

WriteServe(i) ==
    /\ At(i, {"_serve"}, "write")
    /\ pidFile' = i
    /\ lock' = Released(i)
    /\ Goto(i, "booting")
    /\ UNCHANGED wiped
-----------------------------------------------------------------------------
(* The node: signal handlers, an orderly end, its own entry.               *)

NodeGoesOn(i) ==
    /\ proc[i].cmd = "_serve"
    /\ \E way \in {<<"booting", "running">>, <<"closing", "stopping">>, <<"stopping", "clear">>} :
          proc[i].pc = way[1] /\ Goto(i, way[2])
    /\ UNCHANGED <<lock, pidFile, wiped>>

\* Whose entry clear_pid_file may remove.
Owner(i) == IF proc[i].cmd = "_serve" THEN i ELSE proc[i].target

\* clear_pid_file reads; a missing file is unlinked like one's own.
Clear(i) ==
    /\ proc[i].pc = "clear"
    /\ IF pidFile \in {None, Owner(i)} THEN Goto(i, "remove") /\ UNCHANGED lock
       ELSE IF proc[i].cmd = "update" THEN Goto(i, "launch") /\ UNCHANGED lock
       ELSE Exit(i)
    /\ UNCHANGED <<pidFile, wiped>>

Remove(i) ==
    /\ proc[i].pc = "remove"
    /\ SetFile(None)
    /\ IF proc[i].cmd = "update" THEN Goto(i, "launch") /\ UNCHANGED lock ELSE Exit(i)
-----------------------------------------------------------------------------
(* stop and update.                                                        *)

Enders == {"stop", "update"}

Look(i) ==
    /\ At(i, Enders, "begin")
    /\ IF pidFile = None THEN Exit(i)
       ELSE /\ proc' = [proc EXCEPT ![i].pc = IF Live(pidFile) THEN "signal" ELSE "unlink",
                                    ![i].target = pidFile]
            /\ UNCHANGED lock
    /\ UNCHANGED <<pidFile, wiped>>

\* Like start's, but without the lock.
UnlinkSeen(i) ==
    /\ At(i, Enders, "unlink")
    /\ SetFile(None)
    /\ Exit(i)

\* SIGTERM to the PID that was read, whoever has it by now.
Signal(i) ==
    /\ At(i, Enders, "signal")
    /\ Exists(proc[i].target)
    /\ proc' = IF proc[i].target = i THEN Dead(proc, i)
               ELSE [Struck(proc[i].target) EXCEPT ![i].pc = "wait"]
    /\ lock' = StruckLock(proc[i].target)
    /\ UNCHANGED <<pidFile, wiped>>

\* ProcessLookupError: stop ends, update clears the entry and ends, as stop does.
NotFound(i) ==
    /\ At(i, Enders, "signal")
    /\ ~Exists(proc[i].target)
    /\ IF proc[i].cmd = "stop" THEN Exit(i)
       ELSE /\ proc' = [proc EXCEPT ![i].cmd = "stop", ![i].pc = "clear"]
            /\ UNCHANGED lock
    /\ UNCHANGED <<pidFile, wiped>>

SeesExit(i) ==
    /\ proc[i].pc = "wait"
    /\ ~Exists(proc[i].target)
    /\ Goto(i, "clear")
    /\ UNCHANGED <<lock, pidFile, wiped>>

\* After 10 s; a child that ended but was not waited for counts as running.
GiveUp(i) ==
    /\ proc[i].pc = "wait"
    /\ Exists(proc[i].target)
    /\ Exit(i)
    /\ UNCHANGED <<pidFile, wiped>>
-----------------------------------------------------------------------------
(* The dashboard of a foreground start.                                    *)

\* At once for a background start.
Leave(i) ==
    /\ At(i, {"start"}, "shown")
    /\ Exit(i)
    /\ UNCHANGED <<pidFile, wiped>>

\* "stop_all" signals the child start launched, not the one a restart has.
StopAll(i) ==
    /\ At(i, {"start"}, "shown")
    /\ proc' = [Struck(proc[i].target) EXCEPT ![i].pc = "wait"]
    /\ lock' = StruckLock(proc[i].target)
    /\ UNCHANGED <<pidFile, wiped>>

RestartNode(i) ==
    /\ At(i, {"start"}, "shown")
    /\ proc' = [Struck(proc[i].node) EXCEPT ![i].pc = "rewait"]
    /\ lock' = StruckLock(proc[i].node)
    /\ UNCHANGED <<pidFile, wiped>>

\* After 5 s, or when the old node is gone; no entry is written.  Popen waits for
\* the children of earlier restarts.
Relaunch(i, c) ==
    /\ At(i, {"start"}, "rewait")
    /\ ~Exists(c)
    /\ proc' = [j \in Pids |->
          CASE j = c -> New("_serve", i)
            [] j = i -> [proc[i] EXCEPT !.pc = "shown", !.node = c]
            [] j \notin {c, i, proc[i].target} /\ proc[j].parent = i /\ proc[j].pc = "zombie" -> Gone
            [] OTHER -> proc[j]]
    /\ UNCHANGED <<lock, pidFile, wiped>>
-----------------------------------------------------------------------------
Step(i) ==
    \/ \E cmd \in Commands : Run(i, cmd)
    \/ Kill(i)
    \/ Check(i) \/ AlreadyRunning(i) \/ LockTimeout(i) \/ UnlinkStale(i) \/ Abort(i)
    \/ \E c \in Pids : Launch(i, c)
    \/ WriteStart(i) \/ WriteUpdate(i) \/ WriteServe(i)
    \/ NodeGoesOn(i) \/ Clear(i) \/ Remove(i)
    \/ Look(i) \/ UnlinkSeen(i) \/ Signal(i) \/ NotFound(i) \/ SeesExit(i) \/ GiveUp(i)
    \/ Leave(i) \/ StopAll(i) \/ RestartNode(i)
    \/ \E c \in Pids : Relaunch(i, c)

Next == \E i \in Pids : Step(i)

Spec == Init /\ [][Next]_vars
-----------------------------------------------------------------------------
(* Processes, lock and PID file are of their type, and the start-up lock   *)
(* is held by whoever is between its check and its write, and only then:   *)
(* a process that ends, at whatever step, frees it.                        *)
TypeOK == /\ proc \in [Pids -> Process]
          /\ lock \in Pids \cup {None}
          /\ pidFile \in Pids \cup {None}
          /\ wiped \in BOOLEAN
          /\ \A i \in Pids : lock = i <=> Holding(i)

(* README.md says that lock and PID file prevent duplicate node processes  *)
(* for one data directory: two _serve processes never work at a time.      *)
OneNode == \A i, j \in Pids : Active(i) /\ Active(j) => i = j

(* As long as no stop, update or ending node, which act without the lock,  *)
(* has taken the entry of a working node away, the PID file names every    *)
(* working node, also one that shuts down slowly, so there is one at most: *)
(* whatever is started, stopped, restarted, updated and killed, and        *)
(* whichever PID is given out again.                                       *)
EntryKept == ~wiped => \A i \in Pids : Active(i) => pidFile = i
=============================================================================
