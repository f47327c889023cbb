--------------------------- MODULE MCNodeProcesses ---------------------------
(***************************************************************************)
(* Four PIDs, all commands; processes of one data directory are alike.     *)
(***************************************************************************)
EXTENDS NodeProcesses, TLC

CONSTANTS p1, p2, p3, p4

MCAll == {"start", "_serve", "stop", "update", "mcp"}

Alike == Permutations(Pids)
=============================================================================
