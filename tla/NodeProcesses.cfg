\* Every command, four PIDs that are given out again, kills at any time.
CONSTANTS
  p1 = p1  p2 = p2  p3 = p3  p4 = p4  None = None
  Pids = {p1, p2, p3, p4}
  Commands <- MCAll
SPECIFICATION Spec
SYMMETRY Alike
INVARIANTS TypeOK EntryKept
