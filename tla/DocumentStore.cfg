\* serve, and the MCP server or an import beside it, coming and going.
CONSTANTS
  n = n  m = m  a = a  b = b  s = s  t = t  None = None
  Procs = {n, m}
  Kinds <- MCKinds
  Pages <- MCPages
  Batch = 1
  MaxId = 3
SPECIFICATION FairSpec
INVARIANTS TypeOK IdsNameOnePage
PROPERTIES SkipsOnlyForRemovals PagesComeAndGo LockGivenBack
