\* Two processes, which may be killed inside a call.
CONSTANTS
  p = p  q = q  None = None
  Procs = {p, q}
  MayCrash = TRUE
  Amounts <- MCAmounts
  GraceHours = 2
  MaxTotal = 8
  Tier2At = 4
  Tier3At = 10
  Cost1 = 3
  Cost2 = 2
  Cost3 = 1
SPECIFICATION Spec
INVARIANTS TypeOK OverdrawnHasGrace
PROPERTIES NoPenaltyInGrace
