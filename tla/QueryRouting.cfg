\* Candidates up to twice the fan-out; latencies that jump by more than the factor.
CONSTANTS
  a = a  b = b  c = c  d = d  q = q
  Queries = {q}
  Peers = {a, b, c, d}
  Finds <- MCFinds
  Moods <- MCMoods
  MaxFanout = 2
  KnownAfter = 1
  Factor = 2
  MinTimeout = 1
  BaseTimeout = 4
  MaxPace = 3
SPECIFICATION BusySpec
INVARIANTS FullFanout
PROPERTIES InTimeStays NoPeerStarved HeardAgain
