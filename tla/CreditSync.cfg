\* Two nodes whose summaries are lost and overtaken, and which restart.
CONSTANTS
  a = a  b = b  own = own
  NoOwner = NoOwner  None = None
  Nodes = {a, b}
  Owners = {own}
  OwnerOf <- MCOwnerOf
  IdOf <- MCHostIds
  Reach <- MCReach
  Ahead <- MCAhead
  Tolerance = 1
  Interval = 1
  TTL = 2
  MaxPeers = 1
  MaxEarned <- MCMaxEarned
  UnderWay = 1
  MaxDelay = 0
SPECIFICATION FairSpec
INVARIANTS NoCreditInvented
PROPERTIES OneSideKeepsUp
