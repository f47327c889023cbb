\* The managers as the program makes them, without a local_peer_id.
CONSTANTS
  a = a  b = b  own = own
  NoOwner = NoOwner  None = None
  Nodes = {a, b}
  Owners = {own}
  OwnerOf <- MCOwnerOf
  IdOf <- MCNoIds
  Reach <- MCReach
  Ahead <- MCAhead
  Tolerance = 1
  Interval = 1
  TTL = 2
  MaxPeers = 1
  MaxEarned <- MCMaxEarned
  UnderWay = 1
  MaxDelay = 0
SPECIFICATION FairSpec
PROPERTIES OneSideKeepsUp
