\* A node with its rounds between two that come and go, all on one LAN; the limiter has room for both.
CONSTANTS
  a = a  b = b  s = s
  Nodes = {a, b, s}
  Boot <- MCBoot
  Lan = {a, b, s}
  Rounds = {a}
  Reused = {b}
  MaxPerSubnet = 2
  LoadLimit = 1
  MaxPeers = 1
  Weight = 1
  MaxStanding = 1
  PerRound = 1
  PexMax = 2
SPECIFICATION FairSpec
INVARIANTS TypeOK
PROPERTIES ConnectedKept Rejoins LanMeets
