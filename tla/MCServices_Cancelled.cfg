\* One browser and a terminal server; the other services at their smallest.
\* Every service may come to its end: hence no deadlock check.
CONSTANTS
  Browsers = {b1}
  MaxTunnels = 1
  MaxPeers = 1
  QueueRoom = 1
  MaxBindPeers = 1
  Queries = {q1}
  MaxVersions = 1
  DnsBacklog = 1
  Stations = {s1}
  Gateway = s1
  MaxRounds = 1
  MaxMoves = 0
SPECIFICATION FairSpec
PROPERTIES
  CancelAborts
CHECK_DEADLOCK FALSE
