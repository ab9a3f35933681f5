\* Two browsers, a limit of one terminal or Once; three sessions of a reverse
\* tunnel; two connections to a bound port; two queries and two versions of a
\* file; two stations behind a device and three rounds of its loop.
\* Every service may come to its end: hence no deadlock check.
CONSTANTS
  Browsers = {b1, b2}
  MaxTunnels = 3
  MaxPeers = 2
  QueueRoom = 1
  MaxBindPeers = 2
  Queries = {q1, q2}
  MaxVersions = 2
  DnsBacklog = 1
  Stations = {s1, s2}
  Gateway = s1
  MaxRounds = 3
  MaxMoves = 1
SPECIFICATION FairSpec
INVARIANTS
  ServicesTypeOK
PROPERTIES
  TerminalsEnd
  LoopsComeBack
  SocksReleases
  ReloadLearns
CHECK_DEADLOCK FALSE
