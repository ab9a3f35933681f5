\* Two goroutines on one pool with two sessions; three streams for a queue of
\* two; two senders of datagrams and three connections; two connections over a
\* chain of groups of two, one and two nodes; three chunks from each end;
\* writes up to half as long again as a record; three versions of the peers;
\* three links of two users and a listing beside visitors and deletions; two
\* requests for files in two seconds.
\* Every part may come to its end: hence no deadlock check.
CONSTANTS
  Callers = {u1, u2}
  MaxConns = 3
  MaxSessions = 2
  PingRetries = 1
  Streams = {c1, c2, c3}
  QueueCap = 2
  Peers = {p1, p2}
  MaxAssoc = 3
  Backlog = 1
  QueueSize = 1
  MaxSocks = 2
  Forwards = {f1, f2}
  FirstNodes = 2
  LastNodes = 1
  Targets = 2
  RouteTries = 2
  FailLimit = 1
  MaxChunks = 3
  MaxRecord = 2
  MaxWrite = 3
  MaxUnits = 4
  MaxRead = 5
  MaxFollowing = 2
  MaxBytes = 2
  ProxyTries = 2
  MaxConfigs = 3
  MaxNodes = 2
  Owners = {o1, o2}
  Hashes = {1, 2, 3}
  Listings = {l1}
  MaxClock = 2
  Transfers = {t1, t2}
  MaxFiles = 3
  MaxSeconds = 2
SPECIFICATION Spec
INVARIANTS
  ForksTypeOK
  SessionsArePooled
  ListenersDeliver
  RetriesSuffice
  BytesArriveInOrder
  ListsOfPeersRun
  BrowserShowsWhatIsThere
CHECK_DEADLOCK FALSE
