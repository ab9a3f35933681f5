\* One client, its starter at two features and a handler on the same list.
\* Every connection of the instance may come to its end, after which nothing is
\* left to do: hence no deadlock check.
CONSTANTS
  Clients = {a}
  Handlers = {h1}
  None = None
  ServerPorts = {s1, s2, s3}
  ClientPorts = {p1, p2}
  NumServices = 2
  NumFeatures = 2
SPECIFICATION Spec
SYMMETRY Symmetry
INVARIANTS
  TypeOK
  ServiceMutex
  PortAccounting
  AnsweredIsListed
CHECK_DEADLOCK FALSE
