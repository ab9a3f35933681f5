\* Three callers of one service, on a client that may be lost; or two clients
\* that are lost while their starters use the service.
\* Every connection of the instance may come to its end, after which nothing is
\* left to do: hence no deadlock check.
CONSTANTS
  Clients = {a, b}
  Handlers = {h1, h2}
  None = None
  ServerPorts = {s1}
  ClientPorts = {p1}
  NumServices = 1
  NumFeatures = 1
SPECIFICATION SmallFairSpec
PROPERTIES
  CallsReturn
  LostClientsRemoved
CHECK_DEADLOCK FALSE
