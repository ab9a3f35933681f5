\* Two handlers asked for the same port of one client.
\* Every connection of the instance may come to its end, after which nothing is
\* left to do: hence no deadlock check.
CONSTANTS
  Clients = {a}
  Handlers = {h1, h2}
  None = None
  ServerPorts = {s1, s2}
  ClientPorts = {p1}
  NumServices = 2
  NumFeatures = 0
SPECIFICATION Spec
INVARIANTS
  OneTunnelPerClientPort
CHECK_DEADLOCK FALSE
