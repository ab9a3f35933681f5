\* Three clients of a service; two users of one service with a pause of
\* two seconds, each of three ticks; three hosts for two slots; two requests of the portal; numbers
\* of four bits; bodies of up to two frames;
\* three calls of two agents for one port.
\* Every part may come to its end: hence no deadlock check.
CONSTANTS
  MaxClients = 3
  NumServices = 1
  None = None
  Users = {u1, u2}
  Pause = 2
  PerSecond = 3
  MaxTime = 14
  NumHosts = 3
  Slots = 2
  Requests = {r1, r2}
  Usernames = {"joebot", "x"}
  Admin = "joebot"
  Addresses = {a1, a2}
  NoRow = NoRow
  Width = 4
  MaxOut = 18
  MaxFrames = 2
  Agents = {g1, g2}
  PortTunnels = {t1, t2, t3}
  ServerPorts = {8001}
SPECIFICATION FairSpec
INVARIANTS
  PartsTypeOK
  MissedOnlyWhenCut
  ListIsExact
  UsesAreSpaced
  TokenFitsAddress
  ExpansionExact
  WholeWithinWindow
  CallersReachTheirTunnel
PROPERTIES
  LoopsEnd
CHECK_DEADLOCK FALSE
