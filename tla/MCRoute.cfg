\* Two connections to two targets, over a chain of one node in either group.
\* Every connection comes to its end: hence no deadlock check.
CONSTANTS
  Forwards = {f1, f2}
  FirstNodes = 1
  LastNodes = 1
  Targets = 2
  RouteTries = 2
  FailLimit = 1
SPECIFICATION RouteSpec
PROPERTIES
  RefusedWhenAllFailed
CHECK_DEADLOCK FALSE
