\* A client started with the upper bound only: the lower bound defaults to 0.
CONSTANTS
  Callers = {c1, c2}
  NoCaller = NoCaller
  MaxPort = 3
  LBound = 0
  UBound = 2
  MaxTries = 2
SPECIFICATION Spec
INVARIANTS
  WithinRange
