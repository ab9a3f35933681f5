\* A client whose range starts above 0 and ends above the largest port.
CONSTANTS
  Callers = {c1, c2}
  NoCaller = NoCaller
  MaxPort = 4
  LBound = 2
  UBound = 5
  MaxTries = 2
SPECIFICATION FairSpec
INVARIANTS
  TypeOK
  Exclusive
  WithinRange
PROPERTIES
  NoFalseExhaustion
  ReserveReturns
  ImplementsPool
