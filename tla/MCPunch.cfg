CONSTANTS
  a = a
  b = b
  Clients = {a, b}
  Cases <- Mixed
  MaxKey = 5
  FailLimit = 2
  MaxFails = 2
  MaxSock = 3
SPECIFICATION FairSpec
CHECK_DEADLOCK FALSE
INVARIANTS TypeOK FailsAreHonest
PROPERTIES KeyStable FallsBack 
