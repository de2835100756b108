CONSTANTS
  h1 = h1
  h2 = h2
  Hosts = {h1, h2}
  Me = Me
  Ports = {1, 2}
  Word = 4
  VipSum = 2
  SnatSum = 3
  tunMSS = 1
  Life = 2
  None = None
  Cases <- Mixed
SPECIFICATION FairSpec
CHECK_DEADLOCK FALSE
INVARIANTS TypeOK 
PROPERTIES  Answered
