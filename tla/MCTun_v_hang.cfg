CONSTANTS
  a = a
  b = b
  e = e
  Clients = {a, b, e}
  Octet <- Octets
  Cases <- Pair
SPECIFICATION FairSpec
CHECK_DEADLOCK FALSE
PROPERTY BackTogether
