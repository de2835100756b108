CONSTANTS
  a = a
  b = b
  e = e
  Clients = {a, b, e}
  Octet <- Octets
  Cases <- Mixed
SPECIFICATION FairSpec
CHECK_DEADLOCK FALSE
INVARIANTS TypeOK TableIsOpen IncomingUnique
 
