CONSTANTS
  a = a
  b = b
  e = e
  web = web
  lan = lan
  k1 = k1
  k2 = k2
  h1 = h1
  None = None
  Clients = {a, b, e}
  Services = {web, lan}
  Conns = {k1, k2}
  Hops = {h1}
  VPorts = 2
  Cases <- Mixed
SPECIFICATION FairSpec
CHECK_DEADLOCK FALSE
INVARIANTS TypeOK 
PROPERTIES NoLeakedService RejectedEnds  
