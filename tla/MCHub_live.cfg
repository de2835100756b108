\* Every goroutine is scheduled.
CONSTANTS
  IDs = {i1, i2}
  Names = {}
  RoomNames <- OneRoom
  Hashes = {}
  Conns = {c1, c2}
  RoomObjs = {r1}
  Https = {h1}
  Ops = {"kick"}
  MaxConns = 2
  ChanCap = 2
  MaxClosers = 1
  Nil = Nil
SPECIFICATION FairSpec
CHECK_DEADLOCK FALSE
PROPERTIES NoGhost 
