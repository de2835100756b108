\* A reconnecting machine and the late end of its old connection.
CONSTANTS
  IDs = {i1}
  Names = {}
  RoomNames <- OneRoom
  Hashes = {}
  Conns = {c1, c2}
  RoomObjs = {r1}
  Https = {h1}
  Ops = {}
  MaxConns = 2
  ChanCap = 1
  MaxClosers = 1
  Nil = Nil
SPECIFICATION Spec
CHECK_DEADLOCK FALSE
PROPERTY ReconnectKeepsNew
