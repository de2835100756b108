\* The dashboard bans, unbans, creates, deletes and changes room flags
\* while clients relay and race for the last free connection.
CONSTANTS
  IDs = {i1}
  Names = {}
  RoomNames <- OneRoom
  Hashes = {}
  Conns = {c1, c2, c3}
  RoomObjs = {r1}
  Https = {h1}
  Ops = {"ban", "unban", "create", "delete", "lock", "relay", "data", "bcastOthers"}
  MaxConns = 1
  ChanCap = 1
  MaxClosers = 1
  Nil = Nil
SPECIFICATION Spec
SYMMETRY ObjSymmetry
CHECK_DEADLOCK FALSE
INVARIANTS MemberKey GhostFree ConnAccounting 
