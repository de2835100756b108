\* Clients only: two machines under one friendly name, one room name with
\* and without a password.
CONSTANTS
  IDs = {i1, i2}
  Names = {n1}
  RoomNames <- OneRoom
  Hashes = {p1}
  Conns = {c1, c2}
  RoomObjs = {r1, r2}
  Https = {h1}
  Ops = {"leave", "bcast"}
  MaxConns = 2
  ChanCap = 1
  MaxClosers = 1
  Nil = Nil
SPECIFICATION Spec
SYMMETRY ObjSymmetry
CHECK_DEADLOCK FALSE
INVARIANTS TypeOK MemberKey GhostFree
