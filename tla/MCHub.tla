------------------------------- MODULE MCHub -------------------------------
(* Instances of Hub for TLC: rooms of one name, at most three connections.  *)
EXTENDS HubInv, TLC

OneRoom  == {<<"a">>}

ObjSymmetry == Permutations(Conns) \cup Permutations(RoomObjs)
=============================================================================
