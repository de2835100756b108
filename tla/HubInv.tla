------------------------------- MODULE HubInv -------------------------------
(***************************************************************************)
(* The inductive invariant behind MemberKey and GhostFree: what each       *)
(* goroutine of Hub relies on between two of its lock acquisitions.        *)
(***************************************************************************)
EXTENDS Hub

RemoveTail == {"closeAll", "delRoom", "removeBcast"}
RoomStages == RemoveTail \cup {"remove", "check", "insert", "joinBcast",
                 "bcast", "bcastOthers", "ban", "banClose", "kick",
                 "kickClose", "kickBcast", "unban", "relayBcast"}
PeerStages == {"relaySend", "banClose", "kickClose", "kickBcast"}
IdStages   == {"wsDisc", "ban", "kick", "unban"}

(* The locals a stage uses are set, and an object in use was allocated.    *)
Locals ==
  /\ \A t \in Threads :
       /\ at[t] \in RoomStages => lroom[t] \in RoomObjs
       /\ at[t] \in PeerStages => lpeer[t] \in Conns
       /\ at[t] \in {"find", "create"} => req[t] \in Creds
       /\ at[t] \in IdStages => req[t] \in IDs
       /\ lroom[t] \in RoomObjs => cred[lroom[t]] # Nil
  /\ \A c \in Conns : at[c] # "new" => cid[c] \in IDs
  /\ \A c \in Conns : at[c] \in ReaderStages /\ req[c] \in Creds \cup {Nil}
  /\ at["hub"] \in HubStages
  /\ at["hub"] = "idle" <=> lpeer["hub"] = Nil
  /\ lpeer["hub"] # Nil => at[lpeer["hub"]] \in {"exited", "done"}
  /\ \A c \in Conns : c \in Queue => at[c] \in {"exited", "done"}

(* Rooms are registered under their own key; a room not yet allocated is   *)
(* empty; members are connections that exist, under their own ID.          *)
Registry ==
  /\ \A k \in Keys : rooms[k] # Nil => cred[rooms[k]] # Nil /\ Key(rooms[k]) = k
  /\ \A r \in RoomObjs, i \in IDs : clients[r][i] # Nil =>
       /\ cred[r] # Nil
       /\ at[clients[r][i]] # "new"
       /\ cid[clients[r][i]] = i

(* No registered room but r lists c.                                       *)
ListedOnlyIn(c, r) ==
  \A k \in Keys, i \in IDs :
     rooms[k] # Nil /\ clients[rooms[k]][i] = c => rooms[k] = r

(* A reader is in no room from the moment it left one until it entered the *)
(* next; a removal finds its client in the room it looked up or nowhere.   *)
Placement ==
  /\ \A c \in Conns :
       /\ at[c] \in RemoveTail \cup {"find", "create", "check", "insert"} =>
            ListedOnlyIn(c, Nil)
       /\ at[c] = "remove" => ListedOnlyIn(c, lroom[c])
       /\ at[c] = "insert" => croom[c] = Key(lroom[c])
       /\ at[c] \in {"exited", "done"} /\ c \notin Queue /\ lpeer["hub"] # c
            => ListedOnlyIn(c, Nil)
  /\ at["hub"] = "remove" => ListedOnlyIn(lpeer["hub"], lroom["hub"])
  /\ at["hub"] \in RemoveTail => ListedOnlyIn(lpeer["hub"], Nil)

IInv == TypeOK /\ Locals /\ Registry /\ MemberKey /\ Placement
=============================================================================
