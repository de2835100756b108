----------------------------- MODULE HubProofs -----------------------------
(***************************************************************************)
(* Proofs that IInv is an inductive invariant of Hub, for any number of    *)
(* connections, rooms, IDs and HTTP handlers.  Each action has a lemma;    *)
(* its first step is the typing part, its second the registry part.        *)
(***************************************************************************)
EXTENDS HubInv, FiniteSetTheorems, TLAPS

(* Room keys are built from credentials by roomKey.                        *)
LEMMA KeyType == \A cr \in Creds : roomKey(cr[1], cr[2]) \in Keys
  BY DEF Keys

(* What the lookup by client.roomKey in removeClientFromRoom returns.      *)
LEMMA HasRoomFact ==
  ASSUME IInv, NEW c \in Conns, HasRoom(c)
  PROVE  /\ croom[c] \in Keys
         /\ rooms[croom[c]] \in RoomObjs
         /\ cred[rooms[croom[c]]] # Nil
  BY DEF IInv, TypeOK, RoomTypes, ConnTypes, Registry, HasRoom

(* Registered rooms are allocated.                                         *)
LEMMA InHubFact ==
  ASSUME IInv, NEW r \in InHub
  PROVE  r \in RoomObjs /\ cred[r] # Nil
  BY DEF IInv, TypeOK, RoomTypes, Registry, InHub

(* findClient returns connections.                                         *)
LEMMA FindClientFact ==
  ASSUME IInv, NEW i \in IDs, NEW p \in FindClient(i)
  PROVE  p \in Conns
  BY InHubFact DEF IInv, TypeOK, RoomTypes, FindClient

(* getOrCreateRoom stores a well-formed room.                              *)
LEMMA NewRoomType ==
  ASSUME RoomTypes, NEW r \in RoomObjs, NEW cr \in Creds,
         NEW own \in IDs \cup {Nil}, NewRoom(r, cr, own),
         UNCHANGED <<held, hubLock>>
  PROVE  RoomTypes'
<1>. DEFINE k == roomKey(cr[1], cr[2])
<1>1. rooms' \in [Keys -> RoomObjs \cup {Nil}]
  <2>1. rooms' = [rooms EXCEPT ![k] = r]
    BY DEF NewRoom
  <2>. HIDE DEF k
  <2>. QED
    BY <2>1 DEF RoomTypes
<1>2. cred' \in [RoomObjs -> Creds \cup {Nil}]
  BY DEF NewRoom, RoomTypes
<1>3. owner' \in [RoomObjs -> IDs \cup {Nil}]
  BY DEF NewRoom, RoomTypes
<1>4. UNCHANGED <<clients, banned, locked, relayOff, held, hubLock>>
  BY DEF NewRoom
<1>. QED
  BY <1>1, <1>2, <1>3, <1>4 DEF RoomTypes

(* The reader c ends a handler: only its own locals change.                *)
LEMMA BackToReading ==
  ASSUME IInv, NEW c \in Conns, UNCHANGED <<cred, cid, Queue>>,
         at[c] \notin {"new", "exited", "done"},
         at'[c] \in {"read", "find"},
         lroom'[c] = Nil,
         req'[c] \in Creds \cup {Nil},
         at'[c] = "find" => req'[c] \in Creds,
         \A u \in Threads \ {c} : /\ at'[u] = at[u] /\ lroom'[u] = lroom[u]
                                  /\ lpeer'[u] = lpeer[u] /\ req'[u] = req[u]
  PROVE  Locals'
<1>1. c # "hub" /\ c # Nil /\ c \in Threads /\ "hub" \in Threads
  BY NilAssumption DEF Threads
<1>2. ASSUME NEW u \in Threads
      PROVE  /\ at'[u] \in RoomStages => lroom'[u] \in RoomObjs
             /\ at'[u] \in PeerStages => lpeer'[u] \in Conns
             /\ at'[u] \in {"find", "create"} => req'[u] \in Creds
             /\ at'[u] \in IdStages => req'[u] \in IDs
             /\ lroom'[u] \in RoomObjs => cred'[lroom'[u]] # Nil
  <2>1. CASE u = c
    BY <1>1, <2>1, NilAssumption
    DEF RoomStages, RemoveTail, PeerStages, IdStages
  <2>2. CASE u # c
    BY <2>2 DEF IInv, Locals
  <2>. QED
    BY <2>1, <2>2
<1>3. ASSUME NEW d \in Conns
      PROVE  /\ at'[d] # "new" => cid'[d] \in IDs
             /\ at'[d] \in ReaderStages
             /\ req'[d] \in Creds \cup {Nil}
  BY DEF IInv, Locals, Threads, ReaderStages
<1>4. /\ at'["hub"] = at["hub"] /\ lpeer'["hub"] = lpeer["hub"]
      /\ lpeer["hub"] # c
  BY <1>1 DEF IInv, Locals
<1>5. lpeer["hub"] # Nil => at'[lpeer["hub"]] = at[lpeer["hub"]]
  BY <1>1, <1>4 DEF IInv, TypeOK, ThreadTypes, Threads
<1>6. \A d \in Conns : d \in Queue => at'[d] \in {"exited", "done"}
  BY DEF IInv, Locals, Threads
<1>. QED
  BY <1>2, <1>3, <1>4, <1>5, <1>6 DEF IInv, Locals

(* hub.unregister <- c adds c to the queue.                                *)
LEMMA QueueAppend ==
  ASSUME unreg \in Seq(Conns), NEW c \in Conns, unreg' = Append(unreg, c)
  PROVE  /\ Queue' = Queue \cup {c} /\ unreg' \in Seq(Conns)
         /\ Len(unreg') = Len(unreg) + 1
<1>1. Len(unreg) \in Nat /\ Len(unreg') = Len(unreg) + 1
  OBVIOUS
<1>2. /\ \A j \in 1 .. Len(unreg) : unreg'[j] = unreg[j]
      /\ unreg'[Len(unreg) + 1] = c
  OBVIOUS
<1>3. 1 .. Len(unreg') = (1 .. Len(unreg)) \cup {Len(unreg) + 1}
  BY <1>1
<1>4. Queue' = {unreg'[j] : j \in 1 .. Len(unreg')}
  BY DEF Queue
<1>. QED
  BY <1>1, <1>2, <1>3, <1>4 DEF Queue

(* The hub's receive takes nobody but its head out of the queue.           *)
LEMMA QueueTail ==
  ASSUME unreg \in Seq(Conns), unreg # <<>>, unreg' = Tail(unreg)
  PROVE  /\ Queue' \subseteq Queue /\ Queue \subseteq Queue' \cup {Head(unreg)}
         /\ unreg' \in Seq(Conns) /\ Head(unreg) \in Queue
         /\ Len(unreg') < Len(unreg)
<1>1. /\ Len(unreg) \in Nat \ {0} /\ Len(unreg') = Len(unreg) - 1
      /\ unreg' \in Seq(Conns) /\ Head(unreg) = unreg[1]
  OBVIOUS
<1>2. \A j \in 1 .. Len(unreg) - 1 : unreg'[j] = unreg[j + 1]
  OBVIOUS
<1>3. Queue' = {unreg'[j] : j \in 1 .. Len(unreg) - 1}
  BY <1>1 DEF Queue
<1>4. Queue' \subseteq Queue
  BY <1>1, <1>2, <1>3 DEF Queue
<1>5. ASSUME NEW d \in Queue PROVE d \in Queue' \cup {unreg[1]}
  <2>1. PICK j \in 1 .. Len(unreg) : unreg[j] = d
    BY DEF Queue
  <2>2. CASE j = 1
    BY <2>1, <2>2
  <2>3. CASE j # 1
    <3>1. j - 1 \in 1 .. Len(unreg) - 1 /\ unreg'[j - 1] = d
      BY <1>1, <1>2, <2>1, <2>3
    <3>. QED
      BY <1>3, <3>1
  <2>. QED
    BY <2>2, <2>3
<1>. QED
  BY <1>1, <1>4, <1>5 DEF Queue

(* removeClientFromRoom: delete(room.Clients, client.id) under room.mu.    *)
LEMMA RemoveLockStep ==
  ASSUME IInv, NEW t \in Removers, RemoveLock(t)
  PROVE  IInv'
<1>0. Queue' = Queue
  BY DEF RemoveLock, Queue, connVars
<1>1. (TypeOK /\ Locals)'
  BY <1>0, NilAssumption DEF RemoveLock, IInv, TypeOK, RoomTypes, ConnTypes,
     ThreadTypes, Locals, RoomStages, RemoveTail, PeerStages, IdStages,
     Threads, Removers, ReaderStages, HubStages, HttpStages, Goto, connVars,
     linkVars, localVars, roomVars, serverVars
<1>2. (Registry /\ MemberKey /\ Placement)'
  BY <1>0, NilAssumption DEF RemoveLock, IInv, TypeOK, RoomTypes, ConnTypes,
     ThreadTypes, Locals, Registry, MemberKey, Placement, ListedOnlyIn,
     RemoveTail, Threads, Removers, Key, Goto, Subject, connVars, localVars,
     roomVars, serverVars
<1>. QED
  BY <1>1, <1>2 DEF IInv

(* removeClientFromRoom: the owner left, every member is closed.           *)
LEMMA CloseAllStep ==
  ASSUME IInv, NEW t \in Removers, CloseAll(t)
  PROVE  IInv'
<1>0. Queue' = Queue
  BY DEF CloseAll, Queue, connVars
<1>1. (TypeOK /\ Locals)'
  <2>1. RoomTypes'
    BY DEF CloseAll, IInv, TypeOK, RoomTypes, NoClients, Goto, connVars,
       localVars, roomVars, serverVars
  <2>2. ConnTypes'
    BY DEF CloseAll, IInv, TypeOK, ConnTypes, Closed, Goto, connVars,
       localVars, roomVars, serverVars
  <2>3. ThreadTypes'
    BY DEF CloseAll, IInv, TypeOK, ThreadTypes, Threads, Removers,
       ReaderStages, HubStages, HttpStages, Goto, connVars, localVars,
       roomVars, serverVars
  <2>4. Locals'
    BY <1>0, NilAssumption DEF CloseAll, IInv, TypeOK, ThreadTypes, Threads,
       Locals, RoomStages, RemoveTail, PeerStages, IdStages, ReaderStages,
       HubStages, HttpStages, Removers, Goto, connVars, localVars, roomVars,
       serverVars
  <2>. QED
    BY <2>1, <2>2, <2>3, <2>4 DEF TypeOK
<1>2. (Registry /\ MemberKey /\ Placement)'
  <2>1. Registry'
    BY NilAssumption DEF CloseAll, IInv, TypeOK, Registry, Locals, Key,
       RoomTypes, ConnTypes, ThreadTypes, Threads, Removers, Goto, connVars,
       localVars, roomVars, serverVars, NoClients
  <2>2. MemberKey'
    BY NilAssumption DEF CloseAll, IInv, TypeOK, MemberKey, Registry,
       RoomTypes, ConnTypes, ThreadTypes, Threads, Removers, Goto, connVars,
       localVars, roomVars, serverVars, NoClients
  <2>3. Placement'
    BY <1>0, NilAssumption DEF CloseAll, IInv, TypeOK, Placement,
       ListedOnlyIn, Locals, Registry, MemberKey, RemoveTail, Key,
       RoomTypes, ConnTypes, ThreadTypes, Threads, Removers, Goto, connVars,
       localVars, roomVars, serverVars, NoClients
  <2>. QED
    BY <2>1, <2>2, <2>3
<1>. QED
  BY <1>1, <1>2 DEF IInv

(* removeClientFromRoom: delete(h.rooms, roomKey) and roomKey = "".        *)
LEMMA DelRoomStep ==
  ASSUME IInv, NEW t \in Removers, DelRoom(t)
  PROVE  IInv'
<1>0. Queue' = Queue
  BY DEF DelRoom, Queue, connVars
<1>1. (TypeOK /\ Locals)'
  <2>1. RoomTypes'
    BY DEF DelRoom, IInv, TypeOK, RoomTypes, EndRemove, Goto, connVars,
       linkVars, roomVars, serverVars
  <2>2. ConnTypes'
    BY DEF DelRoom, IInv, TypeOK, ConnTypes, Subject, EndRemove, Goto,
       connVars, linkVars, roomVars, serverVars
  <2>3. ThreadTypes'
    BY DEF DelRoom, IInv, TypeOK, ThreadTypes, Threads, Removers,
       ReaderStages, HubStages, HttpStages, AfterRemove, EndRemove, Goto,
       connVars, linkVars, roomVars, serverVars
  <2>4. Locals'
    <3>1. CASE t = "hub"
      BY <1>0, <3>1, NilAssumption DEF DelRoom, IInv, TypeOK, ThreadTypes, Threads,
         Locals, RoomStages, RemoveTail, PeerStages, IdStages, HubStages,
         Goto, EndRemove, AfterRemove, roomVars, connVars
    <3>2. CASE t \in Conns
      <4>1. t # "hub" /\ at[t] = "delRoom"
        BY <3>2, NilAssumption DEF DelRoom
      <4>2. req[t] \in Creds \cup {Nil}
        BY <3>2 DEF IInv, Locals
      <4>3. /\ at' = [at EXCEPT ![t] = IF req[t] = Nil THEN "read" ELSE "find"]
            /\ lroom' = [lroom EXCEPT ![t] = Nil]
            /\ lpeer' = [lpeer EXCEPT ![t] = Nil]
            /\ UNCHANGED <<req, cred, cid>>
        BY <4>1 DEF DelRoom, Goto, EndRemove, AfterRemove, roomVars, connVars
      <4>. QED
        BY <1>0, <3>2, <4>1, <4>2, <4>3, BackToReading
        DEF IInv, TypeOK, ThreadTypes, Threads
    <3>. QED
      BY <3>1, <3>2 DEF Removers
  <2>. QED
    BY <2>1, <2>2, <2>3, <2>4 DEF TypeOK
<1>2. (Registry /\ MemberKey /\ Placement)'
  <2>1. Registry'
    BY NilAssumption DEF DelRoom, IInv, TypeOK, Registry, Locals, Key,
       RoomTypes, ConnTypes, ThreadTypes, Threads, Removers, AfterRemove,
       EndRemove, Goto, Subject, connVars, roomVars, serverVars
  <2>2. MemberKey'
    BY NilAssumption DEF DelRoom, IInv, TypeOK, MemberKey, Registry,
       RoomTypes, ConnTypes, ThreadTypes, Threads, Removers, AfterRemove,
       EndRemove, Goto, Subject, connVars, roomVars, serverVars, Placement,
       ListedOnlyIn, RemoveTail, Locals
  <2>3. Placement'
    BY <1>0, NilAssumption DEF DelRoom, IInv, TypeOK, Placement,
       ListedOnlyIn, Locals, Registry, MemberKey, RemoveTail, Key,
       RoomTypes, ConnTypes, ThreadTypes, Threads, Removers, AfterRemove,
       EndRemove, Goto, Subject, connVars, roomVars, serverVars
  <2>. QED
    BY <2>1, <2>2, <2>3
<1>. QED
  BY <1>1, <1>2 DEF IInv

(* removeClientFromRoom: broadcastPeerList and roomKey = "".               *)
LEMMA RemoveBcastStep ==
  ASSUME IInv, NEW t \in Removers, RemoveBcast(t)
  PROVE  IInv'
<1>0. Queue' = Queue
  BY DEF RemoveBcast, Queue, connVars
<1>1. (TypeOK /\ Locals)'
  <2>1. RoomTypes'
    BY DEF RemoveBcast, IInv, TypeOK, RoomTypes, EndRemove, Goto, connVars,
       linkVars, roomVars, serverVars
  <2>2. ConnTypes'
    BY DEF RemoveBcast, IInv, TypeOK, ConnTypes, Subject, EndRemove, Goto,
       connVars, linkVars, roomVars, serverVars
  <2>3. ThreadTypes'
    BY DEF RemoveBcast, IInv, TypeOK, ThreadTypes, Threads, Removers,
       ReaderStages, HubStages, HttpStages, AfterRemove, EndRemove, Goto,
       connVars, linkVars, roomVars, serverVars
  <2>4. Locals'
    <3>1. CASE t = "hub"
      BY <1>0, <3>1, NilAssumption DEF RemoveBcast, IInv, TypeOK, ThreadTypes, Threads,
         Locals, RoomStages, RemoveTail, PeerStages, IdStages, HubStages,
         Goto, EndRemove, AfterRemove, roomVars, connVars
    <3>2. CASE t \in Conns
      <4>1. t # "hub" /\ at[t] = "removeBcast"
        BY <3>2, NilAssumption DEF RemoveBcast
      <4>2. req[t] \in Creds \cup {Nil}
        BY <3>2 DEF IInv, Locals
      <4>3. /\ at' = [at EXCEPT ![t] = IF req[t] = Nil THEN "read" ELSE "find"]
            /\ lroom' = [lroom EXCEPT ![t] = Nil]
            /\ lpeer' = [lpeer EXCEPT ![t] = Nil]
            /\ UNCHANGED <<req, cred, cid>>
        BY <4>1 DEF RemoveBcast, Goto, EndRemove, AfterRemove, roomVars, connVars
      <4>. QED
        BY <1>0, <3>2, <4>1, <4>2, <4>3, BackToReading
        DEF IInv, TypeOK, ThreadTypes, Threads
    <3>. QED
      BY <3>1, <3>2 DEF Removers
  <2>. QED
    BY <2>1, <2>2, <2>3, <2>4 DEF TypeOK
<1>2. (Registry /\ MemberKey /\ Placement)'
  <2>1. Registry'
    BY NilAssumption DEF RemoveBcast, IInv, TypeOK, Registry, Locals, Key,
       RoomTypes, ConnTypes, ThreadTypes, Threads, Removers, AfterRemove,
       EndRemove, Goto, Subject, connVars, roomVars, serverVars
  <2>2. MemberKey'
    BY NilAssumption DEF RemoveBcast, IInv, TypeOK, MemberKey, Registry,
       RoomTypes, ConnTypes, ThreadTypes, Threads, Removers, AfterRemove,
       EndRemove, Goto, Subject, connVars, roomVars, serverVars, Placement,
       ListedOnlyIn, RemoveTail, Locals
  <2>3. Placement'
    BY <1>0, NilAssumption DEF RemoveBcast, IInv, TypeOK, Placement,
       ListedOnlyIn, Locals, Registry, MemberKey, RemoveTail, Key,
       RoomTypes, ConnTypes, ThreadTypes, Threads, Removers, AfterRemove,
       EndRemove, Goto, Subject, connVars, roomVars, serverVars
  <2>. QED
    BY <2>1, <2>2, <2>3
<1>. QED
  BY <1>1, <1>2 DEF IInv

(* handleJoin up to the lookup of the room to leave.                       *)
LEMMA JoinMsgStep ==
  ASSUME IInv, NEW c \in Conns, NEW cr \in Creds, NEW nm \in Names \cup
     {Nil}, JoinMsg(c, cr, nm)
  PROVE  IInv'
<1>0. Queue' = Queue
  BY DEF JoinMsg, Queue
<1>1. (TypeOK /\ Locals)'
  <2>0. HasRoom(c) => /\ rooms[croom[c]] \in RoomObjs
                      /\ cred[rooms[croom[c]]] # Nil
    BY HasRoomFact
  <2>a. c # "hub" /\ at[c] = "read"
    BY NilAssumption DEF JoinMsg, Reading
  <2>1. RoomTypes'
    BY DEF JoinMsg, IInv, TypeOK, RoomTypes, BeginRemove, Goto, Renamed,
       linkVars, roomVars, serverVars
  <2>2. ConnTypes'
    BY DEF JoinMsg, IInv, TypeOK, ConnTypes, BeginRemove, Goto, Renamed,
       linkVars, roomVars, serverVars
  <2>3. ThreadTypes'
    BY <2>0 DEF JoinMsg, IInv, TypeOK, ThreadTypes, Threads, Removers,
       ReaderStages, HubStages, HttpStages, BeginRemove, Goto, Renamed,
       linkVars, roomVars, serverVars
  <2>4. Locals'
    <3>1. CASE HasRoom(c)
      BY <1>0, <2>0, <2>a, <3>1 DEF JoinMsg, IInv, TypeOK, BeginRemove, Goto,
         ThreadTypes, Threads, Locals, RoomStages, RemoveTail, PeerStages,
         IdStages, ReaderStages, roomVars, connVars
    <3>2. CASE ~HasRoom(c)
      BY <1>0, <2>a, <3>2 DEF JoinMsg, IInv, TypeOK, BeginRemove, Goto,
         ThreadTypes, Threads, Locals, RoomStages, RemoveTail, PeerStages,
         IdStages, ReaderStages, roomVars, connVars
    <3>. QED
      BY <3>1, <3>2
  <2>. QED
    BY <2>1, <2>2, <2>3, <2>4 DEF TypeOK
<1>2. (Registry /\ MemberKey /\ Placement)'
  <2>1. Registry'
    BY NilAssumption DEF JoinMsg, IInv, TypeOK, Registry, Locals, Key,
       RoomTypes, ConnTypes, ThreadTypes, Threads, Removers, BeginRemove,
       Goto, roomVars, serverVars
  <2>2. MemberKey'
    BY NilAssumption DEF JoinMsg, IInv, TypeOK, MemberKey, Registry,
       RoomTypes, ConnTypes, ThreadTypes, Threads, Removers, BeginRemove,
       Goto, roomVars, serverVars
  <2>3. Placement'
    <3>0. c # "hub" /\ c # Nil /\ at[c] = "read" /\ lpeer["hub"] # c
      BY NilAssumption DEF JoinMsg, Reading, IInv, Locals
    <3>1. UNCHANGED <<rooms, clients, croom, cred, lpeer>>
      BY DEF JoinMsg, roomVars
    <3>. USE DEF IInv, TypeOK, ThreadTypes, Threads
    <3>2. CASE HasRoom(c)
      <4>1. /\ at' = [at EXCEPT ![c] = "remove"]
            /\ lroom' = [lroom EXCEPT ![c] = rooms[croom[c]]]
        BY <3>2 DEF JoinMsg, BeginRemove, Goto
      <4>2. ListedOnlyIn(c, rooms[croom[c]])
        BY <3>0 DEF ListedOnlyIn, MemberKey
      <4>. QED
        BY <1>0, <3>0, <3>1, <4>1, <4>2
        DEF Placement, ListedOnlyIn, RemoveTail, Key
    <3>3. CASE ~HasRoom(c)
      <4>1. /\ at' = [at EXCEPT ![c] = "find"]
            /\ lroom' = lroom
        BY <3>3 DEF JoinMsg, BeginRemove, Goto
      <4>2. ListedOnlyIn(c, Nil)
        BY <3>0, <3>3, NilAssumption DEF ListedOnlyIn, MemberKey, HasRoom
      <4>. QED
        BY <1>0, <3>0, <3>1, <4>1, <4>2
        DEF Placement, ListedOnlyIn, RemoveTail, Key
    <3>. QED
      BY <3>2, <3>3
  <2>. QED
    BY <2>1, <2>2, <2>3
<1>. QED
  BY <1>1, <1>2 DEF IInv

(* handleJoin turned down before any room is looked at.                    *)
LEMMA JoinRefusedStep ==
  ASSUME IInv, NEW c \in Conns, NEW nm \in Names \cup {Nil}, JoinRefused(c,
     nm)
  PROVE  IInv'
<1>0. Queue' = Queue
  BY DEF JoinRefused, Queue
<1>1. (TypeOK /\ Locals)'
  BY <1>0, NilAssumption DEF JoinRefused, IInv, TypeOK, RoomTypes,
     ConnTypes, ThreadTypes, Locals, RoomStages, RemoveTail, PeerStages,
     IdStages, Threads, Removers, ReaderStages, HubStages, HttpStages,
     Renamed, linkVars, localVars, roomVars, serverVars
<1>2. (Registry /\ MemberKey /\ Placement)'
  BY <1>0, NilAssumption DEF JoinRefused, IInv, TypeOK, RoomTypes,
     ConnTypes, ThreadTypes, Locals, Registry, MemberKey, Placement,
     ListedOnlyIn, RemoveTail, Threads, Removers, Key, Reading, localVars,
     roomVars, serverVars
<1>. QED
  BY <1>1, <1>2 DEF IInv

(* handleLeave up to the lookup of the room to leave.                      *)
LEMMA LeaveMsgStep ==
  ASSUME IInv, NEW c \in Conns, LeaveMsg(c)
  PROVE  IInv'
<1>0. Queue' = Queue
  BY DEF LeaveMsg, Queue, connVars
<1>1. (TypeOK /\ Locals)'
  <2>0. HasRoom(c) => /\ rooms[croom[c]] \in RoomObjs
                      /\ cred[rooms[croom[c]]] # Nil
    BY HasRoomFact
  <2>a. c # "hub" /\ at[c] = "read"
    BY NilAssumption DEF LeaveMsg, Reading
  <2>1. RoomTypes'
    BY DEF LeaveMsg, IInv, TypeOK, RoomTypes, BeginRemove, Goto, connVars,
       linkVars, roomVars, serverVars
  <2>2. ConnTypes'
    BY DEF LeaveMsg, IInv, TypeOK, ConnTypes, BeginRemove, Goto, connVars,
       linkVars, roomVars, serverVars
  <2>3. ThreadTypes'
    BY <2>0 DEF LeaveMsg, IInv, TypeOK, ThreadTypes, Threads, Removers,
       ReaderStages, HubStages, HttpStages, BeginRemove, Goto, connVars,
       linkVars, roomVars, serverVars
  <2>4. Locals'
    <3>1. CASE HasRoom(c)
      BY <1>0, <2>0, <2>a, <3>1 DEF LeaveMsg, IInv, TypeOK, BeginRemove, Goto,
         ThreadTypes, Threads, Locals, RoomStages, RemoveTail, PeerStages,
         IdStages, ReaderStages, roomVars, connVars
    <3>2. CASE ~HasRoom(c)
      BY <1>0, <2>a, <3>2 DEF LeaveMsg, IInv, TypeOK, BeginRemove, Goto,
         ThreadTypes, Threads, Locals, RoomStages, RemoveTail, PeerStages,
         IdStages, ReaderStages, roomVars, connVars
    <3>. QED
      BY <3>1, <3>2
  <2>. QED
    BY <2>1, <2>2, <2>3, <2>4 DEF TypeOK
<1>2. (Registry /\ MemberKey /\ Placement)'
  <2>1. Registry'
    BY NilAssumption DEF LeaveMsg, IInv, TypeOK, Registry, Locals, Key,
       RoomTypes, ConnTypes, ThreadTypes, Threads, Removers, BeginRemove,
       Goto, connVars, roomVars, serverVars
  <2>2. MemberKey'
    BY NilAssumption DEF LeaveMsg, IInv, TypeOK, MemberKey, Registry,
       RoomTypes, ConnTypes, ThreadTypes, Threads, Removers, BeginRemove,
       Goto, connVars, roomVars, serverVars
  <2>3. Placement'
    <3>0. c # "hub" /\ c # Nil /\ at[c] = "read" /\ lpeer["hub"] # c
      BY NilAssumption DEF LeaveMsg, Reading, IInv, Locals
    <3>1. UNCHANGED <<rooms, clients, croom, cred, lpeer>>
      BY DEF LeaveMsg, roomVars
    <3>. USE DEF IInv, TypeOK, ThreadTypes, Threads
    <3>2. CASE HasRoom(c)
      <4>1. /\ at' = [at EXCEPT ![c] = "remove"]
            /\ lroom' = [lroom EXCEPT ![c] = rooms[croom[c]]]
        BY <3>2 DEF LeaveMsg, BeginRemove, Goto
      <4>2. ListedOnlyIn(c, rooms[croom[c]])
        BY <3>0 DEF ListedOnlyIn, MemberKey
      <4>. QED
        BY <1>0, <3>0, <3>1, <4>1, <4>2
        DEF Placement, ListedOnlyIn, RemoveTail, Key
    <3>3. CASE ~HasRoom(c)
      <4>1. /\ at' = [at EXCEPT ![c] = "read"]
            /\ lroom' = lroom
        BY <3>3 DEF LeaveMsg, BeginRemove, Goto
      <4>2. ListedOnlyIn(c, Nil)
        BY <3>0, <3>3, NilAssumption DEF ListedOnlyIn, MemberKey, HasRoom
      <4>. QED
        BY <1>0, <3>0, <3>1, <4>1, <4>2
        DEF Placement, ListedOnlyIn, RemoveTail, Key
    <3>. QED
      BY <3>2, <3>3
  <2>. QED
    BY <2>1, <2>2, <2>3
<1>. QED
  BY <1>1, <1>2 DEF IInv

(* status_update and stun_info look the sender's room up.                  *)
LEMMA RoomMsgStep ==
  ASSUME IInv, NEW c \in Conns, NEW kind \in {"bcast", "bcastOthers"},
     RoomMsg(c, kind)
  PROVE  IInv'
<1>0. Queue' = Queue
  BY DEF RoomMsg, Queue, connVars
<1>1. (TypeOK /\ Locals)'
  <2>0. HasRoom(c) => /\ rooms[croom[c]] \in RoomObjs
                      /\ cred[rooms[croom[c]]] # Nil
    BY HasRoomFact
  <2>a. c # "hub" /\ at[c] = "read"
    BY NilAssumption DEF RoomMsg, Reading
  <2>1. RoomTypes'
    BY DEF RoomMsg, IInv, TypeOK, RoomTypes, Goto, connVars, linkVars,
       roomVars, serverVars
  <2>2. ConnTypes'
    BY DEF RoomMsg, IInv, TypeOK, ConnTypes, Goto, connVars, linkVars,
       roomVars, serverVars
  <2>3. ThreadTypes'
    BY <2>0 DEF RoomMsg, IInv, TypeOK, ThreadTypes, Threads, Removers,
       ReaderStages, HubStages, HttpStages, Goto, connVars, linkVars,
       roomVars, serverVars
  <2>4. Locals'
    BY <1>0, <2>0, <2>a DEF RoomMsg, IInv, TypeOK, ThreadTypes, Threads,
       Locals, RoomStages, RemoveTail, PeerStages, IdStages, ReaderStages,
       HubStages, HttpStages, Goto, connVars, linkVars, roomVars, serverVars
  <2>. QED
    BY <2>1, <2>2, <2>3, <2>4 DEF TypeOK
<1>2. (Registry /\ MemberKey /\ Placement)'
  BY <1>0, NilAssumption DEF RoomMsg, IInv, TypeOK, RoomTypes, ConnTypes,
     ThreadTypes, Locals, Registry, MemberKey, Placement, ListedOnlyIn,
     RemoveTail, Threads, Removers, Key, Goto, HasRoom, Reading, connVars,
     roomVars, serverVars
<1>. QED
  BY <1>1, <1>2 DEF IInv

(* relayData finds sender and target.                                      *)
LEMMA RelayMsgStep ==
  ASSUME IInv, NEW c \in Conns, NEW i \in IDs, NEW bulk \in BOOLEAN,
     RelayMsg(c, i, bulk)
  PROVE  IInv'
<1>0. Queue' = Queue
  BY DEF RelayMsg, Queue, connVars
<1>1. (TypeOK /\ Locals)'
  <2>0. PICK p \in FindClient(i) : lpeer' = [lpeer EXCEPT ![c] = p]
    BY DEF RelayMsg
  <2>a. p \in Conns
    BY FindClientFact
  <2>b. c # "hub" /\ at[c] = "read"
    BY NilAssumption DEF RelayMsg, Reading
  <2>1. RoomTypes'
    BY DEF RelayMsg, IInv, TypeOK, RoomTypes, Goto, connVars, linkVars,
       roomVars, serverVars
  <2>2. ConnTypes'
    BY DEF RelayMsg, IInv, TypeOK, ConnTypes, Goto, connVars, linkVars,
       roomVars, serverVars
  <2>3. ThreadTypes'
    BY <2>0, <2>a DEF RelayMsg, IInv, TypeOK, ThreadTypes, Threads,
       Removers, ReaderStages, HubStages, HttpStages, Goto, connVars,
       linkVars, roomVars, serverVars
  <2>4. Locals'
    BY <1>0, <2>0, <2>a, <2>b DEF RelayMsg, IInv, TypeOK, ThreadTypes,
       Threads, Locals, RoomStages, RemoveTail, PeerStages, IdStages,
       ReaderStages, HubStages, HttpStages, Goto, connVars, linkVars,
       roomVars, serverVars
  <2>. QED
    BY <2>1, <2>2, <2>3, <2>4 DEF TypeOK
<1>2. (Registry /\ MemberKey /\ Placement)'
  BY <1>0, NilAssumption DEF RelayMsg, IInv, TypeOK, RoomTypes, ConnTypes,
     ThreadTypes, Locals, Registry, MemberKey, Placement, ListedOnlyIn,
     RemoveTail, Threads, Removers, Key, Goto, Reading, connVars, roomVars,
     serverVars
<1>. QED
  BY <1>1, <1>2 DEF IInv

(* forwardToTarget finds the target.                                       *)
LEMMA ForwardMsgStep ==
  ASSUME IInv, NEW c \in Conns, NEW i \in IDs, ForwardMsg(c, i)
  PROVE  IInv'
<1>0. Queue' = Queue
  BY DEF ForwardMsg, Queue, connVars
<1>1. (TypeOK /\ Locals)'
  <2>0. PICK p \in FindClient(i) : lpeer' = [lpeer EXCEPT ![c] = p]
    BY DEF ForwardMsg
  <2>a. p \in Conns
    BY FindClientFact
  <2>b. c # "hub" /\ at[c] = "read"
    BY NilAssumption DEF ForwardMsg, Reading
  <2>1. RoomTypes'
    BY DEF ForwardMsg, IInv, TypeOK, RoomTypes, Goto, connVars, linkVars,
       roomVars, serverVars
  <2>2. ConnTypes'
    BY DEF ForwardMsg, IInv, TypeOK, ConnTypes, Goto, connVars, linkVars,
       roomVars, serverVars
  <2>3. ThreadTypes'
    BY <2>0, <2>a DEF ForwardMsg, IInv, TypeOK, ThreadTypes, Threads,
       Removers, ReaderStages, HubStages, HttpStages, Goto, connVars,
       linkVars, roomVars, serverVars
  <2>4. Locals'
    BY <1>0, <2>0, <2>a, <2>b DEF ForwardMsg, IInv, TypeOK, ThreadTypes,
       Threads, Locals, RoomStages, RemoveTail, PeerStages, IdStages,
       ReaderStages, HubStages, HttpStages, Goto, connVars, linkVars,
       roomVars, serverVars
  <2>. QED
    BY <2>1, <2>2, <2>3, <2>4 DEF TypeOK
<1>2. (Registry /\ MemberKey /\ Placement)'
  BY <1>0, NilAssumption DEF ForwardMsg, IInv, TypeOK, RoomTypes, ConnTypes,
     ThreadTypes, Locals, Registry, MemberKey, Placement, ListedOnlyIn,
     RemoveTail, Threads, Removers, Key, Goto, Reading, connVars, roomVars,
     serverVars
<1>. QED
  BY <1>1, <1>2 DEF IInv

(* handleJoin: findRoomByName finds the room.                              *)
LEMMA JoinFindStep ==
  ASSUME IInv, NEW c \in Conns, JoinFind(c)
  PROVE  IInv'
<1>0. Queue' = Queue
  BY DEF JoinFind, Queue, connVars
<1>1. (TypeOK /\ Locals)'
  <2>0. PICK r \in InHub : lroom' = [lroom EXCEPT ![c] = r]
    BY DEF JoinFind, Match
  <2>a. r \in RoomObjs /\ cred[r] # Nil
    BY InHubFact
  <2>b. c # "hub" /\ at[c] = "find"
    BY NilAssumption DEF JoinFind
  <2>1. RoomTypes'
    BY DEF JoinFind, IInv, TypeOK, RoomTypes, Goto, connVars, linkVars,
       roomVars, serverVars
  <2>2. ConnTypes'
    BY DEF JoinFind, IInv, TypeOK, ConnTypes, Goto, connVars, linkVars,
       roomVars, serverVars
  <2>3. ThreadTypes'
    BY <2>0, <2>a DEF JoinFind, IInv, TypeOK, ThreadTypes, Threads,
       Removers, ReaderStages, HubStages, HttpStages, Goto, connVars,
       linkVars, roomVars, serverVars
  <2>4. Locals'
    BY <1>0, <2>0, <2>a, <2>b DEF JoinFind, IInv, TypeOK, ThreadTypes,
       Threads, Locals, RoomStages, RemoveTail, PeerStages, IdStages,
       ReaderStages, HubStages, HttpStages, Goto, connVars, linkVars,
       roomVars, serverVars
  <2>. QED
    BY <2>1, <2>2, <2>3, <2>4 DEF TypeOK
<1>2. (Registry /\ MemberKey /\ Placement)'
  BY <1>0, NilAssumption DEF JoinFind, IInv, TypeOK, RoomTypes, ConnTypes,
     ThreadTypes, Locals, Registry, MemberKey, Placement, ListedOnlyIn,
     RemoveTail, Threads, Removers, Key, Goto, connVars, roomVars,
     serverVars
<1>. QED
  BY <1>1, <1>2 DEF IInv

(* handleJoin: there is no room of that name.                              *)
LEMMA JoinNotFoundStep ==
  ASSUME IInv, NEW c \in Conns, JoinNotFound(c)
  PROVE  IInv'
<1>0. Queue' = Queue
  BY DEF JoinNotFound, Queue, connVars
<1>1. (TypeOK /\ Locals)'
  BY <1>0, NilAssumption DEF JoinNotFound, IInv, TypeOK, RoomTypes,
     ConnTypes, ThreadTypes, Locals, RoomStages, RemoveTail, PeerStages,
     IdStages, Threads, Removers, ReaderStages, HubStages, HttpStages, Goto,
     connVars, linkVars, localVars, roomVars, serverVars
<1>2. (Registry /\ MemberKey /\ Placement)'
  BY <1>0, NilAssumption DEF JoinNotFound, IInv, TypeOK, RoomTypes,
     ConnTypes, ThreadTypes, Locals, Registry, MemberKey, Placement,
     ListedOnlyIn, RemoveTail, Threads, Removers, Key, Goto, connVars,
     localVars, roomVars, serverVars
<1>. QED
  BY <1>1, <1>2 DEF IInv

(* handleJoin: getOrCreateRoom meets a room created meanwhile.             *)
LEMMA JoinCreatedStep ==
  ASSUME IInv, NEW c \in Conns, JoinCreated(c)
  PROVE  IInv'
<1>0. Queue' = Queue
  BY DEF JoinCreated, Queue, connVars
<1>1. (TypeOK /\ Locals)'
  <2>. DEFINE k == roomKey(req[c][1], req[c][2])
  <2>0. k \in Keys /\ rooms[k] # Nil
    BY KeyType DEF JoinCreated, IInv, Locals, Threads
  <2>. HIDE DEF k
  <2>a. rooms[k] \in RoomObjs /\ cred[rooms[k]] # Nil
    BY <2>0 DEF IInv, TypeOK, RoomTypes, Registry
  <2>b. c # "hub" /\ at[c] = "create"
    BY NilAssumption DEF JoinCreated
  <2>c. lroom' = [lroom EXCEPT ![c] = rooms[k]]
    BY DEF JoinCreated, k
  <2>1. RoomTypes'
    BY DEF JoinCreated, IInv, TypeOK, RoomTypes, Goto, connVars, linkVars,
       roomVars, serverVars
  <2>2. ConnTypes'
    BY DEF JoinCreated, IInv, TypeOK, ConnTypes, Goto, connVars, linkVars,
       roomVars, serverVars
  <2>3. ThreadTypes'
    BY <2>a, <2>c DEF JoinCreated, IInv, TypeOK, ThreadTypes, Threads,
       Removers, ReaderStages, HubStages, HttpStages, Goto, connVars,
       linkVars, roomVars, serverVars
  <2>4. Locals'
    BY <1>0, <2>a, <2>b, <2>c DEF JoinCreated, IInv, TypeOK, ThreadTypes,
       Threads, Locals, RoomStages, RemoveTail, PeerStages, IdStages,
       ReaderStages, HubStages, HttpStages, Goto, connVars, linkVars,
       roomVars, serverVars
  <2>. QED
    BY <2>1, <2>2, <2>3, <2>4 DEF TypeOK
<1>2. (Registry /\ MemberKey /\ Placement)'
  BY <1>0, NilAssumption DEF JoinCreated, IInv, TypeOK, RoomTypes,
     ConnTypes, ThreadTypes, Locals, Registry, MemberKey, Placement,
     ListedOnlyIn, RemoveTail, Threads, Removers, Key, Goto, connVars,
     roomVars, serverVars
<1>. QED
  BY <1>1, <1>2 DEF IInv

(* handleJoin ends with an error to the client.                            *)
LEMMA JoinRejectStep ==
  ASSUME IInv, NEW c \in Conns, JoinReject(c)
  PROVE  IInv'
<1>0. Queue' = Queue
  BY DEF JoinReject, Queue, connVars
<1>1. (TypeOK /\ Locals)'
  <2>0. c # "hub" /\ at[c] \in {"find", "check"}
    BY NilAssumption DEF JoinReject, Refused
  <2>1. RoomTypes'
    BY DEF JoinReject, IInv, TypeOK, RoomTypes, Goto, Return, connVars,
       linkVars, roomVars, serverVars
  <2>2. ConnTypes'
    BY DEF JoinReject, IInv, TypeOK, ConnTypes, Goto, Return, connVars,
       linkVars, roomVars, serverVars
  <2>3. ThreadTypes'
    BY DEF JoinReject, IInv, TypeOK, ThreadTypes, Threads, Removers,
       ReaderStages, HubStages, HttpStages, Goto, Return, connVars,
       linkVars, roomVars, serverVars
  <2>4. Locals'
    BY <1>0, <2>0, BackToReading
    DEF JoinReject, Return, Goto, IInv, TypeOK, ThreadTypes, Threads,
        roomVars, connVars
  <2>. QED
    BY <2>1, <2>2, <2>3, <2>4 DEF TypeOK
<1>2. (Registry /\ MemberKey /\ Placement)'
  BY <1>0, NilAssumption DEF JoinReject, IInv, TypeOK, RoomTypes, ConnTypes,
     ThreadTypes, Locals, Registry, MemberKey, Placement, ListedOnlyIn,
     RemoveTail, Threads, Removers, Key, Goto, Return, connVars, roomVars,
     serverVars
<1>. QED
  BY <1>1, <1>2 DEF IInv

(* hub.run receives a connection without a room.                           *)
LEMMA HubRecvNoRoomStep ==
  ASSUME IInv, NEW c \in Conns, HubRecvNoRoom(c)
  PROVE  IInv'
<1>1. (TypeOK /\ Locals)'
  <2>0. unreg \in Seq(Conns) /\ Len(unreg) \in Nat /\ ChanCap \in Nat
    BY NilAssumption DEF IInv, TypeOK, ConnTypes
  <2>a. /\ unreg # <<>> /\ unreg' = Tail(unreg) /\ c = Head(unreg)
        /\ at["hub"] = "idle"
    BY DEF HubRecvNoRoom, Received
  <2>b. /\ Queue' \subseteq Queue /\ unreg' \in Seq(Conns)
        /\ Len(unreg') < Len(unreg) /\ c \in Queue
    BY <2>0, <2>a, QueueTail
  <2>c. c # "hub" /\ c # Nil /\ at[c] \in {"exited", "done"}
    BY <2>b, NilAssumption DEF IInv, Locals
  <2>1. RoomTypes'
    BY DEF HubRecvNoRoom, IInv, TypeOK, RoomTypes, Received, linkVars,
       localVars, roomVars, serverVars
  <2>2. ConnTypes'
    BY <2>0, <2>b DEF HubRecvNoRoom, IInv, TypeOK, ConnTypes, Received,
       linkVars, localVars, roomVars, serverVars
  <2>3. ThreadTypes'
    BY DEF HubRecvNoRoom, IInv, TypeOK, ThreadTypes, Threads, Removers,
       ReaderStages, HubStages, HttpStages, Received, linkVars, localVars,
       roomVars, serverVars
  <2>4. Locals'
    BY <2>a, <2>b DEF HubRecvNoRoom, IInv, TypeOK, ThreadTypes, Threads,
       Locals, RoomStages, RemoveTail, PeerStages, IdStages, ReaderStages,
       HubStages, HttpStages, Received, linkVars, localVars, roomVars,
       serverVars
  <2>. QED
    BY <2>1, <2>2, <2>3, <2>4 DEF TypeOK
<1>2. (Registry /\ MemberKey /\ Placement)'
  <2>0. unreg \in Seq(Conns)
    BY DEF IInv, TypeOK, ConnTypes
  <2>1. Registry'
    BY NilAssumption DEF HubRecvNoRoom, IInv, TypeOK, Registry, Locals, Key,
       RoomTypes, ConnTypes, ThreadTypes, Threads, Removers, Received,
       localVars, roomVars, serverVars
  <2>2. MemberKey'
    BY NilAssumption DEF HubRecvNoRoom, IInv, TypeOK, MemberKey, Registry,
       RoomTypes, ConnTypes, ThreadTypes, Threads, Removers, Received,
       localVars, roomVars, serverVars
  <2>3. Placement'
    <3>0. /\ unreg # <<>> /\ unreg' = Tail(unreg) /\ c = Head(unreg)
          /\ at["hub"] = "idle" /\ lpeer["hub"] = Nil
      BY DEF HubRecvNoRoom, Received, IInv, Locals
    <3>1. Queue \subseteq Queue' \cup {c} /\ c \in Queue
      BY <2>0, <3>0, QueueTail
    <3>2. UNCHANGED <<rooms, clients, croom, cred, at, lroom, lpeer>>
      BY DEF HubRecvNoRoom, roomVars, localVars
    <3>3. ListedOnlyIn(c, Nil)
      BY NilAssumption
      DEF HubRecvNoRoom, IInv, ListedOnlyIn, MemberKey, HasRoom
    <3>. QED
      BY <3>0, <3>1, <3>2, <3>3 DEF IInv, Placement, ListedOnlyIn, Key
  <2>. QED
    BY <2>1, <2>2, <2>3
<1>. QED
  BY <1>1, <1>2 DEF IInv

(* An unrecovered panic ends the process.                                  *)
LEMMA CrashStep ==
  ASSUME IInv, NEW t \in Removers, Crash(t)
  PROVE  IInv'
<1>0. Queue' = Queue
  BY DEF Crash, Queue, connVars
<1>1. (TypeOK /\ Locals)'
  BY <1>0, NilAssumption DEF Crash, IInv, TypeOK, RoomTypes, ConnTypes,
     ThreadTypes, Locals, RoomStages, RemoveTail, PeerStages, IdStages,
     Threads, Removers, ReaderStages, HubStages, HttpStages, connVars,
     linkVars, localVars, roomVars
<1>2. (Registry /\ MemberKey /\ Placement)'
  BY <1>0, NilAssumption DEF Crash, IInv, TypeOK, RoomTypes, ConnTypes,
     ThreadTypes, Locals, Registry, MemberKey, Placement, ListedOnlyIn,
     RemoveTail, Threads, Removers, Key, connVars, localVars, roomVars
<1>. QED
  BY <1>1, <1>2 DEF IInv

(* disconnectExisting passes a room without the ID.                        *)
LEMMA WsSkipStep ==
  ASSUME IInv, NEW t \in Https, NEW r \in RoomObjs, WsSkip(t, r)
  PROVE  IInv'
<1>0. Queue' = Queue
  BY DEF WsSkip, Queue, connVars
<1>1. (TypeOK /\ Locals)'
  BY <1>0, NilAssumption DEF WsSkip, IInv, TypeOK, RoomTypes, ConnTypes,
     ThreadTypes, Locals, RoomStages, RemoveTail, PeerStages, IdStages,
     Threads, Removers, ReaderStages, HubStages, HttpStages, Existing,
     connVars, linkVars, roomVars, serverVars
<1>2. (Registry /\ MemberKey /\ Placement)'
  BY <1>0, NilAssumption DEF WsSkip, IInv, TypeOK, RoomTypes, ConnTypes,
     ThreadTypes, Locals, Registry, MemberKey, Placement, ListedOnlyIn,
     RemoveTail, Threads, Removers, Key, Existing, connVars, roomVars,
     serverVars
<1>. QED
  BY <1>1, <1>2 DEF IInv

(* disconnectExisting closes a closed channel.                             *)
LEMMA WsPanicStep ==
  ASSUME IInv, NEW t \in Https, NEW r \in RoomObjs, WsPanic(t, r)
  PROVE  IInv'
<1>0. Queue' = Queue
  BY DEF WsPanic, Queue, connVars
<1>1. (TypeOK /\ Locals)'
  BY <1>0, NilAssumption DEF WsPanic, IInv, TypeOK, RoomTypes, ConnTypes,
     ThreadTypes, Locals, RoomStages, RemoveTail, PeerStages, IdStages,
     Threads, Removers, ReaderStages, HubStages, HttpStages, Existing, Goto,
     Return, connVars, linkVars, roomVars
<1>2. (Registry /\ MemberKey /\ Placement)'
  BY <1>0, NilAssumption DEF WsPanic, IInv, TypeOK, RoomTypes, ConnTypes,
     ThreadTypes, Locals, Registry, MemberKey, Placement, ListedOnlyIn,
     RemoveTail, Threads, Removers, Key, Existing, Goto, Return, connVars,
     roomVars
<1>. QED
  BY <1>1, <1>2 DEF IInv

(* banClient: the ID is not in the room.                                   *)
LEMMA BanAbsentStep ==
  ASSUME IInv, NEW t \in Https, BanAbsent(t)
  PROVE  IInv'
<1>0. Queue' = Queue
  BY DEF BanAbsent, Queue, connVars
<1>1. (TypeOK /\ Locals)'
  BY <1>0, NilAssumption DEF BanAbsent, IInv, TypeOK, RoomTypes, ConnTypes,
     ThreadTypes, Locals, RoomStages, RemoveTail, PeerStages, IdStages,
     Threads, Removers, ReaderStages, HubStages, HttpStages, Goto, Return,
     connVars, linkVars, serverVars
<1>2. (Registry /\ MemberKey /\ Placement)'
  BY <1>0, NilAssumption DEF BanAbsent, IInv, TypeOK, RoomTypes, ConnTypes,
     ThreadTypes, Locals, Registry, MemberKey, Placement, ListedOnlyIn,
     RemoveTail, Threads, Removers, Key, Goto, Return, connVars, serverVars
<1>. QED
  BY <1>1, <1>2 DEF IInv

(* kickClient: nobody to kick, or a recovered panic.                       *)
LEMMA KickEndStep ==
  ASSUME IInv, NEW t \in Https, KickEnd(t)
  PROVE  IInv'
<1>0. Queue' = Queue
  BY DEF KickEnd, Queue, connVars
<1>1. (TypeOK /\ Locals)'
  BY <1>0, NilAssumption DEF KickEnd, IInv, TypeOK, RoomTypes, ConnTypes,
     ThreadTypes, Locals, RoomStages, RemoveTail, PeerStages, IdStages,
     Threads, Removers, ReaderStages, HubStages, HttpStages, Goto, Return,
     connVars, linkVars, roomVars, serverVars
<1>2. (Registry /\ MemberKey /\ Placement)'
  BY <1>0, NilAssumption DEF KickEnd, IInv, TypeOK, RoomTypes, ConnTypes,
     ThreadTypes, Locals, Registry, MemberKey, Placement, ListedOnlyIn,
     RemoveTail, Threads, Removers, Key, Goto, Return, connVars, roomVars,
     serverVars
<1>. QED
  BY <1>1, <1>2 DEF IInv

(* deleteRoom closes a closed channel.                                     *)
LEMMA DeletePanicStep ==
  ASSUME IInv, NEW t \in Https, NEW r \in RoomObjs, DeletePanic(t, r)
  PROVE  IInv'
<1>0. Queue' = Queue
  BY DEF DeletePanic, Queue, connVars
<1>1. (TypeOK /\ Locals)'
  BY <1>0, NilAssumption DEF DeletePanic, IInv, TypeOK, RoomTypes,
     ConnTypes, ThreadTypes, Locals, RoomStages, RemoveTail, PeerStages,
     IdStages, Threads, Removers, ReaderStages, HubStages, HttpStages, Goto,
     Return, connVars, linkVars, roomVars
<1>2. (Registry /\ MemberKey /\ Placement)'
  BY <1>0, NilAssumption DEF DeletePanic, IInv, TypeOK, RoomTypes,
     ConnTypes, ThreadTypes, Locals, Registry, MemberKey, Placement,
     ListedOnlyIn, RemoveTail, Threads, Removers, Key, Goto, Return,
     connVars, roomVars
<1>. QED
  BY <1>1, <1>2 DEF IInv

(* handleJoin: getOrCreateRoom allocates the room.                         *)
LEMMA JoinCreateStep ==
  ASSUME IInv, NEW c \in Conns, JoinCreate(c)
  PROVE  IInv'
<1>0. Queue' = Queue
  BY DEF JoinCreate, Queue, connVars
<1>1. (TypeOK /\ Locals)'
  <2>0. PICK r \in RoomObjs : /\ NewRoom(r, req[c], cid[c])
                              /\ lroom' = [lroom EXCEPT ![c] = r]
    BY DEF JoinCreate
  <2>a. c # "hub" /\ at[c] = "create" /\ req[c] \in Creds
    BY NilAssumption DEF JoinCreate, IInv, Locals, Threads
  <2>b. cid[c] \in IDs \cup {Nil}
    BY DEF IInv, TypeOK, ConnTypes
  <2>c. cred' = [cred EXCEPT ![r] = req[c]]
    BY <2>0 DEF NewRoom
  <2>d. req[c] # Nil
    BY <2>a, NilAssumption
  <2>1. RoomTypes'
    BY <2>0, <2>a, <2>b, NewRoomType DEF JoinCreate, IInv, TypeOK, serverVars
  <2>2. ConnTypes'
    BY DEF JoinCreate, IInv, TypeOK, ConnTypes, FreshRoom, Goto, NewRoom,
       connVars, linkVars, serverVars
  <2>3. ThreadTypes'
    BY <2>0 DEF JoinCreate, IInv, TypeOK, ThreadTypes, Threads, Removers,
       ReaderStages, HubStages, HttpStages, FreshRoom, Goto, NewRoom,
       connVars, linkVars, serverVars
  <2>4. Locals'
    BY <1>0, <2>0, <2>a, <2>c, <2>d DEF JoinCreate, IInv, TypeOK, RoomTypes,
       ThreadTypes, Threads, Locals, RoomStages, RemoveTail, PeerStages,
       IdStages, ReaderStages, Goto, connVars
  <2>. QED
    BY <2>1, <2>2, <2>3, <2>4 DEF TypeOK
<1>2. (Registry /\ MemberKey /\ Placement)'
  <2>1. Registry'
    <3>0. PICK r \in RoomObjs : NewRoom(r, req[c], cid[c])
      BY DEF JoinCreate
    <3>1. req[c] \in Creds /\ req[c] # Nil
      BY NilAssumption DEF JoinCreate, IInv, Locals, Threads
    <3>2. /\ rooms' = [rooms EXCEPT ![roomKey(req[c][1], req[c][2])] = r]
          /\ cred' = [cred EXCEPT ![r] = req[c]]
          /\ UNCHANGED clients /\ cred[r] = Nil
      BY <3>0 DEF NewRoom, FreshRoom
    <3>3. ASSUME NEW k \in Keys, (rooms[k] # Nil)'
          PROVE  (cred[rooms[k]] # Nil /\ Key(rooms[k]) = k)'
      BY <3>1, <3>2, <3>3 DEF IInv, TypeOK, RoomTypes, Registry, Key
    <3>4. ASSUME NEW s \in RoomObjs, NEW i \in IDs, clients'[s][i] # Nil
          PROVE  /\ cred'[s] # Nil
                 /\ at'[clients'[s][i]] # "new"
                 /\ cid'[clients'[s][i]] = i
      BY <3>1, <3>2, <3>4 DEF JoinCreate, Goto, IInv, TypeOK, RoomTypes,
         ThreadTypes, Threads, Registry, connVars
    <3>. QED
      BY <3>3, <3>4 DEF Registry
  <2>2. MemberKey'
    BY NilAssumption DEF JoinCreate, IInv, TypeOK, MemberKey, Registry,
       RoomTypes, ConnTypes, ThreadTypes, Threads, Removers, FreshRoom,
       Goto, NewRoom, connVars, serverVars
  <2>3. Placement'
    BY <1>0, NilAssumption DEF JoinCreate, IInv, TypeOK, Placement,
       ListedOnlyIn, Locals, Registry, MemberKey, RemoveTail, Key,
       RoomTypes, ConnTypes, ThreadTypes, Threads, Removers, FreshRoom,
       Goto, NewRoom, connVars, serverVars
  <2>. QED
    BY <2>1, <2>2, <2>3
<1>. QED
  BY <1>1, <1>2 DEF IInv

(* handleJoin: neither banned nor locked out; roomKey is set.              *)
LEMMA JoinCheckStep ==
  ASSUME IInv, NEW c \in Conns, JoinCheck(c)
  PROVE  IInv'
<1>0. Queue' = Queue
  BY DEF JoinCheck, Queue, connVars
<1>1. (TypeOK /\ Locals)'
  <2>0. lroom[c] \in RoomObjs /\ cred[lroom[c]] # Nil
    BY DEF IInv, Locals, Threads, RoomStages, JoinCheck
  <2>a. Key(lroom[c]) \in Keys
    BY <2>0, KeyType DEF IInv, TypeOK, RoomTypes, Key
  <2>1. RoomTypes'
    BY DEF JoinCheck, IInv, TypeOK, RoomTypes, Goto, connVars, linkVars,
       localVars, roomVars, serverVars
  <2>2. ConnTypes'
    BY <2>a DEF JoinCheck, IInv, TypeOK, ConnTypes, Goto, connVars,
       linkVars, localVars, roomVars, serverVars
  <2>3. ThreadTypes'
    BY DEF JoinCheck, IInv, TypeOK, ThreadTypes, Threads, Removers,
       ReaderStages, HubStages, HttpStages, Goto, connVars, linkVars,
       localVars, roomVars, serverVars
  <2>4. Locals'
    BY <1>0, NilAssumption DEF JoinCheck, IInv, TypeOK, ThreadTypes,
       Threads, Locals, RoomStages, RemoveTail, PeerStages, IdStages,
       ReaderStages, HubStages, HttpStages, Goto, connVars, linkVars,
       localVars, roomVars, serverVars
  <2>. QED
    BY <2>1, <2>2, <2>3, <2>4 DEF TypeOK
<1>2. (Registry /\ MemberKey /\ Placement)'
  <2>1. Registry'
    BY NilAssumption DEF JoinCheck, IInv, TypeOK, Registry, Locals, Key,
       RoomTypes, ConnTypes, ThreadTypes, Threads, Removers, Goto, connVars,
       localVars, roomVars, serverVars
  <2>2. MemberKey'
    BY NilAssumption DEF JoinCheck, IInv, TypeOK, MemberKey, Registry,
       RoomTypes, ConnTypes, ThreadTypes, Threads, Removers, Goto, connVars,
       localVars, roomVars, serverVars, Placement, ListedOnlyIn, RemoveTail,
       Locals
  <2>3. Placement'
    BY <1>0, NilAssumption DEF JoinCheck, IInv, TypeOK, Placement,
       ListedOnlyIn, Locals, Registry, MemberKey, RemoveTail, Key,
       RoomTypes, ConnTypes, ThreadTypes, Threads, Removers, Goto, connVars,
       localVars, roomVars, serverVars
  <2>. QED
    BY <2>1, <2>2, <2>3
<1>. QED
  BY <1>1, <1>2 DEF IInv

(* handleJoin: the client enters room.Clients under room.mu.               *)
LEMMA JoinInsertStep ==
  ASSUME IInv, NEW c \in Conns, JoinInsert(c)
  PROVE  IInv'
<1>0. Queue' = Queue
  BY DEF JoinInsert, Queue, connVars
<1>1. (TypeOK /\ Locals)'
  <2>1. RoomTypes'
    BY DEF JoinInsert, IInv, TypeOK, RoomTypes, Goto, connVars, localVars,
       roomVars, serverVars
  <2>2. ConnTypes'
    <3>0. MaxClosers \in Nat
      BY NilAssumption
    <3>1. closers' \in [Conns -> 0 .. MaxClosers]
      <4>1. PICK old : /\ \A o \in old : closers[o] < MaxClosers
                       /\ closers' = [o \in Conns |-> IF o \in old
                                                     THEN closers[o] + 1
                                                     ELSE closers[o]]
        BY DEF JoinInsert
      <4>2. \A o \in Conns : closers[o] \in 0 .. MaxClosers
        BY DEF IInv, TypeOK, ConnTypes
      <4>. QED
        BY <3>0, <4>1, <4>2
    <3>2. UNCHANGED <<up, globalOff, activeConns, cid, cname, croom, send, sock,
                      unreg, reg>>
      BY DEF JoinInsert, connVars, serverVars
    <3>. QED
      BY <3>1, <3>2 DEF IInv, TypeOK, ConnTypes
  <2>3. ThreadTypes'
    BY DEF JoinInsert, IInv, TypeOK, ThreadTypes, Threads, Removers,
       ReaderStages, HubStages, HttpStages, Goto, connVars, localVars,
       roomVars, serverVars
  <2>4. Locals'
    BY <1>0, NilAssumption DEF JoinInsert, IInv, TypeOK, ThreadTypes,
       Threads, Locals, RoomStages, RemoveTail, PeerStages, IdStages,
       ReaderStages, HubStages, HttpStages, Goto, connVars, localVars,
       roomVars, serverVars
  <2>. QED
    BY <2>1, <2>2, <2>3, <2>4 DEF TypeOK
<1>2. (Registry /\ MemberKey /\ Placement)'
  <2>1. Registry'
    BY NilAssumption DEF JoinInsert, IInv, TypeOK, Registry, Locals, Key,
       RoomTypes, ConnTypes, ThreadTypes, Threads, Removers, Goto, connVars,
       localVars, roomVars, serverVars
  <2>2. MemberKey'
    <3>. DEFINE r == lroom[c]
    <3>1. /\ r \in RoomObjs /\ cred[r] # Nil
          /\ cid[c] \in IDs /\ croom[c] = Key(r) /\ c # Nil
      BY NilAssumption
      DEF JoinInsert, IInv, Locals, Placement, Threads, RoomStages
    <3>2. /\ UNCHANGED <<rooms, cid, croom>>
          /\ \A s \in RoomObjs \ {r} : clients'[s] = clients[s]
          /\ \A i \in IDs : clients'[r][i] \in {c, Nil, clients[r][i]}
          /\ \A i \in IDs : clients'[r][i] = c =>
               i = cid[c] \/ clients[r][i] = c
      BY <3>1 DEF JoinInsert, IInv, TypeOK, RoomTypes, connVars
    <3>. HIDE DEF r
    <3>. QED
      BY <3>1, <3>2 DEF MemberKey, IInv, TypeOK, RoomTypes, Registry
  <2>3. Placement'
    BY <1>0, NilAssumption DEF JoinInsert, IInv, TypeOK, Placement,
       ListedOnlyIn, Locals, Registry, MemberKey, RemoveTail, Key,
       RoomTypes, ConnTypes, ThreadTypes, Threads, Removers, Goto, connVars,
       localVars, roomVars, serverVars
  <2>. QED
    BY <2>1, <2>2, <2>3
<1>. QED
  BY <1>1, <1>2 DEF IInv

(* handleJoin: the peer list and room_config are sent.                     *)
LEMMA JoinBcastStep ==
  ASSUME IInv, NEW c \in Conns, JoinBcast(c)
  PROVE  IInv'
<1>0. Queue' = Queue
  BY DEF JoinBcast, Queue, connVars
<1>1. (TypeOK /\ Locals)'
  BY <1>0, NilAssumption DEF JoinBcast, IInv, TypeOK, RoomTypes, ConnTypes,
     ThreadTypes, Locals, RoomStages, RemoveTail, PeerStages, IdStages,
     Threads, Removers, ReaderStages, HubStages, HttpStages, Goto, Return,
     connVars, linkVars, roomVars, serverVars
<1>2. (Registry /\ MemberKey /\ Placement)'
  BY <1>0, NilAssumption DEF JoinBcast, IInv, TypeOK, RoomTypes, ConnTypes,
     ThreadTypes, Locals, Registry, MemberKey, Placement, ListedOnlyIn,
     RemoveTail, Threads, Removers, Key, Goto, Return, connVars, roomVars,
     serverVars
<1>. QED
  BY <1>1, <1>2 DEF IInv

(* status_update and stun_info are broadcast.                              *)
LEMMA RoomSendStep ==
  ASSUME IInv, NEW c \in Conns, RoomSend(c)
  PROVE  IInv'
<1>0. Queue' = Queue
  BY DEF RoomSend, Queue, connVars
<1>1. (TypeOK /\ Locals)'
  BY <1>0, NilAssumption DEF RoomSend, IInv, TypeOK, RoomTypes, ConnTypes,
     ThreadTypes, Locals, RoomStages, RemoveTail, PeerStages, IdStages,
     Threads, Removers, ReaderStages, HubStages, HttpStages, Goto, Return,
     connVars, linkVars, roomVars, serverVars
<1>2. (Registry /\ MemberKey /\ Placement)'
  BY <1>0, NilAssumption DEF RoomSend, IInv, TypeOK, RoomTypes, ConnTypes,
     ThreadTypes, Locals, Registry, MemberKey, Placement, ListedOnlyIn,
     RemoveTail, Threads, Removers, Key, Goto, Return, connVars, roomVars,
     serverVars
<1>. QED
  BY <1>1, <1>2 DEF IInv

(* relayData and forwardToTarget send to the target.                       *)
LEMMA RelaySendStep ==
  ASSUME IInv, NEW c \in Conns, RelaySend(c)
  PROVE  IInv'
<1>0. Queue' = Queue
  BY DEF RelaySend, Queue, connVars
<1>1. (TypeOK /\ Locals)'
  BY <1>0, NilAssumption DEF RelaySend, IInv, TypeOK, RoomTypes, ConnTypes,
     ThreadTypes, Locals, RoomStages, RemoveTail, PeerStages, IdStages,
     Threads, Removers, ReaderStages, HubStages, HttpStages, Goto, Return,
     connVars, linkVars, roomVars, serverVars
<1>2. (Registry /\ MemberKey /\ Placement)'
  BY <1>0, NilAssumption DEF RelaySend, IInv, TypeOK, RoomTypes, ConnTypes,
     ThreadTypes, Locals, Registry, MemberKey, Placement, ListedOnlyIn,
     RemoveTail, Threads, Removers, Key, Goto, Return, connVars, roomVars,
     serverVars
<1>. QED
  BY <1>1, <1>2 DEF IInv

(* The client's socket goes away.                                          *)
LEMMA NetDropStep ==
  ASSUME IInv, NEW c \in Conns, NetDrop(c)
  PROVE  IInv'
<1>0. Queue' = Queue
  BY DEF NetDrop, Queue, connVars
<1>1. (TypeOK /\ Locals)'
  BY <1>0, NilAssumption DEF NetDrop, IInv, TypeOK, RoomTypes, ConnTypes,
     ThreadTypes, Locals, RoomStages, RemoveTail, PeerStages, IdStages,
     Threads, Removers, ReaderStages, HubStages, HttpStages, connVars,
     localVars, roomVars, serverVars
<1>2. (Registry /\ MemberKey /\ Placement)'
  BY <1>0, NilAssumption DEF NetDrop, IInv, TypeOK, RoomTypes, ConnTypes,
     ThreadTypes, Locals, Registry, MemberKey, Placement, ListedOnlyIn,
     RemoveTail, Threads, Removers, Key, Reading, connVars, localVars,
     roomVars, serverVars
<1>. QED
  BY <1>1, <1>2 DEF IInv

(* writePump closes the socket.                                            *)
LEMMA WriterExitStep ==
  ASSUME IInv, NEW c \in Conns, WriterExit(c)
  PROVE  IInv'
<1>0. Queue' = Queue
  BY DEF WriterExit, Queue, connVars
<1>1. (TypeOK /\ Locals)'
  BY <1>0, NilAssumption DEF WriterExit, IInv, TypeOK, RoomTypes, ConnTypes,
     ThreadTypes, Locals, RoomStages, RemoveTail, PeerStages, IdStages,
     Threads, Removers, ReaderStages, HubStages, HttpStages, connVars,
     localVars, roomVars, serverVars
<1>2. (Registry /\ MemberKey /\ Placement)'
  BY <1>0, NilAssumption DEF WriterExit, IInv, TypeOK, RoomTypes, ConnTypes,
     ThreadTypes, Locals, Registry, MemberKey, Placement, ListedOnlyIn,
     RemoveTail, Threads, Removers, Key, Reading, connVars, localVars,
     roomVars, serverVars
<1>. QED
  BY <1>1, <1>2 DEF IInv

(* readPump ends: hub.unregister <- c.                                     *)
LEMMA ReaderExitStep ==
  ASSUME IInv, NEW c \in Conns, ReaderExit(c)
  PROVE  IInv'
<1>1. (TypeOK /\ Locals)'
  <2>0. unreg \in Seq(Conns) /\ Len(unreg) \in Nat /\ ChanCap \in Nat
    BY NilAssumption DEF IInv, TypeOK, ConnTypes
  <2>a. /\ Queue' = Queue \cup {c} /\ unreg' \in Seq(Conns)
        /\ Len(unreg') = Len(unreg) + 1
    BY <2>0, QueueAppend DEF ReaderExit
  <2>b. c # "hub" /\ at[c] = "read"
    BY NilAssumption DEF ReaderExit
  <2>1. RoomTypes'
    BY DEF ReaderExit, IInv, TypeOK, RoomTypes, Goto, linkVars, localVars,
       roomVars, serverVars
  <2>2. ConnTypes'
    BY <2>0, <2>a DEF ReaderExit, IInv, TypeOK, ConnTypes, Goto, linkVars,
       localVars, roomVars, serverVars
  <2>3. ThreadTypes'
    BY DEF ReaderExit, IInv, TypeOK, ThreadTypes, Threads, Removers,
       ReaderStages, HubStages, HttpStages, Goto, linkVars, localVars,
       roomVars, serverVars
  <2>4. Locals'
    BY <2>a, <2>b DEF ReaderExit, IInv, TypeOK, ThreadTypes, Threads,
       Locals, RoomStages, RemoveTail, PeerStages, IdStages, ReaderStages,
       HubStages, HttpStages, Goto, linkVars, localVars, roomVars,
       serverVars
  <2>. QED
    BY <2>1, <2>2, <2>3, <2>4 DEF TypeOK
<1>2. (Registry /\ MemberKey /\ Placement)'
  <2>0. unreg \in Seq(Conns)
    BY DEF IInv, TypeOK, ConnTypes
  <2>1. Registry'
    BY NilAssumption DEF ReaderExit, IInv, TypeOK, Registry, Locals, Key,
       RoomTypes, ConnTypes, ThreadTypes, Threads, Removers, Goto,
       localVars, roomVars, serverVars
  <2>2. MemberKey'
    BY NilAssumption DEF ReaderExit, IInv, TypeOK, MemberKey, Registry,
       RoomTypes, ConnTypes, ThreadTypes, Threads, Removers, Goto,
       localVars, roomVars, serverVars
  <2>3. Placement'
    <3>1. Queue' = Queue \cup {c} /\ unreg' \in Seq(Conns)
      BY <2>0, QueueAppend DEF ReaderExit
    <3>. QED
      BY <3>1, NilAssumption DEF ReaderExit, IInv, TypeOK, Placement,
         ListedOnlyIn, Locals, RemoveTail, Key, ThreadTypes, Threads, Goto,
         roomVars, localVars
  <2>. QED
    BY <2>1, <2>2, <2>3
<1>. QED
  BY <1>1, <1>2 DEF IInv

(* hub.run receives a connection and looks its room up.                    *)
LEMMA HubRecvStep ==
  ASSUME IInv, NEW c \in Conns, HubRecv(c)
  PROVE  IInv'
<1>1. (TypeOK /\ Locals)'
  <2>0. unreg \in Seq(Conns) /\ Len(unreg) \in Nat /\ ChanCap \in Nat
    BY NilAssumption DEF IInv, TypeOK, ConnTypes
  <2>a. /\ unreg # <<>> /\ unreg' = Tail(unreg) /\ c = Head(unreg)
        /\ at["hub"] = "idle"
    BY DEF HubRecv, Received
  <2>b. /\ Queue' \subseteq Queue /\ unreg' \in Seq(Conns)
        /\ Len(unreg') < Len(unreg) /\ c \in Queue
    BY <2>0, <2>a, QueueTail
  <2>c. c # "hub" /\ c # Nil /\ at[c] \in {"exited", "done"}
    BY <2>b, NilAssumption DEF IInv, Locals
  <2>d. rooms[croom[c]] \in RoomObjs /\ cred[rooms[croom[c]]] # Nil
    BY HasRoomFact DEF HubRecv
  <2>1. RoomTypes'
    BY DEF HubRecv, IInv, TypeOK, RoomTypes, Goto, Received, linkVars,
       roomVars, serverVars
  <2>2. ConnTypes'
    BY <2>0, <2>b DEF HubRecv, IInv, TypeOK, ConnTypes, Goto, Received,
       linkVars, roomVars, serverVars
  <2>3. ThreadTypes'
    BY <2>d DEF HubRecv, IInv, TypeOK, ThreadTypes, Threads, Removers,
       ReaderStages, HubStages, HttpStages, Goto, Received, linkVars,
       roomVars, serverVars
  <2>4. Locals'
    BY <2>a, <2>b, <2>c, <2>d DEF HubRecv, IInv, TypeOK, ThreadTypes,
       Threads, Locals, RoomStages, RemoveTail, PeerStages, IdStages,
       ReaderStages, HubStages, HttpStages, Goto, Received, linkVars,
       roomVars, serverVars
  <2>. QED
    BY <2>1, <2>2, <2>3, <2>4 DEF TypeOK
<1>2. (Registry /\ MemberKey /\ Placement)'
  <2>0. unreg \in Seq(Conns)
    BY DEF IInv, TypeOK, ConnTypes
  <2>1. Registry'
    BY NilAssumption DEF HubRecv, IInv, TypeOK, Registry, Locals, Key,
       RoomTypes, ConnTypes, ThreadTypes, Threads, Removers, Goto, Received,
       roomVars, serverVars
  <2>2. MemberKey'
    BY NilAssumption DEF HubRecv, IInv, TypeOK, MemberKey, Registry,
       RoomTypes, ConnTypes, ThreadTypes, Threads, Removers, Goto, Received,
       roomVars, serverVars
  <2>3. Placement'
    <3>0. /\ unreg # <<>> /\ unreg' = Tail(unreg) /\ c = Head(unreg)
          /\ at["hub"] = "idle" /\ lpeer["hub"] = Nil
      BY DEF HubRecv, Received, IInv, Locals
    <3>1. Queue \subseteq Queue' \cup {c} /\ c \in Queue
      BY <2>0, <3>0, QueueTail
    <3>2. /\ UNCHANGED <<rooms, clients, croom, cred>>
          /\ at' = [at EXCEPT !["hub"] = "remove"]
          /\ lroom' = [lroom EXCEPT !["hub"] = rooms[croom[c]]]
          /\ lpeer' = [lpeer EXCEPT !["hub"] = c]
      BY DEF HubRecv, Goto, roomVars
    <3>3. ListedOnlyIn(c, rooms[croom[c]])
      BY NilAssumption DEF IInv, ListedOnlyIn, MemberKey
    <3>4. /\ \A d \in Conns : at'[d] = at[d] /\ lroom'[d] = lroom[d]
          /\ at'["hub"] = "remove" /\ lpeer'["hub"] = c
          /\ lroom'["hub"] = rooms[croom[c]]
      BY <3>2, NilAssumption DEF IInv, TypeOK, ThreadTypes, Threads
    <3>5. \A d \in Conns : \A r : ListedOnlyIn(d, r) => ListedOnlyIn(d, r)'
      BY <3>2 DEF ListedOnlyIn
    <3>6. ListedOnlyIn(lpeer["hub"], lroom["hub"])'
      BY <3>2, <3>3, <3>4 DEF ListedOnlyIn
    <3>. QED
      BY <3>0, <3>1, <3>2, <3>4, <3>5, <3>6, NilAssumption
      DEF IInv, Placement, RemoveTail, Key
  <2>. QED
    BY <2>1, <2>2, <2>3
<1>. QED
  BY <1>1, <1>2 DEF IInv

(* hub.run receives a new connection.                                      *)
LEMMA HubRegisteredStep ==
  ASSUME IInv, HubRegistered
  PROVE  IInv'
<1>0. Queue' = Queue
  BY DEF HubRegistered, Queue
<1>1. (TypeOK /\ Locals)'
  BY <1>0, NilAssumption DEF HubRegistered, IInv, TypeOK, RoomTypes,
     ConnTypes, ThreadTypes, Locals, RoomStages, RemoveTail, PeerStages,
     IdStages, Threads, Removers, ReaderStages, HubStages, HttpStages,
     linkVars, localVars, roomVars, serverVars
<1>2. (Registry /\ MemberKey /\ Placement)'
  BY <1>0, NilAssumption DEF HubRegistered, IInv, TypeOK, RoomTypes,
     ConnTypes, ThreadTypes, Locals, Registry, MemberKey, Placement,
     ListedOnlyIn, RemoveTail, Threads, Removers, Key, localVars, roomVars,
     serverVars
<1>. QED
  BY <1>1, <1>2 DEF IInv

(* activeConns is decremented.                                             *)
LEMMA ConnDoneStep ==
  ASSUME IInv, NEW c \in Conns, ConnDone(c)
  PROVE  IInv'
<1>0. Queue' = Queue
  BY DEF ConnDone, Queue, connVars
<1>1. (TypeOK /\ Locals)'
  BY <1>0, NilAssumption DEF ConnDone, IInv, TypeOK, RoomTypes, ConnTypes,
     ThreadTypes, Locals, RoomStages, RemoveTail, PeerStages, IdStages,
     Threads, Removers, ReaderStages, HubStages, HttpStages, Goto, connVars,
     linkVars, localVars, roomVars
<1>2. (Registry /\ MemberKey /\ Placement)'
  BY <1>0, NilAssumption DEF ConnDone, IInv, TypeOK, RoomTypes, ConnTypes,
     ThreadTypes, Locals, Registry, MemberKey, Placement, ListedOnlyIn,
     RemoveTail, Threads, Removers, Key, Goto, connVars, localVars, roomVars
<1>. QED
  BY <1>1, <1>2 DEF IInv

(* The goroutine that closes a same-name connection runs.                  *)
LEMMA CloseStaleStep ==
  ASSUME IInv, NEW c \in Conns, CloseStale(c)
  PROVE  IInv'
<1>0. Queue' = Queue
  BY DEF CloseStale, Queue, connVars
<1>1. (TypeOK /\ Locals)'
  BY <1>0, NilAssumption DEF CloseStale, IInv, TypeOK, RoomTypes, ConnTypes,
     ThreadTypes, Locals, RoomStages, RemoveTail, PeerStages, IdStages,
     Threads, Removers, ReaderStages, HubStages, HttpStages, connVars,
     localVars, roomVars, serverVars
<1>2. (Registry /\ MemberKey /\ Placement)'
  BY <1>0, NilAssumption DEF CloseStale, IInv, TypeOK, RoomTypes, ConnTypes,
     ThreadTypes, Locals, Registry, MemberKey, Placement, ListedOnlyIn,
     RemoveTail, Threads, Removers, Key, connVars, localVars, roomVars,
     serverVars
<1>. QED
  BY <1>1, <1>2 DEF IInv

(* serveWs: the limit is tested.                                           *)
LEMMA WsCheckStep ==
  ASSUME IInv, NEW t \in Https, WsCheck(t)
  PROVE  IInv'
<1>0. Queue' = Queue
  BY DEF WsCheck, Queue, connVars
<1>1. (TypeOK /\ Locals)'
  BY <1>0, NilAssumption DEF WsCheck, IInv, TypeOK, RoomTypes, ConnTypes,
     ThreadTypes, Locals, RoomStages, RemoveTail, PeerStages, IdStages,
     Threads, Removers, ReaderStages, HubStages, HttpStages, FreshConn,
     Goto, connVars, linkVars, localVars, roomVars, serverVars
<1>2. (Registry /\ MemberKey /\ Placement)'
  BY <1>0, NilAssumption DEF WsCheck, IInv, TypeOK, RoomTypes, ConnTypes,
     ThreadTypes, Locals, Registry, MemberKey, Placement, ListedOnlyIn,
     RemoveTail, Threads, Removers, Key, FreshConn, Goto, connVars,
     localVars, roomVars, serverVars
<1>. QED
  BY <1>1, <1>2 DEF IInv

(* serveWs: the upgrade fails.                                             *)
LEMMA WsUpgradeFailStep ==
  ASSUME IInv, NEW t \in Https, WsUpgradeFail(t)
  PROVE  IInv'
<1>0. Queue' = Queue
  BY DEF WsUpgradeFail, Queue, connVars
<1>1. (TypeOK /\ Locals)'
  BY <1>0, NilAssumption DEF WsUpgradeFail, IInv, TypeOK, RoomTypes,
     ConnTypes, ThreadTypes, Locals, RoomStages, RemoveTail, PeerStages,
     IdStages, Threads, Removers, ReaderStages, HubStages, HttpStages, Goto,
     connVars, linkVars, localVars, roomVars, serverVars
<1>2. (Registry /\ MemberKey /\ Placement)'
  BY <1>0, NilAssumption DEF WsUpgradeFail, IInv, TypeOK, RoomTypes,
     ConnTypes, ThreadTypes, Locals, Registry, MemberKey, Placement,
     ListedOnlyIn, RemoveTail, Threads, Removers, Key, Goto, connVars,
     localVars, roomVars, serverVars
<1>. QED
  BY <1>1, <1>2 DEF IInv

(* serveWs: upgraded and counted.                                          *)
LEMMA WsUpgradeStep ==
  ASSUME IInv, NEW t \in Https, NEW i \in IDs, WsUpgrade(t, i)
  PROVE  IInv'
<1>0. Queue' = Queue
  BY DEF WsUpgrade, Queue, connVars
<1>1. (TypeOK /\ Locals)'
  <2>1. RoomTypes'
    BY DEF WsUpgrade, IInv, TypeOK, RoomTypes, Goto, connVars, linkVars,
       roomVars
  <2>2. ConnTypes'
    BY DEF WsUpgrade, IInv, TypeOK, ConnTypes, Goto, connVars, linkVars,
       roomVars
  <2>3. ThreadTypes'
    BY InHubFact DEF WsUpgrade, IInv, TypeOK, ThreadTypes, Threads,
       Removers, ReaderStages, HubStages, HttpStages, Goto, connVars,
       linkVars, roomVars
  <2>4. Locals'
    BY <1>0, NilAssumption DEF WsUpgrade, IInv, TypeOK, ThreadTypes,
       Threads, Locals, RoomStages, RemoveTail, PeerStages, IdStages,
       ReaderStages, HubStages, HttpStages, Goto, connVars, linkVars,
       roomVars
  <2>. QED
    BY <2>1, <2>2, <2>3, <2>4 DEF TypeOK
<1>2. (Registry /\ MemberKey /\ Placement)'
  BY <1>0, NilAssumption DEF WsUpgrade, IInv, TypeOK, RoomTypes, ConnTypes,
     ThreadTypes, Locals, Registry, MemberKey, Placement, ListedOnlyIn,
     RemoveTail, Threads, Removers, Key, Goto, connVars, roomVars
<1>. QED
  BY <1>1, <1>2 DEF IInv

(* disconnectExisting closes and deletes the old connection.               *)
LEMMA WsDisconnectStep ==
  ASSUME IInv, NEW t \in Https, NEW r \in RoomObjs, WsDisconnect(t, r)
  PROVE  IInv'
<1>0. Queue' = Queue
  BY DEF WsDisconnect, Queue, connVars
<1>1. (TypeOK /\ Locals)'
  BY <1>0, NilAssumption DEF WsDisconnect, IInv, TypeOK, RoomTypes,
     ConnTypes, ThreadTypes, Locals, RoomStages, RemoveTail, PeerStages,
     IdStages, Threads, Removers, ReaderStages, HubStages, HttpStages,
     Existing, connVars, roomVars, serverVars
<1>2. (Registry /\ MemberKey /\ Placement)'
  BY <1>0, NilAssumption DEF WsDisconnect, IInv, TypeOK, RoomTypes,
     ConnTypes, ThreadTypes, Locals, Registry, MemberKey, Placement,
     ListedOnlyIn, RemoveTail, Threads, Removers, Key, Existing, connVars,
     roomVars, serverVars
<1>. QED
  BY <1>1, <1>2 DEF IInv

(* serveWs: the new connection is registered.                              *)
LEMMA WsRegisterStep ==
  ASSUME IInv, NEW t \in Https, NEW c \in Conns, WsRegister(t, c)
  PROVE  IInv'
<1>0. Queue' = Queue
  BY DEF WsRegister, Queue
<1>1. (TypeOK /\ Locals)'
  <2>0. req[t] \in IDs
    BY DEF IInv, Locals, Threads, IdStages, WsRegister
  <2>a. t \notin Conns /\ t # "hub" /\ c # "hub"
    BY NilAssumption DEF WsRegister
  <2>b. lpeer["hub"] # c /\ c \notin Queue
    BY NilAssumption DEF IInv, Locals, WsRegister, FreshConn
  <2>1. RoomTypes'
    BY DEF WsRegister, IInv, TypeOK, RoomTypes, FreshConn, roomVars,
       serverVars
  <2>2. ConnTypes'
    BY <2>0, NilAssumption DEF WsRegister, IInv, TypeOK, ConnTypes,
       FreshConn, roomVars, serverVars
  <2>3. ThreadTypes'
    BY DEF WsRegister, IInv, TypeOK, ThreadTypes, Threads, Removers,
       ReaderStages, HubStages, HttpStages, FreshConn, roomVars, serverVars
  <2>4. Locals'
    <3>. USE DEF IInv, TypeOK, ThreadTypes, ConnTypes, Threads, Locals,
                 WsRegister, roomVars
    <3>1. ASSUME NEW u \in Threads
          PROVE  /\ at'[u] \in RoomStages => lroom'[u] \in RoomObjs
                 /\ at'[u] \in PeerStages => lpeer'[u] \in Conns
                 /\ at'[u] \in {"find", "create"} => req'[u] \in Creds
                 /\ at'[u] \in IdStages => req'[u] \in IDs
                 /\ lroom'[u] \in RoomObjs => cred'[lroom'[u]] # Nil
      BY <2>a, <3>1 DEF RoomStages, RemoveTail, PeerStages, IdStages
    <3>2. ASSUME NEW d \in Conns
          PROVE  /\ at'[d] # "new" => cid'[d] \in IDs
                 /\ at'[d] \in ReaderStages
                 /\ req'[d] \in Creds \cup {Nil}
      BY <2>0, <2>a, <3>2 DEF ReaderStages
    <3>3. at'["hub"] = at["hub"] /\ lpeer' = lpeer
      BY <2>a
    <3>4. lpeer["hub"] # Nil => at'[lpeer["hub"]] = at[lpeer["hub"]]
      BY <2>a, <2>b, NilAssumption
    <3>5. \A d \in Conns : d \in Queue => at'[d] = at[d]
      BY <2>a, <2>b
    <3>. QED
      BY <1>0, <3>1, <3>2, <3>3, <3>4, <3>5
  <2>. QED
    BY <2>1, <2>2, <2>3, <2>4 DEF TypeOK
<1>2. (Registry /\ MemberKey /\ Placement)'
  <2>1. Registry'
    BY NilAssumption DEF WsRegister, IInv, TypeOK, Registry, Locals, Key,
       RoomTypes, ConnTypes, ThreadTypes, Threads, Removers, FreshConn,
       roomVars, serverVars
  <2>2. MemberKey'
    BY NilAssumption DEF WsRegister, IInv, TypeOK, MemberKey, Registry,
       RoomTypes, ConnTypes, ThreadTypes, Threads, Removers, FreshConn,
       roomVars, serverVars
  <2>3. Placement'
    <3>1. /\ t \notin Conns /\ t # "hub" /\ c # "hub" /\ at[c] = "new"
          /\ lpeer' = lpeer /\ lroom' = lroom /\ "hub" \in Threads
          /\ UNCHANGED <<rooms, clients, croom, cred>>
          /\ at' = [at EXCEPT ![t] = "idle", ![c] = "read"]
      BY NilAssumption DEF WsRegister, FreshConn, Threads, roomVars
    <3>2. /\ \A d \in Conns \ {c} : at'[d] = at[d]
          /\ at'[c] = "read" /\ at'["hub"] = at["hub"]
      BY <3>1 DEF IInv, TypeOK, ThreadTypes, Threads
    <3>3. \A d \in Conns \cup {lpeer["hub"]} : \A r :
            ListedOnlyIn(d, r) => ListedOnlyIn(d, r)'
      BY <3>1 DEF ListedOnlyIn
    <3>4. ASSUME NEW d \in Conns \ {c}
          PROVE  (/\ at[d] \in RemoveTail \cup {"find", "create", "check", "insert"}
                       => ListedOnlyIn(d, Nil)
                  /\ at[d] = "remove" => ListedOnlyIn(d, lroom[d])
                  /\ at[d] = "insert" => croom[d] = Key(lroom[d])
                  /\ at[d] \in {"exited", "done"} /\ d \notin Queue
                       /\ lpeer["hub"] # d => ListedOnlyIn(d, Nil))'
      BY <1>0, <3>1, <3>2, <3>3 DEF IInv, Placement, RemoveTail, Key
    <3>5. at'[c] \notin RemoveTail \cup {"find", "create", "check", "insert",
                                         "remove", "exited", "done"}
      BY <3>2 DEF RemoveTail
    <3>6. (/\ at["hub"] = "remove" => ListedOnlyIn(lpeer["hub"], lroom["hub"])
           /\ at["hub"] \in RemoveTail => ListedOnlyIn(lpeer["hub"], Nil))'
      BY <3>1, <3>2 DEF IInv, Placement, ListedOnlyIn, RemoveTail
    <3>. QED
      BY <3>4, <3>5, <3>6 DEF Placement
  <2>. QED
    BY <2>1, <2>2, <2>3
<1>. QED
  BY <1>1, <1>2 DEF IInv

(* banClient, kickClient and unbanClient find the room by name.            *)
LEMMA AdminFindStep ==
  ASSUME IInv, NEW t \in Https, NEW op \in {"ban", "kick", "unban"}, NEW n
     \in RoomNames, NEW i \in IDs, AdminFind(t, op, n, i)
  PROVE  IInv'
<1>0. Queue' = Queue
  BY DEF AdminFind, Queue, connVars
<1>1. (TypeOK /\ Locals)'
  <2>0. PICK r \in InHub : lroom' = [lroom EXCEPT ![t] = r]
    BY DEF AdminFind, Named
  <2>a. r \in RoomObjs /\ cred[r] # Nil
    BY InHubFact
  <2>b. t \notin Conns /\ t # "hub" /\ at[t] = "idle"
    BY NilAssumption DEF AdminFind
  <2>1. RoomTypes'
    BY DEF AdminFind, IInv, TypeOK, RoomTypes, Goto, connVars, linkVars,
       roomVars, serverVars
  <2>2. ConnTypes'
    BY DEF AdminFind, IInv, TypeOK, ConnTypes, Goto, connVars, linkVars,
       roomVars, serverVars
  <2>3. ThreadTypes'
    BY <2>0, <2>a DEF AdminFind, IInv, TypeOK, ThreadTypes, Threads,
       Removers, ReaderStages, HubStages, HttpStages, Goto, connVars,
       linkVars, roomVars, serverVars
  <2>4. Locals'
    BY <1>0, <2>0, <2>a, <2>b DEF AdminFind, IInv, TypeOK, ThreadTypes,
       Threads, Locals, RoomStages, RemoveTail, PeerStages, IdStages,
       ReaderStages, HubStages, HttpStages, Goto, connVars, linkVars,
       roomVars, serverVars
  <2>. QED
    BY <2>1, <2>2, <2>3, <2>4 DEF TypeOK
<1>2. (Registry /\ MemberKey /\ Placement)'
  BY <1>0, NilAssumption DEF AdminFind, IInv, TypeOK, RoomTypes, ConnTypes,
     ThreadTypes, Locals, Registry, MemberKey, Placement, ListedOnlyIn,
     RemoveTail, Threads, Removers, Key, Goto, connVars, roomVars,
     serverVars
<1>. QED
  BY <1>1, <1>2 DEF IInv

(* banClient: blacklisted under room.mu, member found.                     *)
LEMMA BanLockStep ==
  ASSUME IInv, NEW t \in Https, BanLock(t)
  PROVE  IInv'
<1>0. Queue' = Queue
  BY DEF BanLock, Queue, connVars
<1>1. (TypeOK /\ Locals)'
  BY <1>0, NilAssumption DEF BanLock, IInv, TypeOK, RoomTypes, ConnTypes,
     ThreadTypes, Locals, RoomStages, RemoveTail, PeerStages, IdStages,
     Threads, Removers, ReaderStages, HubStages, HttpStages, Goto, connVars,
     linkVars, serverVars
<1>2. (Registry /\ MemberKey /\ Placement)'
  BY <1>0, NilAssumption DEF BanLock, IInv, TypeOK, RoomTypes, ConnTypes,
     ThreadTypes, Locals, Registry, MemberKey, Placement, ListedOnlyIn,
     RemoveTail, Threads, Removers, Key, Goto, connVars, serverVars
<1>. QED
  BY <1>1, <1>2 DEF IInv

(* banClient: the member's channel is closed.                              *)
LEMMA BanCloseStep ==
  ASSUME IInv, NEW t \in Https, BanClose(t)
  PROVE  IInv'
<1>0. Queue' = Queue
  BY DEF BanClose, Queue, connVars
<1>1. (TypeOK /\ Locals)'
  BY <1>0, NilAssumption DEF BanClose, IInv, TypeOK, RoomTypes, ConnTypes,
     ThreadTypes, Locals, RoomStages, RemoveTail, PeerStages, IdStages,
     Threads, Removers, ReaderStages, HubStages, HttpStages, Goto, Return,
     connVars, roomVars, serverVars
<1>2. (Registry /\ MemberKey /\ Placement)'
  BY <1>0, NilAssumption DEF BanClose, IInv, TypeOK, RoomTypes, ConnTypes,
     ThreadTypes, Locals, Registry, MemberKey, Placement, ListedOnlyIn,
     RemoveTail, Threads, Removers, Key, Goto, Return, connVars, roomVars,
     serverVars
<1>. QED
  BY <1>1, <1>2 DEF IInv

(* kickClient: deleted under room.mu.                                      *)
LEMMA KickLockStep ==
  ASSUME IInv, NEW t \in Https, KickLock(t)
  PROVE  IInv'
<1>0. Queue' = Queue
  BY DEF KickLock, Queue, connVars
<1>1. (TypeOK /\ Locals)'
  BY <1>0, NilAssumption DEF KickLock, IInv, TypeOK, RoomTypes, ConnTypes,
     ThreadTypes, Locals, RoomStages, RemoveTail, PeerStages, IdStages,
     Threads, Removers, ReaderStages, HubStages, HttpStages, Goto, connVars,
     linkVars, roomVars, serverVars
<1>2. (Registry /\ MemberKey /\ Placement)'
  BY <1>0, NilAssumption DEF KickLock, IInv, TypeOK, RoomTypes, ConnTypes,
     ThreadTypes, Locals, Registry, MemberKey, Placement, ListedOnlyIn,
     RemoveTail, Threads, Removers, Key, Goto, connVars, roomVars,
     serverVars
<1>. QED
  BY <1>1, <1>2 DEF IInv

(* kickClient: the channel is closed.                                      *)
LEMMA KickCloseStep ==
  ASSUME IInv, NEW t \in Https, KickClose(t)
  PROVE  IInv'
<1>0. Queue' = Queue
  BY DEF KickClose, Queue, connVars
<1>1. (TypeOK /\ Locals)'
  BY <1>0, NilAssumption DEF KickClose, IInv, TypeOK, RoomTypes, ConnTypes,
     ThreadTypes, Locals, RoomStages, RemoveTail, PeerStages, IdStages,
     Threads, Removers, ReaderStages, HubStages, HttpStages, Goto, connVars,
     localVars, roomVars, serverVars
<1>2. (Registry /\ MemberKey /\ Placement)'
  BY <1>0, NilAssumption DEF KickClose, IInv, TypeOK, RoomTypes, ConnTypes,
     ThreadTypes, Locals, Registry, MemberKey, Placement, ListedOnlyIn,
     RemoveTail, Threads, Removers, Key, Goto, connVars, localVars,
     roomVars, serverVars
<1>. QED
  BY <1>1, <1>2 DEF IInv

(* kickClient: the socket is closed and the peer list sent.                *)
LEMMA KickBcastStep ==
  ASSUME IInv, NEW t \in Https, KickBcast(t)
  PROVE  IInv'
<1>0. Queue' = Queue
  BY DEF KickBcast, Queue, connVars
<1>1. (TypeOK /\ Locals)'
  BY <1>0, NilAssumption DEF KickBcast, IInv, TypeOK, RoomTypes, ConnTypes,
     ThreadTypes, Locals, RoomStages, RemoveTail, PeerStages, IdStages,
     Threads, Removers, ReaderStages, HubStages, HttpStages, Goto, Return,
     connVars, roomVars, serverVars
<1>2. (Registry /\ MemberKey /\ Placement)'
  BY <1>0, NilAssumption DEF KickBcast, IInv, TypeOK, RoomTypes, ConnTypes,
     ThreadTypes, Locals, Registry, MemberKey, Placement, ListedOnlyIn,
     RemoveTail, Threads, Removers, Key, Goto, Return, connVars, roomVars,
     serverVars
<1>. QED
  BY <1>1, <1>2 DEF IInv

(* unbanClient: delete(Blacklist, id) under room.mu.                       *)
LEMMA UnbanLockStep ==
  ASSUME IInv, NEW t \in Https, UnbanLock(t)
  PROVE  IInv'
<1>0. Queue' = Queue
  BY DEF UnbanLock, Queue, connVars
<1>1. (TypeOK /\ Locals)'
  BY <1>0, NilAssumption DEF UnbanLock, IInv, TypeOK, RoomTypes, ConnTypes,
     ThreadTypes, Locals, RoomStages, RemoveTail, PeerStages, IdStages,
     Threads, Removers, ReaderStages, HubStages, HttpStages, Goto, Return,
     connVars, linkVars, serverVars
<1>2. (Registry /\ MemberKey /\ Placement)'
  BY <1>0, NilAssumption DEF UnbanLock, IInv, TypeOK, RoomTypes, ConnTypes,
     ThreadTypes, Locals, Registry, MemberKey, Placement, ListedOnlyIn,
     RemoveTail, Threads, Removers, Key, Goto, Return, connVars, serverVars
<1>. QED
  BY <1>1, <1>2 DEF IInv

(* deleteRoom takes hub.mu.                                                *)
LEMMA DeleteLockStep ==
  ASSUME IInv, NEW t \in Https, NEW n \in RoomNames, DeleteLock(t, n)
  PROVE  IInv'
<1>0. Queue' = Queue
  BY DEF DeleteLock, Queue, connVars
<1>1. (TypeOK /\ Locals)'
  <2>1. RoomTypes'
    BY DEF DeleteLock, IInv, TypeOK, RoomTypes, Goto, connVars, linkVars,
       roomVars
  <2>2. ConnTypes'
    BY DEF DeleteLock, IInv, TypeOK, ConnTypes, Goto, connVars, linkVars,
       roomVars
  <2>3. ThreadTypes'
    BY InHubFact DEF DeleteLock, IInv, TypeOK, ThreadTypes, Threads,
       Removers, ReaderStages, HubStages, HttpStages, Named, Goto, connVars,
       linkVars, roomVars
  <2>4. Locals'
    BY <1>0, NilAssumption DEF DeleteLock, IInv, TypeOK, ThreadTypes,
       Threads, Locals, RoomStages, RemoveTail, PeerStages, IdStages,
       ReaderStages, HubStages, HttpStages, Goto, connVars, linkVars,
       roomVars
  <2>. QED
    BY <2>1, <2>2, <2>3, <2>4 DEF TypeOK
<1>2. (Registry /\ MemberKey /\ Placement)'
  BY <1>0, NilAssumption DEF DeleteLock, IInv, TypeOK, RoomTypes, ConnTypes,
     ThreadTypes, Locals, Registry, MemberKey, Placement, ListedOnlyIn,
     RemoveTail, Threads, Removers, Key, Goto, connVars, roomVars
<1>. QED
  BY <1>1, <1>2 DEF IInv

(* deleteRoom closes the members of one room.                              *)
LEMMA DeleteCloseStep ==
  ASSUME IInv, NEW t \in Https, NEW r \in RoomObjs, DeleteClose(t, r)
  PROVE  IInv'
<1>0. Queue' = Queue
  BY DEF DeleteClose, Queue, connVars
<1>1. (TypeOK /\ Locals)'
  <2>1. RoomTypes'
    BY DEF DeleteClose, IInv, TypeOK, RoomTypes, connVars, roomVars,
       serverVars
  <2>2. ConnTypes'
    BY DEF DeleteClose, IInv, TypeOK, ConnTypes, Closed, connVars, roomVars,
       serverVars
  <2>3. ThreadTypes'
    BY DEF DeleteClose, IInv, TypeOK, ThreadTypes, Threads, Removers,
       ReaderStages, HubStages, HttpStages, connVars, roomVars, serverVars
  <2>4. Locals'
    BY <1>0, NilAssumption DEF DeleteClose, IInv, TypeOK, ThreadTypes,
       Threads, Locals, RoomStages, RemoveTail, PeerStages, IdStages,
       ReaderStages, HubStages, HttpStages, connVars, roomVars, serverVars
  <2>. QED
    BY <2>1, <2>2, <2>3, <2>4 DEF TypeOK
<1>2. (Registry /\ MemberKey /\ Placement)'
  BY <1>0, NilAssumption DEF DeleteClose, IInv, TypeOK, RoomTypes,
     ConnTypes, ThreadTypes, Locals, Registry, MemberKey, Placement,
     ListedOnlyIn, RemoveTail, Threads, Removers, Key, connVars, roomVars,
     serverVars
<1>. QED
  BY <1>1, <1>2 DEF IInv

(* deleteRoom deletes the keys and releases hub.mu.                        *)
LEMMA DeleteRoomsStep ==
  ASSUME IInv, NEW t \in Https, DeleteRooms(t)
  PROVE  IInv'
<1>0. Queue' = Queue
  BY DEF DeleteRooms, Queue, connVars
<1>1. (TypeOK /\ Locals)'
  BY <1>0, NilAssumption DEF DeleteRooms, IInv, TypeOK, RoomTypes,
     ConnTypes, ThreadTypes, Locals, RoomStages, RemoveTail, PeerStages,
     IdStages, Threads, Removers, ReaderStages, HubStages, HttpStages, Goto,
     Return, connVars, linkVars, roomVars
<1>2. (Registry /\ MemberKey /\ Placement)'
  BY <1>0, NilAssumption DEF DeleteRooms, IInv, TypeOK, RoomTypes,
     ConnTypes, ThreadTypes, Locals, Registry, MemberKey, Placement,
     ListedOnlyIn, RemoveTail, Threads, Removers, Key, Goto, Return,
     connVars, roomVars
<1>. QED
  BY <1>1, <1>2 DEF IInv

(* getOrCreateRoom called by the dashboard.                                *)
LEMMA CreateRoomStep ==
  ASSUME IInv, NEW cr \in Creds, CreateRoom(cr)
  PROVE  IInv'
<1>0. Queue' = Queue
  BY DEF CreateRoom, Queue, connVars
<1>1. (TypeOK /\ Locals)'
  <2>0. PICK r \in RoomObjs : NewRoom(r, cr, Nil)
    BY DEF CreateRoom
  <2>a. cred' = [cred EXCEPT ![r] = cr] /\ cr # Nil
    BY <2>0, NilAssumption DEF NewRoom
  <2>1. RoomTypes'
    BY <2>0, NewRoomType DEF CreateRoom, IInv, TypeOK, serverVars
  <2>2. ConnTypes'
    BY DEF CreateRoom, IInv, TypeOK, ConnTypes, FreshRoom, NewRoom,
       connVars, linkVars, localVars, serverVars
  <2>3. ThreadTypes'
    BY DEF CreateRoom, IInv, TypeOK, ThreadTypes, Threads, Removers,
       ReaderStages, HubStages, HttpStages, FreshRoom, NewRoom, connVars,
       linkVars, localVars, serverVars
  <2>4. Locals'
    BY <1>0, <2>0, <2>a DEF CreateRoom, IInv, TypeOK, RoomTypes,
       ThreadTypes, Threads, Locals, connVars, localVars
  <2>. QED
    BY <2>1, <2>2, <2>3, <2>4 DEF TypeOK
<1>2. (Registry /\ MemberKey /\ Placement)'
  <2>1. Registry'
    <3>0. PICK r \in RoomObjs : NewRoom(r, cr, Nil)
      BY DEF CreateRoom
    <3>1. cr \in Creds /\ cr # Nil
      BY NilAssumption DEF CreateRoom, IInv, Locals, Threads
    <3>2. /\ rooms' = [rooms EXCEPT ![roomKey(cr[1], cr[2])] = r]
          /\ cred' = [cred EXCEPT ![r] = cr]
          /\ UNCHANGED clients /\ cred[r] = Nil
      BY <3>0 DEF NewRoom, FreshRoom
    <3>3. ASSUME NEW k \in Keys, (rooms[k] # Nil)'
          PROVE  (cred[rooms[k]] # Nil /\ Key(rooms[k]) = k)'
      BY <3>1, <3>2, <3>3 DEF IInv, TypeOK, RoomTypes, Registry, Key
    <3>4. ASSUME NEW s \in RoomObjs, NEW i \in IDs, clients'[s][i] # Nil
          PROVE  /\ cred'[s] # Nil
                 /\ at'[clients'[s][i]] # "new"
                 /\ cid'[clients'[s][i]] = i
      BY <3>1, <3>2, <3>4 DEF CreateRoom, Goto, IInv, TypeOK, RoomTypes,
         ThreadTypes, Threads, Registry, connVars
    <3>. QED
      BY <3>3, <3>4 DEF Registry
  <2>2. MemberKey'
    BY NilAssumption DEF CreateRoom, IInv, TypeOK, MemberKey, Registry,
       RoomTypes, ConnTypes, ThreadTypes, Threads, Removers, FreshRoom,
       NewRoom, connVars, localVars, serverVars
  <2>3. Placement'
    BY <1>0, NilAssumption DEF CreateRoom, IInv, TypeOK, Placement,
       ListedOnlyIn, Locals, Registry, MemberKey, RemoveTail, Key,
       RoomTypes, ConnTypes, ThreadTypes, Threads, Removers, FreshRoom,
       NewRoom, connVars, localVars, serverVars
  <2>. QED
    BY <2>1, <2>2, <2>3
<1>. QED
  BY <1>1, <1>2 DEF IInv

(* apiLockToggle sets Room.Locked.                                         *)
LEMMA LockToggleStep ==
  ASSUME IInv, NEW n \in RoomNames, NEW b \in BOOLEAN, LockToggle(n, b)
  PROVE  IInv'
<1>0. Queue' = Queue
  BY DEF LockToggle, Queue, connVars
<1>1. (TypeOK /\ Locals)'
  <2>1. RoomTypes'
    BY DEF LockToggle, IInv, TypeOK, RoomTypes, connVars, linkVars,
       localVars, serverVars
  <2>2. ConnTypes'
    BY DEF LockToggle, IInv, TypeOK, ConnTypes, connVars, linkVars,
       localVars, serverVars
  <2>3. ThreadTypes'
    BY DEF LockToggle, IInv, TypeOK, ThreadTypes, Threads, Removers,
       ReaderStages, HubStages, HttpStages, connVars, linkVars, localVars,
       serverVars
  <2>4. Locals'
    BY <1>0 DEF LockToggle, IInv, TypeOK, ThreadTypes, Threads, Locals,
       RoomStages, RemoveTail, PeerStages, IdStages, ReaderStages,
       HubStages, HttpStages, connVars, linkVars, localVars, serverVars
  <2>. QED
    BY <2>1, <2>2, <2>3, <2>4 DEF TypeOK
<1>2. (Registry /\ MemberKey /\ Placement)'
  BY <1>0, NilAssumption DEF LockToggle, IInv, TypeOK, RoomTypes, ConnTypes,
     ThreadTypes, Locals, Registry, MemberKey, Placement, ListedOnlyIn,
     RemoveTail, Threads, Removers, Key, connVars, localVars, serverVars
<1>. QED
  BY <1>1, <1>2 DEF IInv

(* apiRelayToggle sets Room.RelayDisabled.                                 *)
LEMMA RelayLockStep ==
  ASSUME IInv, NEW t \in Https, NEW n \in RoomNames, NEW b \in BOOLEAN,
     RelayLock(t, n, b)
  PROVE  IInv'
<1>0. Queue' = Queue
  BY DEF RelayLock, Queue, connVars
<1>1. (TypeOK /\ Locals)'
  <2>0. PICK r \in InHub : /\ lroom' = [lroom EXCEPT ![t] = r]
                          /\ relayOff' = [relayOff EXCEPT ![r] = b]
    BY DEF RelayLock, Named
  <2>a. r \in RoomObjs /\ cred[r] # Nil
    BY InHubFact
  <2>b. t \notin Conns /\ t # "hub" /\ at[t] = "idle"
    BY NilAssumption DEF RelayLock
  <2>1. RoomTypes'
    BY <2>0, <2>a DEF RelayLock, IInv, TypeOK, RoomTypes, Goto, connVars,
       linkVars, serverVars
  <2>2. ConnTypes'
    BY DEF RelayLock, IInv, TypeOK, ConnTypes, Goto, connVars, linkVars,
       serverVars
  <2>3. ThreadTypes'
    BY <2>0, <2>a DEF RelayLock, IInv, TypeOK, ThreadTypes, Threads,
       Removers, ReaderStages, HubStages, HttpStages, Goto, connVars,
       linkVars, serverVars
  <2>4. Locals'
    BY <1>0, <2>0, <2>a, <2>b DEF RelayLock, IInv, TypeOK, ThreadTypes,
       Threads, Locals, RoomStages, RemoveTail, PeerStages, IdStages,
       ReaderStages, HubStages, HttpStages, Goto, connVars, linkVars,
       serverVars
  <2>. QED
    BY <2>1, <2>2, <2>3, <2>4 DEF TypeOK
<1>2. (Registry /\ MemberKey /\ Placement)'
  <2>1. Registry'
    BY NilAssumption DEF RelayLock, IInv, TypeOK, Registry, Locals, Key,
       RoomTypes, ConnTypes, ThreadTypes, Threads, Removers, Goto, connVars,
       serverVars
  <2>2. MemberKey'
    BY NilAssumption DEF RelayLock, IInv, TypeOK, MemberKey, Registry,
       RoomTypes, ConnTypes, ThreadTypes, Threads, Removers, Goto, connVars,
       serverVars
  <2>3. Placement'
    BY <1>0, NilAssumption DEF RelayLock, IInv, TypeOK, Placement,
       ListedOnlyIn, Locals, Registry, MemberKey, RemoveTail, Key,
       RoomTypes, ConnTypes, ThreadTypes, Threads, Removers, Goto, connVars,
       serverVars
  <2>. QED
    BY <2>1, <2>2, <2>3
<1>. QED
  BY <1>1, <1>2 DEF IInv

(* apiRelayToggle notifies the members.                                    *)
LEMMA RelayBcastStep ==
  ASSUME IInv, NEW t \in Https, RelayBcast(t)
  PROVE  IInv'
<1>0. Queue' = Queue
  BY DEF RelayBcast, Queue, connVars
<1>1. (TypeOK /\ Locals)'
  BY <1>0, NilAssumption DEF RelayBcast, IInv, TypeOK, RoomTypes, ConnTypes,
     ThreadTypes, Locals, RoomStages, RemoveTail, PeerStages, IdStages,
     Threads, Removers, ReaderStages, HubStages, HttpStages, Goto, Return,
     connVars, linkVars, roomVars
<1>2. (Registry /\ MemberKey /\ Placement)'
  <2>1. Registry'
    BY NilAssumption DEF RelayBcast, IInv, TypeOK, Registry, Locals, Key,
       RoomTypes, ConnTypes, ThreadTypes, Threads, Removers, Goto, Return,
       connVars, roomVars
  <2>2. MemberKey'
    BY NilAssumption DEF RelayBcast, IInv, TypeOK, MemberKey, Registry,
       RoomTypes, ConnTypes, ThreadTypes, Threads, Removers, Goto, Return,
       connVars, roomVars
  <2>3. Placement'
    BY <1>0, NilAssumption DEF RelayBcast, IInv, TypeOK, Placement,
       ListedOnlyIn, Locals, Registry, MemberKey, RemoveTail, Key,
       RoomTypes, ConnTypes, ThreadTypes, Threads, Removers, Goto, Return,
       connVars, roomVars
  <2>. QED
    BY <2>1, <2>2, <2>3
<1>. QED
  BY <1>1, <1>2 DEF IInv

(* apiRelayToggle sets globalRelayOff.                                     *)
LEMMA GlobalRelayToggleStep ==
  ASSUME IInv, NEW b \in BOOLEAN, GlobalRelayToggle(b)
  PROVE  IInv'
<1>0. Queue' = Queue
  BY DEF GlobalRelayToggle, Queue, connVars
<1>1. (TypeOK /\ Locals)'
  BY <1>0, NilAssumption DEF GlobalRelayToggle, IInv, TypeOK, RoomTypes,
     ConnTypes, ThreadTypes, Locals, RoomStages, RemoveTail, PeerStages,
     IdStages, Threads, Removers, ReaderStages, HubStages, HttpStages,
     connVars, linkVars, localVars, roomVars
<1>2. (Registry /\ MemberKey /\ Placement)'
  BY <1>0, NilAssumption DEF GlobalRelayToggle, IInv, TypeOK, RoomTypes,
     ConnTypes, ThreadTypes, Locals, Registry, MemberKey, Placement,
     ListedOnlyIn, RemoveTail, Threads, Removers, Key, connVars, localVars,
     roomVars
<1>. QED
  BY <1>1, <1>2 DEF IInv

-----------------------------------------------------------------------------
(* Every step of the server preserves the invariant.                       *)
LEMMA NextStep == IInv /\ [Next]_vars => IInv'
<1>. SUFFICES ASSUME IInv, [Next]_vars PROVE IInv'
  OBVIOUS
<1>1. ASSUME NEW t \in Removers, Remove(t) PROVE IInv'
  BY <1>1, RemoveLockStep, CloseAllStep, DelRoomStep, RemoveBcastStep
  DEF Remove
<1>2. ASSUME NEW c \in Conns, Message(c) PROVE IInv'
  BY <1>2, JoinMsgStep, JoinRefusedStep, LeaveMsgStep, RoomMsgStep,
     RelayMsgStep, ForwardMsgStep
  DEF Message
<1>3. ASSUME NEW c \in Conns, Join(c) PROVE IInv'
  BY <1>3, JoinFindStep, JoinNotFoundStep, JoinCreateStep, JoinCreatedStep,
     JoinCheckStep, JoinRejectStep, JoinInsertStep, JoinBcastStep
  DEF Join
<1>4. ASSUME NEW c \in Conns, Connection(c) PROVE IInv'
  BY <1>1, <1>2, <1>3, <1>4, RoomSendStep, RelaySendStep, NetDropStep,
     WriterExitStep, ReaderExitStep, HubRecvStep, HubRecvNoRoomStep,
     ConnDoneStep, CloseStaleStep
  DEF Connection, Handler, Removers
<1>5. ASSUME NEW t \in Https, ServeWs(t) PROVE IInv'
  BY <1>5, WsCheckStep, WsUpgradeFailStep, WsUpgradeStep, WsSkipStep,
     WsDisconnectStep, WsPanicStep, WsRegisterStep
  DEF ServeWs, WsLoop
<1>6. ASSUME NEW t \in Https, Admin(t) PROVE IInv'
  BY <1>6, AdminFindStep, BanLockStep, BanAbsentStep, BanCloseStep,
     KickLockStep, KickCloseStep, KickBcastStep, KickEndStep, UnbanLockStep,
     DeleteLockStep, DeleteCloseStep, DeletePanicStep, DeleteRoomsStep,
     RelayLockStep, RelayBcastStep
  DEF Admin, AdminStep
<1>7. ASSUME Dashboard PROVE IInv'
  BY <1>7, CreateRoomStep, LockToggleStep, GlobalRelayToggleStep
  DEF Dashboard
<1>8. CASE UNCHANGED vars
  <2>1. (TypeOK /\ Locals)'
    BY <1>8 DEF vars, roomVars, connVars, linkVars, serverVars, localVars,
       IInv, TypeOK, RoomTypes, ConnTypes, ThreadTypes, Locals, Queue
  <2>2. (Registry /\ MemberKey /\ Placement)'
    BY <1>8 DEF vars, roomVars, connVars, linkVars, serverVars, localVars,
       IInv, Registry, MemberKey, Placement, ListedOnlyIn, Key, Queue
  <2>. QED
    BY <2>1, <2>2 DEF IInv
<1>. QED
  BY <1>1, <1>4, <1>5, <1>6, <1>7, <1>8, CrashStep, HubRegisteredStep
  DEF Next, Removers

(* The empty server satisfies the invariant.                               *)
LEMMA InitIInv == Init => IInv
<1>. SUFFICES ASSUME Init PROVE IInv
  OBVIOUS
<1>1. TypeOK
  <2>1. RoomTypes
    BY DEF Init, RoomTypes, NoClients
  <2>2. ConnTypes
    <3>1. up \in BOOLEAN /\ globalOff \in BOOLEAN
      BY DEF Init
    <3>. QED
      BY <3>1, NilAssumption DEF Init, ConnTypes
  <2>3. ThreadTypes
    BY DEF Init, ThreadTypes, ReaderStages, HubStages, Threads
  <2>. QED
    BY <2>1, <2>2, <2>3 DEF TypeOK
<1>2. Locals
  BY NilAssumption DEF Init, Locals, RoomStages, RemoveTail, PeerStages,
     IdStages, ReaderStages, HubStages, Threads, Queue
<1>3. Registry /\ MemberKey /\ Placement
  BY NilAssumption DEF Init, Registry, MemberKey, Placement, ListedOnlyIn,
     NoClients, RemoveTail, Threads
<1>. QED
  BY <1>1, <1>2, <1>3 DEF IInv

(* The conjunction of the stage invariants holds in every reachable state. *)
THEOREM Invariance == Spec => []IInv
  BY InitIInv, NextStep, PTL DEF Spec

(* Every variable stays in its type.                                       *)
THEOREM TypeCorrect == Spec => []TypeOK
<1>1. IInv => TypeOK
  BY DEF IInv
<1>. QED
  BY <1>1, Invariance, PTL

(* A connection listed in a registered room carries that room's key and    *)
(* the ID it is listed under, whatever joins, kicks, bans, reconnects and  *)
(* deletions overlap.                                                      *)
THEOREM MemberKeyHolds == Spec => []MemberKey
<1>1. IInv => MemberKey
  BY DEF IInv
<1>. QED
  BY <1>1, Invariance, PTL

(* Once the hub has dealt with a connection that ended, no registered room *)
(* lists it.                                                               *)
THEOREM GhostFreeHolds == Spec => []GhostFree
<1>1. IInv => GhostFree
  <2>. SUFFICES ASSUME IInv, NEW c \in Conns, at[c] \in {"exited", "done"},
                       ~Pending(c), NEW r \in InHub, c \in Members(r)
                PROVE  FALSE
    BY DEF GhostFree, Listed
  <2>1. PICK k \in Keys : rooms[k] = r /\ rooms[k] # Nil
    BY DEF InHub
  <2>2. PICK i \in IDs : clients[r][i] = c
    BY DEF Members
  <2>3. ListedOnlyIn(c, Nil)
    BY DEF IInv, Placement, Pending
  <2>. QED
    BY <2>1, <2>2, <2>3 DEF ListedOnlyIn
<1>. QED
  BY <1>1, Invariance, PTL

-----------------------------------------------------------------------------
(***************************************************************************)
(* The connection limit.  Most steps move no goroutine into or out of the  *)
(* three counted sets; the six that do are serveWs and ConnDone.           *)
(***************************************************************************)

(* A step that changes neither the counter nor what it counts.             *)
Steady ==
  /\ activeConns' = activeConns /\ (held' = {} => held = {})
  /\ \A c \in Conns : at'[c] \in {"new", "done"} <=> at[c] \in {"new", "done"}
  /\ \A t \in Https : at'[t] = "ws" <=> at[t] = "ws"
  /\ \A t \in Https : at'[t] = "wsDisc" <=> at[t] = "wsDisc"

Accounts == ConnAccounting /\ ConnBound

(* The counted sets are finite and their sizes are numbers.                *)
LEMMA Counts ==
  /\ IsFiniteSet(Live) /\ Cardinality(Live) \in Nat
  /\ IsFiniteSet(Opening) /\ Cardinality(Opening) \in Nat
  /\ IsFiniteSet(Upgrading) /\ Cardinality(Upgrading) \in Nat
  /\ Cardinality(Upgrading) <= Cardinality(Https)
  /\ Cardinality(Https) \in Nat \ {0}
<1>1. Live \subseteq Conns /\ Opening \subseteq Https /\ Upgrading \subseteq Https
  BY DEF Live, Opening, Upgrading
<1>2. IsFiniteSet(Conns) /\ IsFiniteSet(Https) /\ Https # {}
  BY NilAssumption
<1>3. /\ IsFiniteSet(Live) /\ IsFiniteSet(Opening) /\ IsFiniteSet(Upgrading)
      /\ Cardinality(Upgrading) <= Cardinality(Https)
  BY <1>1, <1>2, FS_Subset
<1>4. Cardinality(Https) \in Nat /\ Cardinality(Https) # 0
  BY <1>2, FS_CardinalityType, FS_EmptySet
<1>. QED
  BY <1>3, <1>4, FS_CardinalityType

(* The goroutines are different ones.                                      *)
LEMMA Disjoint ==
  /\ \A c \in Conns : c \in Threads /\ c \notin Https /\ c # "hub"
  /\ \A t \in Https : t \in Threads /\ t \notin Conns /\ t # "hub"
  /\ "hub" \in Threads /\ "hub" \notin Conns /\ "hub" \notin Https
  BY NilAssumption DEF Threads

LEMMA SteadyAccounts ==
  ASSUME Accounts, Steady
  PROVE  Accounts'
<1>1. Live' = Live /\ Opening' = Opening /\ Upgrading' = Upgrading
  BY DEF Steady, Live, Opening, Upgrading
<1>. QED
  BY <1>1 DEF Accounts, ConnAccounting, ConnBound, Steady

(* Only at changes, for one goroutine that stays inside or outside.        *)
LEMMA GotoSteady ==
  ASSUME TypeOK, NEW u \in Threads, NEW s,
         at' = [at EXCEPT ![u] = s],
         UNCHANGED activeConns, held' = {} => held = {},
         u \in Conns => {at[u], s} \cap {"new", "done"} = {},
         u \in Https => {at[u], s} \cap {"ws", "wsDisc"} = {}
  PROVE  Steady
<1>1. \A v \in Threads : at'[v] = IF v = u THEN s ELSE at[v]
  BY DEF TypeOK, ThreadTypes
<1>. QED
  BY <1>1, Disjoint DEF Steady

(* at stays as it is.                                                      *)
LEMMA AtSteady ==
  ASSUME UNCHANGED <<at, activeConns, held>>
  PROVE  Steady
  BY DEF Steady

LEMMA RemoveSteady ==
  ASSUME IInv, NEW t \in Removers, Remove(t)
  PROVE  Steady
<1>0. t \in Threads /\ (t \in Conns \/ t = "hub") /\ t \notin Https
  BY Disjoint DEF Removers
<1>1. TypeOK /\ UNCHANGED activeConns /\ UNCHANGED held
  BY DEF IInv, Remove, RemoveLock, CloseAll, DelRoom, RemoveBcast, serverVars
<1>2. PICK s \in {"closeAll", "delRoom", "removeBcast", "idle", "read", "find"} :
        at' = [at EXCEPT ![t] = s]
  BY DEF Remove, RemoveLock, CloseAll, DelRoom, RemoveBcast, EndRemove, Goto,
     AfterRemove
<1>3. at[t] \in {"remove", "closeAll", "delRoom", "removeBcast"}
  BY DEF Remove, RemoveLock, CloseAll, DelRoom, RemoveBcast
<1>. QED
  BY <1>0, <1>1, <1>2, <1>3, GotoSteady

LEMMA MessageSteady ==
  ASSUME IInv, NEW c \in Conns, Message(c)
  PROVE  Steady
<1>0. c \in Threads /\ c \notin Https /\ TypeOK
  BY Disjoint DEF IInv
<1>1. ASSUME at[c] = "read", UNCHANGED <<activeConns, held>>,
             NEW s \in {"remove", "find", "read", "bcast", "bcastOthers",
                        "relaySend"},
             at' = [at EXCEPT ![c] = s]
      PROVE  Steady
  BY <1>0, <1>1, GotoSteady
<1>2. ASSUME NEW cr \in Creds, NEW nm \in Names \cup {Nil}, JoinMsg(c, cr, nm)
      PROVE  Steady
  BY <1>1, <1>2 DEF JoinMsg, Reading, BeginRemove, Goto, serverVars
<1>3. ASSUME NEW nm \in Names \cup {Nil}, JoinRefused(c, nm) PROVE Steady
  BY <1>3, AtSteady DEF JoinRefused, serverVars
<1>4. ASSUME LeaveMsg(c) PROVE Steady
  BY <1>1, <1>4 DEF LeaveMsg, Reading, BeginRemove, Goto, serverVars
<1>5. ASSUME NEW kind \in {"bcast", "bcastOthers"}, RoomMsg(c, kind)
      PROVE  Steady
  BY <1>1, <1>5 DEF RoomMsg, Reading, Goto, serverVars
<1>6. ASSUME NEW i \in IDs, NEW bulk \in BOOLEAN, RelayMsg(c, i, bulk)
      PROVE  Steady
  BY <1>1, <1>6 DEF RelayMsg, Reading, Goto, serverVars
<1>7. ASSUME NEW i \in IDs, ForwardMsg(c, i) PROVE Steady
  BY <1>1, <1>7 DEF ForwardMsg, Reading, Goto, serverVars
<1>. QED
  BY <1>2, <1>3, <1>4, <1>5, <1>6, <1>7 DEF Message

LEMMA JoinSteady ==
  ASSUME IInv, NEW c \in Conns, Join(c) \/ RoomSend(c) \/ RelaySend(c)
  PROVE  Steady
<1>0. c \in Threads /\ c \notin Https /\ TypeOK
  BY Disjoint DEF IInv
<1>1. UNCHANGED activeConns /\ UNCHANGED held
  BY DEF Join, JoinFind, JoinNotFound, JoinCreate, JoinCreated, JoinCheck,
     JoinReject, JoinInsert, JoinBcast, RoomSend, RelaySend, serverVars
<1>2. at[c] \in {"find", "create", "check", "insert", "joinBcast", "bcast",
                 "bcastOthers", "relaySend"}
  BY DEF Join, JoinFind, JoinNotFound, JoinCreate, JoinCreated, JoinCheck,
     JoinReject, JoinInsert, JoinBcast, RoomSend, RelaySend, Refused
<1>3. PICK s \in {"check", "create", "insert", "read", "joinBcast"} :
        at' = [at EXCEPT ![c] = s]
  BY DEF Join, JoinFind, JoinNotFound, JoinCreate, JoinCreated, JoinCheck,
     JoinReject, JoinInsert, JoinBcast, RoomSend, RelaySend, Goto, Return
<1>. QED
  BY <1>0, <1>1, <1>2, <1>3, GotoSteady

LEMMA AdminSteady ==
  ASSUME IInv, NEW t \in Https, Admin(t)
  PROVE  Steady
<1>0. t \in Threads /\ t \notin Conns /\ TypeOK
  BY Disjoint DEF IInv
<1>1. UNCHANGED activeConns /\ (held' = {} => held = {})
  BY DEF Admin, AdminStep, AdminFind, DeleteLock, RelayLock, BanLock,
     BanAbsent, BanClose, KickLock, KickClose, KickBcast, KickEnd, UnbanLock,
     DeleteClose, DeletePanic, DeleteRooms, RelayBcast, serverVars
<1>2. at[t] \in {"idle", "ban", "banClose", "kick", "kickClose", "kickBcast",
                 "unban", "delete", "relayBcast"}
  BY DEF Admin, AdminStep, AdminFind, DeleteLock, RelayLock, BanLock,
     BanAbsent, BanClose, KickLock, KickClose, KickBcast, KickEnd, UnbanLock,
     DeleteClose, DeletePanic, DeleteRooms, RelayBcast
<1>3. \/ UNCHANGED at
      \/ \E s \in {"idle", "ban", "banClose", "kick", "kickClose",
                   "kickBcast", "unban", "delete", "relayBcast"} :
           at' = [at EXCEPT ![t] = s]
  BY DEF Admin, AdminStep, AdminFind, DeleteLock, RelayLock, BanLock,
     BanAbsent, BanClose, KickLock, KickClose, KickBcast, KickEnd, UnbanLock,
     DeleteClose, DeletePanic, DeleteRooms, RelayBcast, Goto, Return
<1>4. CASE UNCHANGED at
  BY <1>1, <1>4 DEF Steady
<1>5. ASSUME NEW s \in {"idle", "ban", "banClose", "kick", "kickClose",
                        "kickBcast", "unban", "delete", "relayBcast"},
             at' = [at EXCEPT ![t] = s]
      PROVE  Steady
  BY <1>0, <1>1, <1>2, <1>5, GotoSteady
<1>. QED
  BY <1>3, <1>4, <1>5

LEMMA ConnectionSteady ==
  ASSUME IInv, NEW c \in Conns, Connection(c), ~ConnDone(c)
  PROVE  Steady
<1>0. /\ c \in Threads /\ c \notin Https /\ TypeOK
      /\ "hub" \in Threads /\ "hub" \notin Https /\ "hub" \notin Conns
  BY Disjoint DEF IInv
<1>1. ASSUME Handler(c) PROVE Steady
  BY <1>1, RemoveSteady, JoinSteady DEF Handler, Removers
<1>2. ASSUME NetDrop(c) \/ WriterExit(c) \/ HubRecvNoRoom(c) \/ CloseStale(c)
      PROVE  Steady
  BY <1>2, AtSteady DEF NetDrop, WriterExit, HubRecvNoRoom, CloseStale,
     serverVars
<1>3. ASSUME ReaderExit(c) PROVE Steady
  <2>1. /\ at[c] = "read" /\ at' = [at EXCEPT ![c] = "exited"]
        /\ UNCHANGED <<activeConns, held>>
    BY <1>3 DEF ReaderExit, Goto, serverVars
  <2>. QED
    BY <1>0, <2>1, GotoSteady
<1>4. ASSUME HubRecv(c) PROVE Steady
  <2>1. /\ at' = [at EXCEPT !["hub"] = "remove"]
        /\ UNCHANGED <<activeConns, held>>
    BY <1>4 DEF HubRecv, Goto, serverVars
  <2>. QED
    BY <1>0, <2>1, GotoSteady
<1>. QED
  BY <1>1, <1>2, <1>3, <1>4, MessageSteady DEF Connection

(* After readPump returned the counter goes down with its connection.      *)
LEMMA ConnDoneAccounts ==
  ASSUME IInv, Accounts, NEW c \in Conns, ConnDone(c)
  PROVE  Accounts'
<1>1. \A u \in Threads : at'[u] = IF u = c THEN "done" ELSE at[u]
  BY DEF ConnDone, Goto, IInv, TypeOK, ThreadTypes
<1>2. /\ at[c] = "exited" /\ activeConns' = activeConns - 1 /\ held' = held
      /\ activeConns \in Int
  BY DEF ConnDone, IInv, TypeOK, ConnTypes
<1>3. Opening' = Opening /\ Upgrading' = Upgrading
  BY <1>1, Disjoint DEF Opening, Upgrading
<1>4. c \in Live /\ Live' = Live \ {c}
  BY <1>1, <1>2, Disjoint DEF Live
<1>5. Cardinality(Live') = Cardinality(Live) - 1
  BY <1>4, Counts, FS_RemoveElement
<1>. QED
  BY <1>2, <1>3, <1>5, Counts, NilAssumption
  DEF Accounts, ConnAccounting, ConnBound

(* The limit is tested: what is counted so far is below it.                *)
LEMMA WsCheckAccounts ==
  ASSUME IInv, Accounts, NEW t \in Https, WsCheck(t)
  PROVE  Accounts'
<1>1. \A u \in Threads : at'[u] = IF u = t THEN "ws" ELSE at[u]
  BY DEF WsCheck, Goto, IInv, TypeOK, ThreadTypes
<1>2. /\ at[t] = "idle" /\ activeConns' = activeConns /\ held' = held
      /\ activeConns \in Int /\ activeConns < MaxConns
  BY DEF WsCheck, serverVars, IInv, TypeOK, ConnTypes
<1>3. Opening' = Opening /\ Live' = Live
  BY <1>1, <1>2, Disjoint DEF Opening, Live
<1>4. /\ Cardinality(Upgrading') \in Nat
      /\ Cardinality(Upgrading') <= Cardinality(Https)
  <2>1. Upgrading' \subseteq Https
    BY DEF Upgrading
  <2>. QED
    BY <2>1, NilAssumption, FS_Subset, FS_CardinalityType
<1>. QED
  BY <1>2, <1>3, <1>4, Counts, NilAssumption
  DEF Accounts, ConnAccounting, ConnBound

(* Upgrade: the handler is counted, or it gives up uncounted.              *)
LEMMA WsUpgradeAccounts ==
  ASSUME IInv, Accounts, NEW t \in Https,
         WsUpgradeFail(t) \/ \E i \in IDs : WsUpgrade(t, i)
  PROVE  Accounts'
<1>0. at[t] = "ws" /\ held' = held /\ activeConns \in Int /\ t \in Upgrading
  BY DEF WsUpgrade, WsUpgradeFail, serverVars, IInv, TypeOK, ConnTypes,
     Upgrading
<1>1. CASE WsUpgradeFail(t)
  <2>1. \A u \in Threads : at'[u] = IF u = t THEN "idle" ELSE at[u]
    BY <1>1 DEF WsUpgradeFail, Goto, IInv, TypeOK, ThreadTypes
  <2>2. Opening' = Opening /\ Live' = Live /\ Upgrading' = Upgrading \ {t}
    BY <1>0, <2>1, Disjoint DEF Opening, Live, Upgrading
  <2>3. activeConns' = activeConns
    BY <1>1 DEF WsUpgradeFail, serverVars
  <2>4. Cardinality(Upgrading') = Cardinality(Upgrading) - 1
    BY <1>0, <2>2, Counts, FS_RemoveElement
  <2>. QED
    BY <1>0, <2>2, <2>3, <2>4, Counts, NilAssumption
    DEF Accounts, ConnAccounting, ConnBound
<1>2. CASE \E i \in IDs : WsUpgrade(t, i)
  <2>1. \A u \in Threads : at'[u] = IF u = t THEN "wsDisc" ELSE at[u]
    BY <1>2 DEF WsUpgrade, Goto, IInv, TypeOK, ThreadTypes
  <2>2. /\ Opening' = Opening \cup {t} /\ t \notin Opening /\ Live' = Live
        /\ Upgrading' = Upgrading \ {t}
    BY <1>0, <2>1, Disjoint DEF Opening, Live, Upgrading
  <2>3. activeConns' = activeConns + 1
    BY <1>2 DEF WsUpgrade
  <2>4. Cardinality(Upgrading') = Cardinality(Upgrading) - 1
    BY <1>0, <2>2, Counts, FS_RemoveElement
  <2>5. Cardinality(Opening') = Cardinality(Opening) + 1
    BY <2>2, Counts, FS_AddElement
  <2>. QED
    BY <1>0, <2>2, <2>3, <2>4, <2>5, Counts, NilAssumption
    DEF Accounts, ConnAccounting, ConnBound
<1>. QED
  BY <1>1, <1>2

(* The panic of disconnectExisting loses the decrement and leaves a room   *)
(* locked.                                                                 *)
LEMMA WsPanicAccounts ==
  ASSUME IInv, Accounts, NEW t \in Https, NEW r \in RoomObjs, WsPanic(t, r)
  PROVE  Accounts'
<1>1. \A u \in Threads : at'[u] = IF u = t THEN "idle" ELSE at[u]
  BY DEF WsPanic, Return, Goto, IInv, TypeOK, ThreadTypes
<1>2. /\ at[t] = "wsDisc" /\ activeConns' = activeConns /\ held' # {}
      /\ activeConns \in Int
  BY DEF WsPanic, IInv, TypeOK, ConnTypes
<1>3. /\ Live' = Live /\ Upgrading' = Upgrading /\ t \in Opening
      /\ Opening' = Opening \ {t}
  BY <1>1, <1>2, Disjoint DEF Opening, Live, Upgrading
<1>4. Cardinality(Opening') = Cardinality(Opening) - 1
  BY <1>3, Counts, FS_RemoveElement
<1>. QED
  BY <1>2, <1>3, <1>4, Counts, NilAssumption
  DEF Accounts, ConnAccounting, ConnBound

(* Registration: the handler's count becomes the reader's.                 *)
LEMMA WsRegisterAccounts ==
  ASSUME IInv, Accounts, NEW t \in Https, NEW c \in Conns, WsRegister(t, c)
  PROVE  Accounts'
<1>1. \A u \in Threads : at'[u] = IF u = c THEN "read"
                                  ELSE IF u = t THEN "idle" ELSE at[u]
  BY Disjoint DEF WsRegister, IInv, TypeOK, ThreadTypes
<1>2. /\ at[t] = "wsDisc" /\ at[c] = "new" /\ activeConns' = activeConns
      /\ held' = held /\ activeConns \in Int
  BY DEF WsRegister, FreshConn, serverVars, IInv, TypeOK, ConnTypes
<1>3. /\ Live' = Live \cup {c} /\ c \notin Live /\ Upgrading' = Upgrading
      /\ t \in Opening /\ Opening' = Opening \ {t}
  BY <1>1, <1>2, Disjoint DEF Opening, Live, Upgrading
<1>4. Cardinality(Opening') = Cardinality(Opening) - 1
  BY <1>3, Counts, FS_RemoveElement
<1>5. Cardinality(Live') = Cardinality(Live) + 1
  BY <1>3, Counts, FS_AddElement
<1>. QED
  BY <1>2, <1>3, <1>4, <1>5, Counts, NilAssumption
  DEF Accounts, ConnAccounting, ConnBound

(* Every step of the server keeps the accounts.                            *)
LEMMA NextAccounts == IInv /\ Accounts /\ [Next]_vars => Accounts'
<1>. SUFFICES ASSUME IInv, Accounts, [Next]_vars PROVE Accounts'
  OBVIOUS
<1>1. ASSUME NEW c \in Conns, Connection(c) PROVE Accounts'
  BY <1>1, ConnDoneAccounts, ConnectionSteady, SteadyAccounts
<1>2. ASSUME Remove("hub") PROVE Accounts'
  BY <1>2, RemoveSteady, SteadyAccounts DEF Removers
<1>3. ASSUME HubRegistered \/ (\E t \in Removers : Crash(t)) \/ Dashboard
      PROVE  Accounts'
  <2>1. UNCHANGED <<at, activeConns, held>>
    BY <1>3 DEF HubRegistered, Crash, Dashboard, CreateRoom, LockToggle,
       GlobalRelayToggle, serverVars
  <2>. QED
    BY <2>1, AtSteady, SteadyAccounts
<1>4. ASSUME NEW t \in Https, ServeWs(t) PROVE Accounts'
  <2>1. ASSUME NEW r \in RoomObjs, WsSkip(t, r) \/ WsDisconnect(t, r)
        PROVE  Accounts'
    BY <2>1, AtSteady, SteadyAccounts DEF WsSkip, WsDisconnect, serverVars
  <2>. QED
    BY <1>4, <2>1, WsCheckAccounts, WsUpgradeAccounts, WsPanicAccounts,
       WsRegisterAccounts
    DEF ServeWs, WsLoop
<1>5. ASSUME NEW t \in Https, Admin(t) PROVE Accounts'
  BY <1>5, AdminSteady, SteadyAccounts
<1>6. CASE UNCHANGED vars
  <2>1. UNCHANGED <<at, activeConns, held>>
    BY <1>6 DEF vars, serverVars
  <2>. QED
    BY <2>1, AtSteady, SteadyAccounts
<1>. QED
  BY <1>1, <1>2, <1>3, <1>4, <1>5, <1>6 DEF Next

LEMMA InitAccounts == Init => Accounts
<1>. SUFFICES ASSUME Init PROVE Accounts
  OBVIOUS
<1>1. Live = {} /\ Opening = {} /\ Upgrading = {}
  BY Disjoint DEF Init, Live, Opening, Upgrading
<1>. QED
  BY <1>1, FS_EmptySet, Counts, NilAssumption
  DEF Init, Accounts, ConnAccounting, ConnBound

(* activeConns is never below the number of connections it stands for, and *)
(* exact until a panic of disconnectExisting has lost a decrement.         *)
THEOREM ConnAccountingHolds == Spec => []ConnAccounting
<1>1. Accounts => ConnAccounting
  BY DEF Accounts
<1>. QED
  BY <1>1, InitAccounts, NextAccounts, Invariance, PTL DEF Spec

(* However many handlers test the limit before any of them counts itself,  *)
(* serveWs admits at most maxConns plus the other handlers.                *)
THEOREM ConnBoundHolds == Spec => []ConnBound
<1>1. Accounts => ConnBound
  BY DEF Accounts
<1>. QED
  BY <1>1, InitAccounts, NextAccounts, Invariance, PTL DEF Spec

=============================================================================
