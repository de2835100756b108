-------------------------------- MODULE Hub --------------------------------
(***************************************************************************)
(* The signalling server's room registry (server/hub.go, server/client.go, *)
(* the WebSocket and dashboard handlers of server/main.go).                *)
(*                                                                         *)
(* Goroutines: one reader per connection, the hub loop, the writers, the   *)
(* `go close(o.send)` goroutines of handleJoin, and the HTTP handlers.     *)
(* A step is the code between two lock acquisitions of one goroutine.      *)
(*                                                                         *)
(* Go panics on a send to, or a second close of, a closed channel.  In a   *)
(* reader, the hub or a spawned goroutine nothing recovers: the process    *)
(* ends (up = FALSE).  net/http recovers a panic of an HTTP handler, but   *)
(* the mutexes it took without defer stay locked (held, hubLock).          *)
(*                                                                         *)
(* The contents of the send channels (peer lists, relayed payloads) are    *)
(* not modelled: sending to an open channel never blocks and may drop.     *)
(***************************************************************************)
EXTENDS Integers, Sequences, FiniteSets

CONSTANTS IDs,         \* client IDs (deterministic, MAC based)
          Names,       \* friendly client names
          RoomNames,   \* room display names, as sequences of tokens
          Hashes,      \* password hashes (no password is Nil)
          Conns,       \* pool of *Client objects (bound: never reused)
          RoomObjs,    \* pool of *Room objects (bound: never reused)
          Https,       \* HTTP handler goroutines that run at once
          Ops,         \* messages and dashboard operations of the workload
          MaxConns,    \* maxConns of main.go
          ChanCap,     \* capacity of hub.register and hub.unregister (64)
          MaxClosers,  \* bound: pending `go close(o.send)` per connection
          Nil

(* roomKey: the registry key of a room is its name, or name:hash.          *)
roomKey(name, hash) == IF hash = Nil THEN name ELSE name \o <<hash>>

Creds == RoomNames \X (Hashes \cup {Nil})
Keys  == {roomKey(cr[1], cr[2]) : cr \in Creds}

NoKey   == <<>>                        \* client.roomKey = ""
ASSUME NilAssumption ==
  /\ Nil \notin IDs \cup Names \cup Hashes \cup Conns \cup RoomObjs \cup Creds
  /\ "hub" \notin Conns \cup Https
  /\ Conns \cap Https = {}
  /\ NoKey \notin Keys                 \* a room name is not empty
  /\ MaxConns \in Nat /\ ChanCap \in Nat /\ MaxClosers \in Nat
  /\ IsFiniteSet(Conns) /\ IsFiniteSet(Https) /\ Https # {}

Threads == Conns \cup Https \cup {"hub"}

VARIABLES
  up,           \* the process runs
  rooms,        \* Hub.rooms: key -> *Room
  cred,         \* Room.Name, Room.PasswordHash
  owner,        \* Room.OwnerID; Nil is a persistent, dashboard-created room
  clients,      \* Room.Clients: id -> *Client
  banned,       \* Room.Blacklist
  locked,       \* Room.Locked
  relayOff,     \* Room.RelayDisabled
  globalOff,    \* globalRelayOff
  cid,          \* Client.id
  cname,        \* Client.name
  croom,        \* Client.roomKey
  send,         \* Client.send: "open" | "closed"
  sock,         \* Client.conn: "open" | "closed"
  unreg,        \* hub.unregister: connections on their way to the hub
  reg,          \* hub.register: how many it holds (the hub only logs them)
  closers,      \* pending `go close(o.send); o.conn.Close()` per connection
  activeConns,  \* the atomic counter of main.go
  held,         \* rooms whose mutex a recovered panic left locked
  hubLock,      \* Hub.mu: "free", or left locked: "read" | "write"
  at,           \* where each goroutine is
  lroom,        \* its local *Room
  lpeer,        \* its local *Client
  req,          \* the request it serves
  todo          \* the rooms its loop over hub.rooms still has to visit

roomVars   == <<cred, owner, banned, locked, relayOff>>
connVars   == <<cid, cname, unreg, reg>>
linkVars   == <<send, sock, closers>>
serverVars == <<up, globalOff, activeConns, held, hubLock>>
localVars  == <<lroom, lpeer, req, todo>>
vars == <<rooms, clients, croom, at, roomVars, connVars, linkVars,
          serverVars, localVars>>

ReaderStages == {"new", "done", "read", "remove", "closeAll", 
                 "delRoom", "removeBcast", "find", "create", "check",
                 "insert", "joinBcast", "bcast", "bcastOthers", "relaySend",
                 "exited"}
HubStages    == {"idle", "remove", "closeAll", "delRoom", "removeBcast"}
HttpStages   == {"idle", "ws", "wsDisc", "ban", "banClose", "kick",
                 "kickClose", "kickBcast", "unban", "delete", "relayBcast"}

-----------------------------------------------------------------------------
Key(r)       == roomKey(cred[r][1], cred[r][2])
Persistent(r) == owner[r] = Nil
InHub        == {rooms[k] : k \in Keys} \ {Nil}
Named(n)     == {r \in InHub : cred[r][1] = n}
Members(r)   == {clients[r][i] : i \in IDs} \ {Nil}
NoClients    == [i \in IDs |-> Nil]

(* Every allocation takes an element of its pool that was never used.      *)
FreshRoom(r) == cred[r] = Nil
FreshConn(c) == at[c] = "new"

(* Hub.mu: deleteRoom holds it for writing over several steps,             *)
(* disconnectExisting and apiRelayToggle for reading.                      *)
CanRead  == hubLock # "write"
CanWrite == /\ hubLock = "free"
            /\ \A t \in Https : /\ at[t] = "wsDisc" => todo[t] = {}
                               /\ at[t] # "relayBcast"

Sendable(S) == \A c \in S : send[c] = "open"
Closed(S)   == [c \in Conns |-> IF c \in S THEN "closed" ELSE send[c]]

Goto(t, stage) == at' = [at EXCEPT ![t] = stage]

(* The goroutine drops its locals and goes on at stage.                    *)
Return(t, stage) ==
  /\ Goto(t, stage)
  /\ lroom' = [lroom EXCEPT ![t] = Nil]
  /\ lpeer' = [lpeer EXCEPT ![t] = Nil]
  /\ req'   = [req   EXCEPT ![t] = Nil]
  /\ todo'  = [todo  EXCEPT ![t] = {}]

(* &Room{...} stored in hub.rooms by getOrCreateRoom.                      *)
NewRoom(r, cr, own) ==
  /\ FreshRoom(r)
  /\ rooms'    = [rooms    EXCEPT ![roomKey(cr[1], cr[2])] = r]
  /\ cred'     = [cred     EXCEPT ![r] = cr]
  /\ owner'    = [owner    EXCEPT ![r] = own]
  /\ UNCHANGED <<clients, banned, locked, relayOff>>

-----------------------------------------------------------------------------
(* removeClientFromRoom, run by a reader on its own client (handleLeave)   *)
(* and by the hub on the client it received from unregister.               *)
Removers   == Conns \cup {"hub"}
Subject(t) == IF t = "hub" THEN lpeer[t] ELSE t
AfterRemove(t) ==
  IF t = "hub" THEN "idle" ELSE IF req[t] = Nil THEN "read" ELSE "find"

(* client.roomKey is set and hub.rooms maps it to a room.                  *)
HasRoom(c) == croom[c] # NoKey /\ rooms[croom[c]] # Nil

(* Mutant: handleJoin forgets to leave the room the client is in.          *)
MutBeginRemove(t, c, next) == Goto(t, next) /\ UNCHANGED lroom

(* The lookup of hub.rooms[client.roomKey]; without a room it returns and  *)
(* leaves client.roomKey as it is.                                         *)
BeginRemove(t, c, next) ==
  IF HasRoom(c)
  THEN /\ Goto(t, "remove")
       /\ lroom' = [lroom EXCEPT ![t] = rooms[croom[c]]]
  ELSE /\ Goto(t, next)
       /\ UNCHANGED lroom

EndRemove(t) ==
  /\ croom' = [croom EXCEPT ![Subject(t)] = NoKey]
  /\ Goto(t, AfterRemove(t))
  /\ lroom' = [lroom EXCEPT ![t] = Nil]
  /\ lpeer' = [lpeer EXCEPT ![t] = Nil]
  /\ UNCHANGED <<req, todo>>

(* Mutant: the room is only deleted when its owner is the last to leave.   *)
MutRemoveLockLastOwner(t) ==
  LET r    == lroom[t]
      id   == cid[Subject(t)]
      left == [clients[r] EXCEPT ![id] = Nil]
  IN /\ up /\ at[t] = "remove" /\ r \notin held
     /\ clients' = [clients EXCEPT ![r] = left]
     /\ Goto(t, IF owner[r] = id /\ left = NoClients THEN "delRoom"
                ELSE "removeBcast")
     /\ UNCHANGED <<rooms, croom, roomVars, connVars, linkVars, serverVars,
                    localVars>>

RemoveLock(t) ==
  LET r    == lroom[t]
      id   == cid[Subject(t)]
      left == [clients[r] EXCEPT ![id] = Nil]
  IN /\ up /\ at[t] = "remove" /\ r \notin held
     /\ clients' = [clients EXCEPT ![r] = left]
     /\ Goto(t, IF owner[r] = id THEN "closeAll"
                ELSE IF ~Persistent(r) /\ left = NoClients THEN "delRoom"
                ELSE "removeBcast")
     /\ UNCHANGED <<rooms, croom, roomVars, connVars, linkVars, serverVars,
                    localVars>>

(* Owner left: every remaining send channel is closed, the map emptied.    *)
CloseAll(t) ==
  LET r == lroom[t]
  IN /\ up /\ at[t] = "closeAll" /\ r \notin held /\ Sendable(Members(r))
     /\ send'    = Closed(Members(r))
     /\ clients' = [clients EXCEPT ![r] = NoClients]
     /\ Goto(t, "delRoom")
     /\ UNCHANGED <<rooms, croom, roomVars, connVars, sock, closers,
                    serverVars, localVars>>

(* delete(h.rooms, roomKey): by key, whatever room the key maps to by now. *)
DelRoom(t) ==
  /\ up /\ at[t] = "delRoom" /\ CanWrite
  /\ rooms' = [rooms EXCEPT ![Key(lroom[t])] = Nil]
  /\ EndRemove(t)
  /\ UNCHANGED <<clients, roomVars, connVars, linkVars, serverVars>>

RemoveBcast(t) ==
  /\ up /\ at[t] = "removeBcast" /\ lroom[t] \notin held
  /\ Sendable(Members(lroom[t]))
  /\ EndRemove(t)
  /\ UNCHANGED <<rooms, clients, roomVars, connVars, linkVars, serverVars>>

Remove(t) == RemoveLock(t) \/ CloseAll(t) \/ DelRoom(t) \/ RemoveBcast(t)

-----------------------------------------------------------------------------
(* Messages the reader of connection c handles.                            *)
Reading(c) == up /\ at[c] = "read" /\ sock[c] = "open"

Renamed(c, nm) == IF nm = Nil THEN cname ELSE [cname EXCEPT ![c] = nm]

(* handleJoin up to the room lookup of handleLeave.                        *)
JoinMsg(c, cr, nm) ==
  /\ Reading(c) /\ CanRead
  /\ cname' = Renamed(c, nm)
  /\ req' = [req EXCEPT ![c] = cr]
  /\ BeginRemove(c, c, "find")
  /\ UNCHANGED <<rooms, clients, croom, cid, unreg, reg, roomVars, linkVars,
                 serverVars, lpeer, todo>>

(* No room name, or joinLimiter refuses: the name is already taken over.   *)
JoinRefused(c, nm) ==
  /\ Reading(c) /\ send[c] = "open"
  /\ cname' = Renamed(c, nm)
  /\ UNCHANGED <<rooms, clients, croom, at, cid, unreg, reg, roomVars,
                 linkVars, serverVars, localVars>>

LeaveMsg(c) ==
  /\ Reading(c) /\ CanRead
  /\ BeginRemove(c, c, "read")
  /\ UNCHANGED <<rooms, clients, croom, roomVars, connVars, linkVars,
                 serverVars, lpeer, req, todo>>

(* findRoomByName: the room of that name and password, if there is one.    *)
Match(c) == {r \in InHub : cred[r] = req[c]}

JoinFind(c) ==
  /\ up /\ at[c] = "find" /\ CanRead
  /\ \E r \in Match(c) : lroom' = [lroom EXCEPT ![c] = r]
  /\ Goto(c, "check")
  /\ UNCHANGED <<rooms, clients, croom, roomVars, connVars, linkVars,
                 serverVars, lpeer, req, todo>>

JoinNotFound(c) ==
  /\ up /\ at[c] = "find" /\ CanRead
  /\ Match(c) = {} /\ Named(req[c][1]) = {}
  /\ Goto(c, "create")
  /\ UNCHANGED <<rooms, clients, croom, roomVars, connVars, linkVars,
                 serverVars, localVars>>

(* getOrCreateRoom with the client as owner                                *)
JoinCreate(c) ==
  /\ up /\ at[c] = "create" /\ CanWrite
  /\ rooms[roomKey(req[c][1], req[c][2])] = Nil
  /\ \E r \in RoomObjs : /\ NewRoom(r, req[c], cid[c])
                         /\ lroom' = [lroom EXCEPT ![c] = r]
  /\ Goto(c, "check")
  /\ UNCHANGED <<croom, connVars, linkVars, serverVars, lpeer, req, todo>>

JoinCreated(c) ==
  LET k == roomKey(req[c][1], req[c][2])
  IN /\ up /\ at[c] = "create" /\ CanWrite /\ rooms[k] # Nil
     /\ lroom' = [lroom EXCEPT ![c] = rooms[k]]
     /\ Goto(c, "check")
     /\ UNCHANGED <<rooms, clients, croom, roomVars, connVars, linkVars,
                    serverVars, lpeer, req, todo>>

(* IsBanned and Locked, then client.roomKey is set                         *)
Admitted(c) == cid[c] \notin banned[lroom[c]] /\ ~locked[lroom[c]]

(* Mutants: client.roomKey is not set; it is put together without the      *)
(* no-password case of roomKey.                                            *)
MutJoinCheckNoKey(c) ==
  /\ up /\ at[c] = "check" /\ lroom[c] \notin held /\ Admitted(c)
  /\ Goto(c, "insert")
  /\ UNCHANGED <<rooms, clients, croom, roomVars, connVars, linkVars,
                 serverVars, localVars>>

MutJoinCheckInline(c) ==
  /\ up /\ at[c] = "check" /\ lroom[c] \notin held /\ Admitted(c)
  /\ croom' = [croom EXCEPT ![c] = cred[lroom[c]][1] \o <<cred[lroom[c]][2]>>]
  /\ Goto(c, "insert")
  /\ UNCHANGED <<rooms, clients, roomVars, connVars, linkVars, serverVars,
                 localVars>>

JoinCheck(c) ==
  /\ up /\ at[c] = "check" /\ lroom[c] \notin held /\ Admitted(c)
  /\ croom' = [croom EXCEPT ![c] = Key(lroom[c])]
  /\ Goto(c, "insert")
  /\ UNCHANGED <<rooms, clients, roomVars, connVars, linkVars, serverVars,
                 localVars>>

(* The join ends with an error: wrong password, banned or locked room.     *)
Refused(c) ==
  \/ at[c] = "find" /\ CanRead /\ Match(c) = {} /\ Named(req[c][1]) # {}
  \/ at[c] = "check" /\ lroom[c] \notin held /\ ~Admitted(c)

JoinReject(c) ==
  /\ up /\ Refused(c) /\ send[c] = "open"
  /\ Return(c, "read")
  /\ UNCHANGED <<rooms, clients, croom, roomVars, connVars, linkVars,
                 serverVars>>

(* Members under another ID that carry the newcomer's friendly name.       *)
Stale(c, r) == {i \in IDs \ {cid[c]} : /\ clients[r][i] # Nil
                                       /\ cname[c] # Nil
                                       /\ cname[clients[r][i]] = cname[c]}

(* Under room.mu: same-name members leave the map, a goroutine closes each *)
JoinInsert(c) ==
  LET r   == lroom[c]
      old == {clients[r][i] : i \in Stale(c, r)}
  IN /\ up /\ at[c] = "insert" /\ r \notin held
     /\ \A o \in old : closers[o] < MaxClosers
     /\ clients' = [clients EXCEPT ![r] =
                      [i \in IDs |-> IF i = cid[c] THEN c
                                     ELSE IF i \in Stale(c, r) THEN Nil
                                     ELSE clients[r][i]]]
     /\ closers' = [o \in Conns |-> IF o \in old THEN closers[o] + 1
                                    ELSE closers[o]]
     /\ Goto(c, "joinBcast")
     /\ UNCHANGED <<rooms, croom, roomVars, connVars, send, sock, serverVars,
                    localVars>>

(* broadcastPeerList, then room_config to the newcomer if relay is off     *)
JoinTargets(c) ==
  Members(lroom[c]) \cup (IF relayOff[lroom[c]] \/ globalOff THEN {c} ELSE {})

JoinBcast(c) ==
  /\ up /\ at[c] = "joinBcast" /\ lroom[c] \notin held
  /\ Sendable(JoinTargets(c))
  /\ Return(c, "read")
  /\ UNCHANGED <<rooms, clients, croom, roomVars, connVars, linkVars,
                 serverVars>>

Join(c) == \/ JoinFind(c) \/ JoinNotFound(c) \/ JoinCreate(c) \/ JoinCreated(c)
           \/ JoinCheck(c) \/ JoinReject(c) \/ JoinInsert(c) \/ JoinBcast(c)

(* status_update: peer list to the room; stun_info: to the others.         *)
RoomMsg(c, kind) ==
  /\ Reading(c) /\ CanRead /\ HasRoom(c)
  /\ lroom' = [lroom EXCEPT ![c] = rooms[croom[c]]]
  /\ Goto(c, kind)
  /\ UNCHANGED <<rooms, clients, croom, roomVars, connVars, linkVars,
                 serverVars, lpeer, req, todo>>

RoomTargets(c) ==
  {clients[lroom[c]][i] :
     i \in IDs \ (IF at[c] = "bcastOthers" THEN {cid[c]} ELSE {})} \ {Nil}

RoomSend(c) ==
  /\ up /\ at[c] \in {"bcast", "bcastOthers"} /\ lroom[c] \notin held
  /\ Sendable(RoomTargets(c))
  /\ Return(c, "read")
  /\ UNCHANGED <<rooms, clients, croom, roomVars, connVars, linkVars,
                 serverVars>>

(* findClient returns some room's entry for the ID (map order is random).  *)
FindClient(i) == {clients[r][i] : r \in InHub} \ {Nil}

(* relay_data: sender and target are looked up by ID and must share a room;*)
(* bulk data is dropped while relaying is off.                             *)
RelayMsg(c, i, bulk) ==
  /\ Reading(c) /\ CanRead
  /\ \E s \in FindClient(cid[c]), p \in FindClient(i) :
       /\ croom[s] # NoKey /\ croom[s] = croom[p]
       /\ bulk => /\ ~globalOff
                  /\ rooms[croom[p]] # Nil => ~relayOff[rooms[croom[p]]]
       /\ lpeer' = [lpeer EXCEPT ![c] = p]
  /\ Goto(c, "relaySend")
  /\ UNCHANGED <<rooms, clients, croom, roomVars, connVars, linkVars,
                 serverVars, lroom, req, todo>>

(* forwardToTarget: offers, answers, tunnels and addressed stun_info.      *)
ForwardMsg(c, i) ==
  /\ Reading(c) /\ CanRead
  /\ \E p \in FindClient(i) : lpeer' = [lpeer EXCEPT ![c] = p]
  /\ Goto(c, "relaySend")
  /\ UNCHANGED <<rooms, clients, croom, roomVars, connVars, linkVars,
                 serverVars, lroom, req, todo>>

RelaySend(c) ==
  /\ up /\ at[c] = "relaySend" /\ send[lpeer[c]] = "open"
  /\ Return(c, "read")
  /\ UNCHANGED <<rooms, clients, croom, roomVars, connVars, linkVars,
                 serverVars>>

-----------------------------------------------------------------------------
(* The end of a connection.                                                *)

(* The peer closes, the network breaks, or the read deadline passes; only  *)
(* the reader notices, so the step is taken where it reads again.          *)
NetDrop(c) ==
  /\ Reading(c)
  /\ sock' = [sock EXCEPT ![c] = "closed"]
  /\ UNCHANGED <<rooms, clients, croom, at, roomVars, connVars, send, closers,
                 serverVars, localVars>>

(* writePump sees the closed channel and closes the socket.                *)
WriterExit(c) ==
  /\ Reading(c) /\ send[c] = "closed"
  /\ sock' = [sock EXCEPT ![c] = "closed"]
  /\ UNCHANGED <<rooms, clients, croom, at, roomVars, connVars, send, closers,
                 serverVars, localVars>>

(* Mutant: readPump returns without hub.unregister <- c.                   *)
MutReaderExit(c) ==
  /\ up /\ at[c] = "read" /\ sock[c] = "closed"
  /\ Goto(c, "exited")
  /\ UNCHANGED <<rooms, clients, croom, roomVars, connVars, linkVars,
                 serverVars, localVars>>

(* readPump's read fails: hub.unregister <- c, which waits while it is     *)
(* full, and readPump returns.                                             *)
ReaderExit(c) ==
  /\ up /\ at[c] = "read" /\ sock[c] = "closed" /\ Len(unreg) < ChanCap
  /\ unreg' = Append(unreg, c)
  /\ Goto(c, "exited")
  /\ UNCHANGED <<rooms, clients, croom, cid, cname, reg, roomVars, linkVars,
                 serverVars, localVars>>

(* hub.run takes c out of the channel and removes it from its room, if it  *)
(* has one.                                                                *)
Received(c) ==
  /\ up /\ at["hub"] = "idle" /\ unreg # <<>> /\ c = Head(unreg)
  /\ unreg' = Tail(unreg)

HubRecv(c) ==
  /\ Received(c) /\ CanRead /\ HasRoom(c)
  /\ Goto("hub", "remove")
  /\ lroom' = [lroom EXCEPT !["hub"] = rooms[croom[c]]]
  /\ lpeer' = [lpeer EXCEPT !["hub"] = c]
  /\ UNCHANGED <<rooms, clients, croom, cid, cname, reg, roomVars, linkVars,
                 serverVars, req, todo>>

HubRecvNoRoom(c) ==
  /\ Received(c) /\ CanRead /\ ~HasRoom(c)
  /\ UNCHANGED <<rooms, clients, croom, at, cid, cname, reg, roomVars,
                 linkVars, serverVars, localVars>>

(* hub.run takes a new connection out of hub.register.                     *)
HubRegistered ==
  /\ up /\ at["hub"] = "idle" /\ reg > 0
  /\ reg' = reg - 1
  /\ UNCHANGED <<rooms, clients, croom, at, cid, cname, unreg, roomVars,
                 linkVars, serverVars, localVars>>

(* Mutant: the decrement is missing.                                       *)
MutConnDone(c) ==
  /\ up /\ at[c] = "exited"
  /\ Goto(c, "done")
  /\ UNCHANGED <<rooms, clients, croom, roomVars, connVars, linkVars,
                 serverVars, localVars>>

(* After readPump returned: atomic.AddInt64(&activeConns, -1).             *)
ConnDone(c) ==
  /\ up /\ at[c] = "exited"
  /\ activeConns' = activeConns - 1
  /\ Goto(c, "done")
  /\ UNCHANGED <<rooms, clients, croom, roomVars, connVars, linkVars, up,
                 globalOff, held, hubLock, localVars>>

(* The goroutine handleJoin spawned for a same-name connection.            *)
CloseStale(c) ==
  /\ up /\ closers[c] > 0 /\ send[c] = "open"
  /\ send' = [send EXCEPT ![c] = "closed"]
  /\ sock' = [sock EXCEPT ![c] = "closed"]
  /\ closers' = [closers EXCEPT ![c] = @ - 1]
  /\ UNCHANGED <<rooms, clients, croom, at, roomVars, connVars, serverVars,
                 localVars>>

(* The sends and closes above, on a channel that is already closed.        *)
Panics(t) ==
  \/ /\ at[t] \in {"closeAll", "removeBcast"} /\ lroom[t] \notin held
     /\ ~Sendable(Members(lroom[t]))
  \/ /\ at[t] = "joinBcast" /\ lroom[t] \notin held
     /\ ~Sendable(JoinTargets(t))
  \/ /\ at[t] \in {"bcast", "bcastOthers"} /\ lroom[t] \notin held
     /\ ~Sendable(RoomTargets(t))
  \/ at[t] = "relaySend" /\ send[lpeer[t]] = "closed"
  \/ t \in Conns /\ send[t] = "closed" /\ (Refused(t) \/ Reading(t) \/ closers[t] > 0)

Crash(t) ==
  /\ up /\ Panics(t)
  /\ up' = FALSE
  /\ UNCHANGED <<rooms, clients, croom, at, roomVars, connVars, linkVars,
                 globalOff, activeConns, held, hubLock, localVars>>

-----------------------------------------------------------------------------
(* Mutant: the limit is off by one.                                        *)
MutWsCheck(t) ==
  /\ up /\ at[t] = "idle" /\ activeConns <= MaxConns
  /\ Cardinality({c \in Conns : FreshConn(c)}) >
       Cardinality({h \in Https : at[h] \in {"ws", "wsDisc"}})
  /\ Goto(t, "ws")
  /\ UNCHANGED <<rooms, clients, croom, roomVars, connVars, linkVars,
                 serverVars, localVars>>

(* serveWs: the limit is tested before the upgrade, counted after it.      *)
(* (Bound: a connection of the pool is left for this handler.)             *)
WsCheck(t) ==
  /\ up /\ at[t] = "idle" /\ activeConns < MaxConns
  /\ Cardinality({c \in Conns : FreshConn(c)}) >
       Cardinality({h \in Https : at[h] \in {"ws", "wsDisc"}})
  /\ Goto(t, "ws")
  /\ UNCHANGED <<rooms, clients, croom, roomVars, connVars, linkVars,
                 serverVars, localVars>>

WsUpgradeFail(t) ==
  /\ up /\ at[t] = "ws"
  /\ Goto(t, "idle")
  /\ UNCHANGED <<rooms, clients, croom, roomVars, connVars, linkVars,
                 serverVars, localVars>>

WsUpgrade(t, i) ==
  /\ up /\ at[t] = "ws" /\ CanRead
  /\ activeConns' = activeConns + 1
  /\ req'  = [req EXCEPT ![t] = i]
  /\ todo' = [todo EXCEPT ![t] = InHub]
  /\ Goto(t, "wsDisc")
  /\ UNCHANGED <<rooms, clients, croom, roomVars, connVars, linkVars, up,
                 globalOff, held, hubLock, lroom, lpeer>>

(* disconnectExisting, one room of its loop: nothing to do, or close and   *)
(* delete; a second close panics with room.mu locked (hub.mu is deferred). *)
Existing(t, r) == clients[r][req[t]]

WsSkip(t, r) ==
  /\ up /\ at[t] = "wsDisc" /\ r \in todo[t] \ held /\ Existing(t, r) = Nil
  /\ todo' = [todo EXCEPT ![t] = @ \ {r}]
  /\ UNCHANGED <<rooms, clients, croom, at, roomVars, connVars, linkVars,
                 serverVars, lroom, lpeer, req>>

WsDisconnect(t, r) ==
  LET old == Existing(t, r)
  IN /\ up /\ at[t] = "wsDisc" /\ r \in todo[t] \ held
     /\ old # Nil /\ send[old] = "open"
     /\ send'    = [send EXCEPT ![old] = "closed"]
     /\ sock'    = [sock EXCEPT ![old] = "closed"]
     /\ clients' = [clients EXCEPT ![r] = [@ EXCEPT ![req[t]] = Nil]]
     /\ todo'    = [todo EXCEPT ![t] = @ \ {r}]
     /\ UNCHANGED <<rooms, croom, at, roomVars, connVars, closers, serverVars,
                    lroom, lpeer, req>>

WsPanic(t, r) ==
  /\ up /\ at[t] = "wsDisc" /\ r \in todo[t] \ held
  /\ Existing(t, r) # Nil /\ send[Existing(t, r)] = "closed"
  /\ held' = held \cup {r}
  /\ Return(t, "idle")
  /\ UNCHANGED <<rooms, clients, croom, roomVars, connVars, linkVars, up,
                 globalOff, activeConns, hubLock>>

(* hub.register <- client, which waits while it is full; its pumps start.  *)
WsRegister(t, c) ==
  /\ up /\ at[t] = "wsDisc" /\ todo[t] = {} /\ reg < ChanCap
  /\ FreshConn(c)
  /\ reg'   = reg + 1
  /\ cid'   = [cid   EXCEPT ![c] = req[t]]
  /\ send'  = [send  EXCEPT ![c] = "open"]
  /\ sock'  = [sock  EXCEPT ![c] = "open"]
  /\ at'    = [at EXCEPT ![t] = "idle", ![c] = "read"]
  /\ req'   = [req EXCEPT ![t] = Nil]
  /\ UNCHANGED <<rooms, clients, croom, cname, unreg, roomVars, closers,
                 serverVars, lroom, lpeer, todo>>

-----------------------------------------------------------------------------
(* Dashboard handlers.  The room is looked up by display name: any match.  *)
AdminFind(t, op, n, i) ==
  /\ up /\ at[t] = "idle" /\ CanRead
  /\ \E r \in Named(n) : lroom' = [lroom EXCEPT ![t] = r]
  /\ req' = [req EXCEPT ![t] = i]
  /\ Goto(t, op)
  /\ UNCHANGED <<rooms, clients, croom, roomVars, connVars, linkVars,
                 serverVars, lpeer, todo>>

(* banClient: blacklist, then close the member's channel if there is one;  *)
(* the member stays in room.Clients and its socket stays open.             *)
BanLock(t) ==
  LET p == clients[lroom[t]][req[t]]
  IN /\ up /\ at[t] = "ban" /\ lroom[t] \notin held /\ p # Nil
     /\ banned' = [banned EXCEPT ![lroom[t]] = @ \cup {req[t]}]
     /\ lpeer'  = [lpeer EXCEPT ![t] = p]
     /\ Goto(t, "banClose")
     /\ UNCHANGED <<rooms, clients, croom, cred, owner, locked, relayOff,
                    connVars, linkVars, serverVars, lroom, req, todo>>

BanAbsent(t) ==
  /\ up /\ at[t] = "ban" /\ lroom[t] \notin held
  /\ clients[lroom[t]][req[t]] = Nil
  /\ banned' = [banned EXCEPT ![lroom[t]] = @ \cup {req[t]}]
  /\ Return(t, "idle")
  /\ UNCHANGED <<rooms, clients, croom, cred, owner, locked, relayOff,
                 connVars, linkVars, serverVars>>

(* A panic on a closed channel is recovered and leaves no lock behind.     *)
BanClose(t) ==
  /\ up /\ at[t] = "banClose"
  /\ send' = [send EXCEPT ![lpeer[t]] = "closed"]
  /\ Return(t, "idle")
  /\ UNCHANGED <<rooms, clients, croom, roomVars, connVars, sock, closers,
                 serverVars>>

(* kickClient                                                              *)
KickLock(t) ==
  LET p == clients[lroom[t]][req[t]]
  IN /\ up /\ at[t] = "kick" /\ lroom[t] \notin held /\ p # Nil
     /\ clients' = [clients EXCEPT ![lroom[t]] = [@ EXCEPT ![req[t]] = Nil]]
     /\ lpeer'   = [lpeer EXCEPT ![t] = p]
     /\ Goto(t, "kickClose")
     /\ UNCHANGED <<rooms, croom, roomVars, connVars, linkVars, serverVars,
                    lroom, req, todo>>

KickClose(t) ==
  /\ up /\ at[t] = "kickClose" /\ send[lpeer[t]] = "open"
  /\ send' = [send EXCEPT ![lpeer[t]] = "closed"]
  /\ Goto(t, "kickBcast")
  /\ UNCHANGED <<rooms, clients, croom, roomVars, connVars, sock, closers,
                 serverVars, localVars>>

(* Nobody to kick, or a second close, whose panic leaves no lock behind.   *)
KickEnd(t) ==
  /\ up
  /\ \/ /\ at[t] = "kick" /\ lroom[t] \notin held
        /\ clients[lroom[t]][req[t]] = Nil
     \/ at[t] = "kickClose" /\ send[lpeer[t]] = "closed"
  /\ Return(t, "idle")
  /\ UNCHANGED <<rooms, clients, croom, roomVars, connVars, linkVars,
                 serverVars>>

(* conn.Close() and broadcastPeerList; its locks are deferred.             *)
KickBcast(t) ==
  /\ up /\ at[t] = "kickBcast" /\ lroom[t] \notin held
  /\ sock' = [sock EXCEPT ![lpeer[t]] = "closed"]
  /\ Return(t, "idle")
  /\ UNCHANGED <<rooms, clients, croom, roomVars, connVars, send, closers,
                 serverVars>>

(* unbanClient                                                             *)
UnbanLock(t) ==
  /\ up /\ at[t] = "unban" /\ lroom[t] \notin held
  /\ banned' = [banned EXCEPT ![lroom[t]] = @ \ {req[t]}]
  /\ Return(t, "idle")
  /\ UNCHANGED <<rooms, clients, croom, cred, owner, locked, relayOff,
                 connVars, linkVars, serverVars>>

(* deleteRoom holds hub.mu while it visits every room of that name.        *)
DeleteLock(t, n) ==
  /\ up /\ "delete" \in Ops /\ at[t] = "idle" /\ CanWrite /\ Named(n) # {}
  /\ hubLock' = "write"
  /\ req'  = [req EXCEPT ![t] = n]
  /\ todo' = [todo EXCEPT ![t] = Named(n)]
  /\ Goto(t, "delete")
  /\ UNCHANGED <<rooms, clients, croom, roomVars, connVars, linkVars, up,
                 globalOff, activeConns, held, lroom, lpeer>>

DeleteClose(t, r) ==
  /\ up /\ at[t] = "delete" /\ r \in todo[t] \ held /\ Sendable(Members(r))
  /\ send' = Closed(Members(r))
  /\ todo' = [todo EXCEPT ![t] = @ \ {r}]
  /\ UNCHANGED <<rooms, clients, croom, at, roomVars, connVars, sock, closers,
                 serverVars, lroom, lpeer, req>>

(* A second close panics with hub.mu and room.mu locked.                   *)
DeletePanic(t, r) ==
  /\ up /\ at[t] = "delete" /\ r \in todo[t] \ held /\ ~Sendable(Members(r))
  /\ held' = held \cup {r}
  /\ Return(t, "idle")
  /\ UNCHANGED <<rooms, clients, croom, roomVars, connVars, linkVars, up,
                 globalOff, activeConns, hubLock>>

DeleteRooms(t) ==
  /\ up /\ at[t] = "delete" /\ todo[t] = {}
  /\ rooms' = [k \in Keys |-> IF rooms[k] \in Named(req[t]) THEN Nil
                              ELSE rooms[k]]
  /\ hubLock' = "free"
  /\ Return(t, "idle")
  /\ UNCHANGED <<clients, croom, roomVars, connVars, linkVars, up, globalOff,
                 activeConns, held>>

(* POST /api/rooms: getOrCreateRoom without an owner.                      *)
CreateRoom(cr) ==
  /\ up /\ "create" \in Ops /\ CanWrite
  /\ rooms[roomKey(cr[1], cr[2])] = Nil
  /\ \E r \in RoomObjs : NewRoom(r, cr, Nil)
  /\ UNCHANGED <<croom, at, connVars, linkVars, serverVars, localVars>>

(* apiLockToggle                                                           *)
LockToggle(n, b) ==
  /\ up /\ "lock" \in Ops /\ CanRead
  /\ \E r \in Named(n) \ held : locked' = [locked EXCEPT ![r] = b]
  /\ UNCHANGED <<rooms, clients, croom, at, cred, owner, banned, relayOff,
                 connVars, linkVars, serverVars, localVars>>

(* apiRelayToggle, for a room: the flag, then the notice to its members,   *)
(* all under hub.mu; a panic of the broadcast leaves it read-locked.       *)
RelayLock(t, n, b) ==
  /\ up /\ "relay" \in Ops /\ at[t] = "idle" /\ CanRead
  /\ \E r \in Named(n) \ held :
       /\ relayOff' = [relayOff EXCEPT ![r] = b]
       /\ lroom' = [lroom EXCEPT ![t] = r]
  /\ Goto(t, "relayBcast")
  /\ UNCHANGED <<rooms, clients, croom, cred, owner, banned, locked, connVars,
                 linkVars, serverVars, lpeer, req, todo>>

RelayBcast(t) ==
  /\ up /\ at[t] = "relayBcast" /\ lroom[t] \notin held
  /\ hubLock' = IF Sendable(Members(lroom[t])) THEN hubLock ELSE "read"
  /\ Return(t, "idle")
  /\ UNCHANGED <<rooms, clients, croom, roomVars, connVars, linkVars, up,
                 globalOff, activeConns, held>>

(* apiRelayToggle without a room name                                      *)
GlobalRelayToggle(b) ==
  /\ up /\ "relay" \in Ops
  /\ globalOff' = b
  /\ UNCHANGED <<rooms, clients, croom, at, roomVars, connVars, linkVars, up,
                 activeConns, held, hubLock, localVars>>

-----------------------------------------------------------------------------
(* newHub with an empty store: no allocation yet.                          *)
Init ==
  /\ up = TRUE /\ globalOff = FALSE /\ activeConns = 0
  /\ held = {} /\ hubLock = "free"
  /\ rooms    = [k \in Keys |-> Nil]
  /\ cred     = [r \in RoomObjs |-> Nil]
  /\ owner    = [r \in RoomObjs |-> Nil]
  /\ clients  = [r \in RoomObjs |-> NoClients]
  /\ banned   = [r \in RoomObjs |-> {}]
  /\ locked   = [r \in RoomObjs |-> FALSE]
  /\ relayOff = [r \in RoomObjs |-> FALSE]
  /\ cid      = [c \in Conns |-> Nil]
  /\ cname    = [c \in Conns |-> Nil]
  /\ croom    = [c \in Conns |-> NoKey]
  /\ send     = [c \in Conns |-> "closed"]
  /\ sock     = [c \in Conns |-> "closed"]
  /\ closers  = [c \in Conns |-> 0]
  /\ unreg = <<>> /\ reg = 0
  /\ at       = [t \in Threads |-> IF t \in Conns THEN "new" ELSE "idle"]
  /\ lroom    = [t \in Threads |-> Nil]
  /\ lpeer    = [t \in Threads |-> Nil]
  /\ req      = [t \in Threads |-> Nil]
  /\ todo     = [t \in Threads |-> {}]

(* The steps of a handler a reader has entered.                            *)
Handler(c) == Remove(c) \/ Join(c) \/ RoomSend(c) \/ RelaySend(c)

Message(c) ==
  \/ \E cr \in Creds, nm \in Names \cup {Nil} : JoinMsg(c, cr, nm)
  \/ \E nm \in Names \cup {Nil} : JoinRefused(c, nm)
  \/ "leave" \in Ops /\ LeaveMsg(c)
  \/ \E kind \in {"bcast", "bcastOthers"} \cap Ops : RoomMsg(c, kind)
  \/ "data" \in Ops /\ \E i \in IDs, bulk \in BOOLEAN : RelayMsg(c, i, bulk)
  \/ "data" \in Ops /\ \E i \in IDs : ForwardMsg(c, i)

Connection(c) ==
  \/ Message(c) \/ Handler(c)
  \/ NetDrop(c) \/ WriterExit(c) \/ ReaderExit(c)
  \/ HubRecv(c) \/ HubRecvNoRoom(c) \/ ConnDone(c) \/ CloseStale(c)

WsLoop(t) ==
  \E r \in RoomObjs : WsSkip(t, r) \/ WsDisconnect(t, r) \/ WsPanic(t, r)

ServeWs(t) ==
  \/ WsCheck(t) \/ WsUpgradeFail(t)
  \/ \E i \in IDs : WsUpgrade(t, i)
  \/ WsLoop(t)
  \/ \E c \in Conns : WsRegister(t, c)

(* The steps of a dashboard handler that was entered.                      *)
AdminStep(t) ==
  \/ BanLock(t) \/ BanAbsent(t) \/ BanClose(t)
  \/ KickLock(t) \/ KickClose(t) \/ KickBcast(t) \/ KickEnd(t)
  \/ UnbanLock(t)
  \/ \E r \in RoomObjs : DeleteClose(t, r) \/ DeletePanic(t, r)
  \/ DeleteRooms(t) \/ RelayBcast(t)

Admin(t) ==
  \/ \E op \in {"ban", "kick", "unban"} \cap Ops, n \in RoomNames, i \in IDs :
       AdminFind(t, op, n, i)
  \/ \E n \in RoomNames : DeleteLock(t, n)
  \/ \E n \in RoomNames, b \in BOOLEAN : RelayLock(t, n, b)
  \/ AdminStep(t)

Dashboard ==
  \/ \E cr \in Creds : CreateRoom(cr)
  \/ \E n \in RoomNames, b \in BOOLEAN : LockToggle(n, b)
  \/ \E b \in BOOLEAN : GlobalRelayToggle(b)

Next ==
  \/ \E c \in Conns : Connection(c)
  \/ Remove("hub") \/ HubRegistered
  \/ \E t \in Removers : Crash(t)
  \/ \E t \in Https : ServeWs(t) \/ Admin(t)
  \/ Dashboard

Spec == Init /\ [][Next]_vars

(* The Go scheduler runs every goroutine that can run: a reader inside a   *)
(* handler, a reader whose read failed, the hub, and an HTTP handler that  *)
(* was entered.  Nothing is assumed about clients, the network, or the     *)
(* dashboard, nor about the goroutines the properties do not need.         *)
Fairness ==
  /\ \A c \in Conns : /\ WF_vars(Handler(c) \/ (at[c] # "read" /\ Crash(c)))
                      /\ WF_vars(ReaderExit(c))
  /\ WF_vars(\E c \in Conns : HubRecv(c) \/ HubRecvNoRoom(c))
  /\ WF_vars(Remove("hub") \/ Crash("hub"))
  /\ \A t \in Https : WF_vars(WsLoop(t)) /\ WF_vars(AdminStep(t))

FairSpec == Spec /\ Fairness

-----------------------------------------------------------------------------
(* Every variable ranges over the values its Go counterpart can hold.      *)
RoomTypes ==
  /\ held \subseteq RoomObjs /\ hubLock \in {"free", "read", "write"}
  /\ rooms \in [Keys -> RoomObjs \cup {Nil}]
  /\ cred \in [RoomObjs -> Creds \cup {Nil}]
  /\ owner \in [RoomObjs -> IDs \cup {Nil}]
  /\ clients \in [RoomObjs -> [IDs -> Conns \cup {Nil}]]
  /\ banned \in [RoomObjs -> SUBSET IDs]
  /\ locked \in [RoomObjs -> BOOLEAN]
  /\ relayOff \in [RoomObjs -> BOOLEAN]

ConnTypes ==
  /\ up \in BOOLEAN /\ globalOff \in BOOLEAN /\ activeConns \in Int
  /\ cid \in [Conns -> IDs \cup {Nil}]
  /\ cname \in [Conns -> Names \cup {Nil}]
  /\ croom \in [Conns -> Keys \cup {NoKey}]
  /\ send \in [Conns -> {"open", "closed"}]
  /\ sock \in [Conns -> {"open", "closed"}]
  /\ closers \in [Conns -> 0 .. MaxClosers]
  /\ unreg \in Seq(Conns) /\ Len(unreg) <= ChanCap /\ reg \in 0 .. ChanCap

ThreadTypes ==
  /\ at \in [Threads -> ReaderStages \cup HubStages \cup HttpStages]
  /\ lroom \in [Threads -> RoomObjs \cup {Nil}]
  /\ lpeer \in [Threads -> Conns \cup {Nil}]
  /\ req \in [Threads -> Creds \cup IDs \cup RoomNames \cup {Nil}]
  /\ todo \in [Threads -> SUBSET RoomObjs]

TypeOK == RoomTypes /\ ConnTypes /\ ThreadTypes

(* A connection listed in a registered room carries that room's key and    *)
(* the ID it is listed under, so removeClientFromRoom, which looks the     *)
(* room up by client.roomKey and deletes by client.id, always finds it.    *)
MemberKey ==
  \A k \in Keys, i \in IDs : 
     rooms[k] # Nil /\ clients[rooms[k]][i] # Nil =>
        /\ cid[clients[rooms[k]][i]] = i
        /\ croom[clients[rooms[k]][i]] = k

Listed(c) == \E r \in InHub : c \in Members(r)

(* In hub.unregister, or in the hub's hands.                               *)
Queue      == {unreg[j] : j \in 1 .. Len(unreg)}
Pending(c) == c \in Queue \/ lpeer["hub"] = c

(* Once the hub has dealt with a connection that ended, no registered room *)
(* lists it: readPump's one unregister is enough, whatever joins, kicks,   *)
(* reconnects and room deletions overlapped with it.                       *)
GhostFree ==
  \A c \in Conns : at[c] \in {"exited", "done"} /\ ~Pending(c) => ~Listed(c)

Live      == {c \in Conns : at[c] \notin {"new", "done"}}
Upgrading == {t \in Https : at[t] = "ws"}
Opening   == {t \in Https : at[t] = "wsDisc"}

(* activeConns counts the running readers and the handlers between upgrade *)
(* and registration exactly, unless a panic of disconnectExisting (which   *)
(* leaves a room locked) lost the decrement; it is never below the truth.  *)
ConnAccounting ==
  LET running == Cardinality(Live) + Cardinality(Opening)
  IN activeConns >= running /\ (held = {} => activeConns = running)

(* The limit is tested before the upgrade and counted after it, so it can  *)
(* be overshot, but only by the handlers that run at the same moment.      *)
ConnBound ==
  Cardinality(Live) + Cardinality(Opening) + Cardinality(Upgrading)
     <= MaxConns + Cardinality(Https) - 1

(* A connection whose socket is gone does not stay listed in a room: its   *)
(* reader ends, the hub receives it and removes it (unless a panic ended   *)
(* the process or left a room mutex locked).                               *)
NoGhost ==
  \A c \in Conns : (Listed(c) /\ sock[c] = "closed") ~>
                      (~Listed(c) \/ ~up \/ held # {})

(* A client-created room does not stay registered without members: the     *)
(* last one to leave removes it (removeClientFromRoom).                    *)
Deserted(k) ==
  rooms[k] # Nil /\ ~Persistent(rooms[k]) /\ Members(rooms[k]) = {}
NoEmptyRoomLeak ==
  \A k \in Keys : Deserted(k) ~> (~Deserted(k) \/ ~up \/ held # {})

-----------------------------------------------------------------------------
(* What comments of the code say and the code does not do (each refuted by *)
(* a run).                                                                 *)

(* disconnectExisting: "same machine reconnects, old connection is stale". *)
(* The hub's removal of a connection that ended unlists no other one.      *)
ReconnectKeepsNew ==
  [][at["hub"] = "remove" /\ at'["hub"] # "remove" =>
       \A c \in Conns \ {lpeer["hub"]} : Listed(c) => Listed(c)']_vars
=============================================================================
