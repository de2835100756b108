-------------------------------- MODULE Tun --------------------------------
(***************************************************************************)
(* VPN sessions (client/core/tun.go) and the peer list that keeps them     *)
(* alive (handlePeerList in client.go).                                    *)
(*                                                                         *)
(* StartTun picks a virtual address, sends tun_setup through the server    *)
(* and waits up to 60 s for tun_ack; the peer's handleTunSetup creates a   *)
(* responder device and answers.  A device lives in tunDevices, one per    *)
(* peer, until StopTun, a tun_teardown, or the peer's absence for 5 s; in  *)
(* that last case an initiator saves its configuration and starts again    *)
(* when the peer is back.  A client reads one message at a time from its   *)
(* websocket; what is in the queue is lost with the connection.            *)
(*                                                                         *)
(* Client IDs are stable (they come from the machine) and names differ, so *)
(* a peer is found again under its ID.                                     *)
(***************************************************************************)
EXTENDS Integers, Sequences, FiniteSets

CONSTANTS Clients,   \* clients in one room
          Octet,     \* the last byte of a client's virtual addresses
          Cases      \* what users and the network may do (see Case)

(* Each tuple happens at most once: the user of the first client starts a  *)
(* VPN with the second (and again), stops it or adds a route to it; a      *)
(* client loses its connection ("drop"), forbids incoming VPNs ("deny") or *)
(* disconnects ("quit").  noroot: clients that cannot create interfaces;   *)
(* room: those that take part.                                             *)
Op   == {"start", "again", "stop", "routes", "drop", "deny", "quit"}
Case == [ops : SUBSET (Op \X Clients \X Clients), noroot : SUBSET Clients,
         room : SUBSET Clients]

ASSUME TunAssumption ==
  /\ IsFiniteSet(Clients)
  /\ Cardinality(Clients) <= 255    \* the indices of nextVPNIndex do not run out
  /\ Octet \in [Clients -> 2 .. 253]
  /\ Cases \subseteq Case

Index  == 0 .. Cardinality(Clients)        \* third byte: 10.7.index.octet
IP     == (Index \X (2 .. 253)) \cup {<<>>}
Routes == {"lan", "more"}
By     == {"user", "auto"}             \* who called StartTun
Iface  == Nat \ {0}

(* TunDevice; role "none": no entry, "": inserted, role not yet assigned.  *)
TunDevice == [role : {"none", "", "initiator", "responder"},
              iface : Iface \cup {0}, ip : IP, peerIP : IP,
              routes : SUBSET Routes]
NoDev == [role |-> "none", iface |-> 0, ip |-> <<>>, peerIP |-> <<>>,
          routes |-> {}]

(* A running StartTun: asleep before an automatic restore, waiting for the *)
(* ack in its channel, or about to set the role of its device.             *)
Start   == [at : {"idle", "sleep", "wait", "role"}, ip : IP, ack : IP,
            routes : SUBSET Routes]
NoStart == [at |-> "idle", ip |-> <<>>, ack |-> <<>>, routes |-> {}]

Message == [type : {"tun_setup", "tun_ack", "tun_teardown"}, from : Clients,
            ip : IP, routes : SUBSET Routes]
           \cup [type : {"peer_list"}, peers : SUBSET Clients]

VARIABLES
  case,      \* the case of this behaviour
  todo,      \* operations left
  up,        \* connected and in the room
  over,      \* Disconnect was called
  allow,     \* AllowVPN
  inbox,     \* messages on their way from the server
  peers,     \* c.peers
  pending,   \* c.pendingLeaves
  acting,    \* leave timers that found the peer gone and act on it
  stuck,     \* clients whose read loop waits for a lock it holds itself
  saved,     \* c.vpnRestoreConfigs: the routes, {} for none
  dev,       \* c.tunDevices
  open,      \* TUN interfaces of the operating system
  start,     \* running StartTun calls
  ackCh      \* c.tunAckChs: whose channel is registered

roomVars == <<up, over, allow, peers, pending, acting, stuck>>
tunVars  == <<saved, dev, open, start, ackCh>>
vars     == <<case, todo, roomVars, inbox, tunVars>>

(* The value v for every pair of clients.                                  *)
Pairs(v) == [c \in Clients |-> [d \in Clients |-> v]]

Init ==
  /\ case \in Cases
  /\ todo = case.ops
  /\ up = [c \in Clients |-> c \in case.room]
  /\ over = [c \in Clients |-> c \notin case.room]
  /\ allow = [c \in Clients |-> TRUE]
  /\ inbox = [c \in Clients |-> <<>>]
  /\ peers = [c \in Clients |-> case.room]
  /\ pending = [c \in Clients |-> {}]
  /\ acting = [c \in Clients |-> {}]
  /\ stuck = {}
  /\ saved = Pairs({})
  /\ dev = Pairs(NoDev)
  /\ open = [c \in Clients |-> {}]
  /\ start = Pairs([w \in By |-> NoStart])
  /\ ackCh = Pairs("none")

-----------------------------------------------------------------------------
(* Messages.                                                               *)

Msg(t, c, ip, routes) == [type |-> t, from |-> c, ip |-> ip, routes |-> routes]

(* sendRelay: the server drops what is not for a member of the room.       *)
Relay(box, c, d, m) ==
  IF up[c] /\ up[d] THEN [box EXCEPT ![d] = Append(@, m)] ELSE box

(* broadcastPeerList to the members.                                       *)
Broadcast(box, members) ==
  [c \in Clients |-> IF c \in members
                     THEN Append(box[c], [type |-> "peer_list", peers |-> members])
                     ELSE <<>>]

Members == {c \in Clients : up[c]}

(* The read loop of c takes a message of type t from the queue.            *)
Reads(c, t) == /\ up[c] /\ c \notin stuck
               /\ inbox[c] # <<>> /\ Head(inbox[c]).type = t

Taken(c) == [inbox EXCEPT ![c] = Tail(@)]

(* 5 s, the time of a leave timer and of a restore goroutine, outlast the  *)
(* handling of a peer list that is in the queue and a timer's callback.    *)
ListWaits(c) == \E i \in DOMAIN inbox[c] : inbox[c][i].type = "peer_list"

(* The user's operations send, and sending needs peerConnsMu.              *)
Does(op, c, d) ==
  c \notin stuck /\ <<op, c, d>> \in todo /\ todo' = todo \ {<<op, c, d>>}

-----------------------------------------------------------------------------
(* Addresses and devices.                                                  *)

(* Mutant: the count of devices instead of the first free index.           *)
MutNextVPNIndex(c) == Cardinality({d \in Clients : dev[c][d].role # "none"})

nextVPNIndex(c) ==
  CHOOSE i \in Index :
    /\ \A d \in Clients : dev[c][d].role # "none" => dev[c][d].ip[1] # i
    /\ \A j \in 0 .. i - 1 :
         \E d \in Clients : dev[c][d].role # "none" /\ dev[c][d].ip[1] = j

allocVirtualIP(c) == <<nextVPNIndex(c), Octet[c]>>

(* Mutant: the byte does not wrap.                                         *)
MutResponder(c, peerIP) ==
  LET ip == allocVirtualIP(c)
  IN  IF ip # peerIP THEN ip ELSE <<ip[1], ip[2] + 1>>

(* The responder's address: not the one the initiator has.                 *)
Responder(c, peerIP) ==
  LET ip == allocVirtualIP(c)
  IN  IF ip # peerIP THEN ip
      ELSE <<ip[1], IF ip[2] + 1 > 253 THEN 2 ELSE ip[2] + 1>>

(* The operating system has interfaces enough: one that is not in use.     *)
NewIface(c) == CHOOSE i \in 1 .. Cardinality(open[c]) + 1 : i \notin open[c]

createTunDevice(c, role, ip, peerIP, routes) ==
  [role |-> role, iface |-> NewIface(c), ip |-> ip, peerIP |-> peerIP,
   routes |-> routes]

(* The device of c for d leaves the table, then its interface is closed.   *)
CloseDev(c, d) ==
  /\ dev' = [dev EXCEPT ![c][d] = NoDev]
  /\ open' = [open EXCEPT ![c] = @ \ {dev[c][d].iface}]

Has(c, d) == dev[c][d].role # "none"

(* A packet that c's read loop takes from its interface is handled by a    *)
(* device of d: handleTunData drops what comes from a peer without one.    *)
Carries(c, d) == Has(c, d) /\ Has(d, c)

-----------------------------------------------------------------------------
(* Starting.                                                               *)

(* StartTun up to the wait.  A VPN that exists is left alone: its routes   *)
(* are all there (see addRoutesToExistingTun for new ones).                *)
StartTun(c, d, w, routes) ==
  IF d \notin peers[c] \/ Has(c, d) \/ ~up[c]
  THEN /\ start' = [start EXCEPT ![c][d][w] = NoStart]
       /\ UNCHANGED <<inbox, ackCh>>
  ELSE LET ip == allocVirtualIP(c)
       IN  /\ start' = [start EXCEPT ![c][d][w] =
                          [at |-> "wait", ip |-> ip, ack |-> <<>>,
                           routes |-> routes]]
           /\ ackCh' = [ackCh EXCEPT ![c][d] = w]
           /\ inbox' = Relay(inbox, c, d, Msg("tun_setup", c, ip, routes))

userStart(c, d) ==
  /\ ~over[c] /\ start[c][d]["user"].at = "idle"
  /\ Does("start", c, d) \/ Does("again", c, d)
  /\ StartTun(c, d, "user", {"lan"})
  /\ UNCHANGED <<case, roomVars, saved, dev, open>>

(* The restore goroutine of handlePeerList after its 5 s of sleep.         *)
autoRestore(c, d) ==
  /\ start[c][d]["auto"].at = "sleep" /\ c \notin stuck
  /\ d \notin acting[c] /\ c \notin acting[d] /\ ~ListWaits(d)
  /\ StartTun(c, d, "auto", start[c][d]["auto"].routes)
  /\ UNCHANGED <<case, todo, roomVars, saved, dev, open>>

(* The ack has come: create the device and enter it, whatever is there.    *)
StartTunAcked(c, d, w) ==
  LET s == start[c][d][w]
  IN  /\ s.at = "wait" /\ s.ack # <<>>
      /\ IF c \in case.noroot
         THEN /\ start' = [start EXCEPT ![c][d][w] = NoStart]
              /\ UNCHANGED <<dev, open>>
         ELSE /\ dev' = [dev EXCEPT ![c][d] =
                           createTunDevice(c, "", s.ip, s.ack, s.routes)]
              /\ open' = [open EXCEPT ![c] = @ \cup {NewIface(c)}]
              /\ start' = [start EXCEPT ![c][d][w] =
                             [NoStart EXCEPT !.at = "role"]]
      /\ UNCHANGED <<case, todo, roomVars, inbox, saved, ackCh>>

(* The last lines of StartTun: the role is set without a lock.             *)
StartTunRole(c, d, w) ==
  /\ start[c][d][w].at = "role"
  /\ start' = [start EXCEPT ![c][d][w] = NoStart]
  /\ dev' = IF dev[c][d].role = "" THEN [dev EXCEPT ![c][d].role = "initiator"]
            ELSE dev
  /\ UNCHANGED <<case, todo, roomVars, inbox, saved, open, ackCh>>

(* 60 s without an ack, or c.done.  An ack that is still to come comes     *)
(* within 60 s.                                                            *)
AnswerComing(c, d) ==
  LET Coming(e, t, f) == \E i \in DOMAIN inbox[e] :
                           inbox[e][i].type = t /\ inbox[e][i].from = f
  IN  Coming(d, "tun_setup", c) \/ Coming(c, "tun_ack", d)

StartTunTimeout(c, d, w) ==
  /\ start[c][d][w].at = "wait" /\ start[c][d][w].ack = <<>>
  /\ over[c] \/ ~AnswerComing(c, d)
  /\ start' = [start EXCEPT ![c][d][w] = NoStart]
  /\ UNCHANGED <<case, todo, roomVars, inbox, saved, dev, open, ackCh>>

addRoutesToExistingTun(c, d) ==
  /\ d \in peers[c] /\ Has(c, d) /\ dev[c][d].role # "responder"
  /\ Does("routes", c, d)
  /\ dev' = [dev EXCEPT ![c][d].routes = @ \cup {"more"}]
  /\ inbox' = Relay(inbox, c, d, Msg("tun_setup", c, dev[c][d].ip, {"more"}))
  /\ UNCHANGED <<case, roomVars, saved, open, start, ackCh>>

-----------------------------------------------------------------------------
(* The handlers of the read loop.                                          *)

(* A device in the table is alive (see TableIsOpen): the branch that       *)
(* replaces a dead responder never runs.                                   *)
handleTunSetup(c) ==
  /\ Reads(c, "tun_setup")
  /\ LET m == Head(inbox[c])
         d == m.from
         ip == Responder(c, m.ip)
         Answers(t, a) == inbox' = Relay(Taken(c), c, d, Msg(t, c, a, {}))
         Ignores == inbox' = Taken(c) /\ UNCHANGED <<dev, open>>
     IN  \/ /\ ~allow[c]
            /\ Answers("tun_teardown", <<>>)
            /\ UNCHANGED <<dev, open>>
         \/ /\ allow[c] /\ dev[c][d].role = "initiator"
            /\ Ignores
         \/ /\ allow[c] /\ dev[c][d].role \in {"", "responder"}
            /\ Answers("tun_ack", dev[c][d].ip)
            /\ UNCHANGED <<dev, open>>
         \/ /\ allow[c] /\ ~Has(c, d) /\ c \in case.noroot
            /\ Ignores
         \/ /\ allow[c] /\ ~Has(c, d) /\ c \notin case.noroot
            /\ dev' = [dev EXCEPT ![c][d] =
                         createTunDevice(c, "responder", ip, m.ip, m.routes)]
            /\ open' = [open EXCEPT ![c] = @ \cup {NewIface(c)}]
            /\ Answers("tun_ack", ip)
  /\ UNCHANGED <<case, todo, roomVars, saved, start, ackCh>>

(* The channel has room for one ack, and only the last StartTun has it.    *)
handleTunAck(c) ==
  /\ Reads(c, "tun_ack")
  /\ inbox' = Taken(c)
  /\ LET m == Head(inbox[c])
         w == ackCh[c][m.from]
     IN  start' = IF w = "none" \/ start[c][m.from][w].at # "wait"
                     \/ start[c][m.from][w].ack # <<>>
                  THEN start
                  ELSE [start EXCEPT ![c][m.from][w].ack = m.ip]
  /\ UNCHANGED <<case, todo, roomVars, saved, dev, open, ackCh>>

(* Mutant: the interface is closed and the device stays in the table.      *)
MutHandleTunTeardown(c) ==
  /\ Reads(c, "tun_teardown")
  /\ inbox' = Taken(c)
  /\ open' = [open EXCEPT ![c] = @ \ {dev[c][Head(inbox[c]).from].iface}]
  /\ UNCHANGED <<case, todo, roomVars, saved, dev, start, ackCh>>

handleTunTeardown(c) ==
  /\ Reads(c, "tun_teardown")
  /\ inbox' = Taken(c)
  /\ CloseDev(c, Head(inbox[c]).from)
  /\ UNCHANGED <<case, todo, roomVars, saved, start, ackCh>>

(* A peer is back whose leave timer is pending, and another that is not    *)
(* listed still has its PeerConn: the clean-up calls cleanupPeerP2PMap,    *)
(* which locks peerConnsMu, with peerConnsMu locked.                       *)
Hangs(c, now) ==
  /\ pending[c] \cap now # {}
  /\ (peers[c] \cup pending[c] \cup acting[c]) \ (now \cup {c}) # {}

(* Mutant: a saved configuration is used only when its timer is pending.   *)
MutHandlePeerList(c) ==
  /\ Reads(c, "peer_list")
  /\ LET now  == Head(inbox[c]).peers
         back == {d \in pending[c] \cap now : saved[c][d] # {}}
     IN  /\ peers' = [peers EXCEPT ![c] = now]
         /\ saved' = [saved EXCEPT ![c] = [d \in Clients |->
                        IF d \in back THEN {} ELSE @[d]]]
         /\ start' = [start EXCEPT ![c] = [d \in Clients |->
                        IF d \notin back \/ @[d]["auto"].at # "idle" THEN @[d]
                        ELSE [@[d] EXCEPT !["auto"] =
                                [NoStart EXCEPT !.at = "sleep",
                                                !.routes = saved[c][d]]]]]
         /\ IF Hangs(c, now)
            THEN stuck' = stuck \cup {c} /\ UNCHANGED pending
            ELSE /\ pending' = [pending EXCEPT ![c] =
                                  (@ \ now) \cup ((peers[c] \ now) \ {c})]
                 /\ UNCHANGED stuck
  /\ inbox' = Taken(c)
  /\ UNCHANGED <<case, todo, up, over, allow, acting, dev, open, ackCh>>

(* A peer that is new in the list and has a saved configuration is given   *)
(* its VPN back; the leave timers of those that are back are stopped and   *)
(* the absent ones get one, unless the handler hangs before.               *)
handlePeerList(c) ==
  /\ Reads(c, "peer_list")
  /\ LET now  == Head(inbox[c]).peers
         back == {d \in now \ peers[c] : saved[c][d] # {}}
     IN  /\ peers' = [peers EXCEPT ![c] = now]
         /\ saved' = [saved EXCEPT ![c] = [d \in Clients |->
                        IF d \in back THEN {} ELSE @[d]]]
         /\ start' = [start EXCEPT ![c] = [d \in Clients |->
                        IF d \notin back \/ @[d]["auto"].at # "idle" THEN @[d]
                        ELSE [@[d] EXCEPT !["auto"] =
                                [NoStart EXCEPT !.at = "sleep",
                                                !.routes = saved[c][d]]]]]
         /\ IF Hangs(c, now)
            THEN stuck' = stuck \cup {c} /\ UNCHANGED pending
            ELSE /\ pending' = [pending EXCEPT ![c] =
                                  (@ \ now) \cup ((peers[c] \ now) \ {c})]
                 /\ UNCHANGED stuck
  /\ inbox' = Taken(c)
  /\ UNCHANGED <<case, todo, up, over, allow, acting, dev, open, ackCh>>

(* A leave timer after 5 s: is the peer still gone?                        *)
leaveTimer(c, d) ==
  /\ d \in pending[c] /\ ~ListWaits(c) /\ c \notin stuck
  /\ pending' = [pending EXCEPT ![c] = @ \ {d}]
  /\ acting' = IF d \in peers[c] THEN acting
               ELSE [acting EXCEPT ![c] = @ \cup {d}]
  /\ UNCHANGED <<case, todo, up, over, allow, peers, stuck, inbox, tunVars>>

(* ... then its VPN ends, without a word to it, and an initiator saves the *)
(* configuration.                                                          *)
peerLeft(c, d) ==
  /\ d \in acting[c] /\ c \notin stuck
  /\ acting' = [acting EXCEPT ![c] = @ \ {d}]
  /\ CloseDev(c, d)
  /\ saved' = IF dev[c][d].role # "initiator" THEN saved
              ELSE [saved EXCEPT ![c][d] = dev[c][d].routes]
  /\ UNCHANGED <<case, todo, up, over, allow, peers, pending, stuck, inbox,
                 start, ackCh>>

-----------------------------------------------------------------------------
(* Stopping, and the connection.                                           *)

(* StopTunPeer; stopTunDevice tells the peer.                              *)
StopTunPeer(c, d) ==
  /\ d \in peers[c] /\ Has(c, d)
  /\ Does("stop", c, d)
  /\ inbox' = Relay(inbox, c, d, Msg("tun_teardown", c, <<>>, {}))
  /\ CloseDev(c, d)
  /\ UNCHANGED <<case, roomVars, saved, start, ackCh>>

(* Disconnect: tunCleanup stops every VPN, then the client leaves.         *)
Disconnect(c) ==
  /\ up[c] /\ Does("quit", c, c)
  /\ LET told == [d \in Clients |->
                    IF up[d] /\ Has(c, d)
                    THEN Append(inbox[d], Msg("tun_teardown", c, <<>>, {}))
                    ELSE inbox[d]]
     IN  inbox' = Broadcast(told, Members \ {c})
  /\ up' = [up EXCEPT ![c] = FALSE]
  /\ over' = [over EXCEPT ![c] = TRUE]
  /\ dev' = [dev EXCEPT ![c] = [d \in Clients |-> NoDev]]
  /\ open' = [open EXCEPT ![c] = @ \ {dev[c][d].iface : d \in Clients}]
  /\ UNCHANGED <<case, allow, peers, pending, acting, stuck, saved, start,
                 ackCh>>

SetAllowVPN(c) ==
  /\ Does("deny", c, c)
  /\ allow' = [allow EXCEPT ![c] = FALSE]
  /\ UNCHANGED <<case, up, over, peers, pending, acting, stuck, inbox,
                 tunVars>>

(* The connection fails; the server gives up one that does not answer its  *)
(* pings.                                                                  *)
wsDrop(c) ==
  /\ up[c] /\ \/ Does("drop", c, c)
              \/ c \in stuck /\ UNCHANGED todo
  /\ up' = [up EXCEPT ![c] = FALSE]
  /\ inbox' = Broadcast(inbox, Members \ {c})
  /\ UNCHANGED <<case, over, allow, peers, pending, acting, stuck, tunVars>>

reconnect(c) ==
  /\ ~up[c] /\ ~over[c] /\ c \notin stuck
  /\ up' = [up EXCEPT ![c] = TRUE]
  /\ inbox' = Broadcast(inbox, Members \cup {c})
  /\ UNCHANGED <<case, todo, over, allow, peers, pending, acting, stuck,
                 tunVars>>

-----------------------------------------------------------------------------
readLoop(c) == handleTunSetup(c) \/ handleTunAck(c) \/ handleTunTeardown(c)
               \/ handlePeerList(c) \/ reconnect(c)

StartGo(c, d) == \/ autoRestore(c, d)
                 \/ \E w \in By : \/ StartTunAcked(c, d, w)
                                  \/ StartTunRole(c, d, w)
                                  \/ StartTunTimeout(c, d, w)

Timer(c, d) == leaveTimer(c, d) \/ peerLeft(c, d)

User(c, d) == userStart(c, d) \/ addRoutesToExistingTun(c, d) \/ StopTunPeer(c, d)

Next == \E c \in Clients :
          \/ readLoop(c) \/ Disconnect(c) \/ SetAllowVPN(c) \/ wsDrop(c)
          \/ \E d \in Clients : StartGo(c, d) \/ Timer(c, d) \/ User(c, d)

Spec == Init /\ [][Next]_vars

(* Goroutines and timers run, and a client that lost its connection dials  *)
(* until it is back; users need do nothing.                                *)
FairSpec == /\ Spec
            /\ \A c \in Clients : WF_vars(readLoop(c))
            /\ WF_vars(\E c, d \in Clients : StartGo(c, d) \/ Timer(c, d))

-----------------------------------------------------------------------------
(* Properties.                                                             *)

TypeOK ==
  /\ case \in Case /\ todo \subseteq Op \X Clients \X Clients
  /\ {up, over, allow} \subseteq [Clients -> BOOLEAN]
  /\ inbox \in [Clients -> Seq(Message)]
  /\ {peers, pending, acting} \subseteq [Clients -> SUBSET Clients]
  /\ stuck \subseteq Clients
  /\ saved \in [Clients -> [Clients -> SUBSET Routes]]
  /\ dev \in [Clients -> [Clients -> TunDevice]]
  /\ open \in [Clients -> SUBSET Iface]
  /\ start \in [Clients -> [Clients -> [By -> Start]]]
  /\ ackCh \in [Clients -> [Clients -> By \cup {"none"}]]

(* A device in tunDevices has a live interface of its own: whoever closes  *)
(* a device took it out of the table first, and no two entries share one.  *)
TableIsOpen ==
  \A c, d \in Clients : Has(c, d) =>
    /\ dev[c][d].iface \in open[c]
    /\ \A e \in Clients \ {d} : dev[c][e].iface # dev[c][d].iface

(* "Allocate a unique virtual IP per incoming VPN connection" (tun.go):    *)
(* two responder devices of a client are on different subnets, whatever    *)
(* its own StartTun calls enter in between, and no responder device has    *)
(* the same address at both ends.                                          *)
IncomingUnique ==
  \A c, d \in Clients : dev[c][d].role = "responder" =>
    /\ dev[c][d].ip # dev[c][d].peerIP
    /\ \A e \in Clients \ {d} :
         dev[c][e].role = "responder" => dev[c][e].ip[1] # dev[c][d].ip[1]

(* The configuration that was saved when a peer went away is used when it  *)
(* returns: both ends have a device again (or one of the two clients hangs *)
(* in its handler of the peer list).                                       *)
Restored ==
  \A c, d \in Clients :
    (/\ saved[c][d] # {} /\ d \notin peers[c] /\ todo = {} /\ case.noroot = {}
     /\ \A e \in {c, d} : allow[e] /\ ~over[e]
     /\ dev[d][c].role # "initiator" /\ \A w \in By : start[d][c][w].at = "idle")
    ~> (Carries(c, d) \/ {c, d} \cap stuck # {})

(* "Network changes trigger reconnect with backoff (1s->5s), P2P + VPN     *)
(* auto-restore" (README): when the network is quiet again, clients that   *)
(* did not leave are connected and list each other.                        *)
BackTogether ==
  \A c, d \in Clients :
    (todo = {} /\ ~over[c] /\ ~over[d]) ~> (up[c] /\ d \in peers[c])
=============================================================================
