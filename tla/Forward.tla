------------------------------ MODULE Forward ------------------------------
(***************************************************************************)
(* Port forwarding: client/core/tunnel.go, forward_netstack.go,            *)
(* multihop.go and autohop.go.                                             *)
(*                                                                         *)
(* A forward is a local listener.  Every connection it accepts takes a     *)
(* virtual port, asks the peer through the server (open_tunnel) to bind    *)
(* that port to the service, waits for tunnel_opened and dials the port    *)
(* through the userspace TCP stack the two clients share; its segments go  *)
(* over UDP or, as fwd_data, through the server.                           *)
(* A hop forward asks a third client to bridge two tunnels of its own; the *)
(* bytes then travel as tunnel_data.  Clients tell each other whom they    *)
(* reach directly (p2p_map), and a forward to a peer that can only be      *)
(* relayed to goes through a client that reaches both.                     *)
(*                                                                         *)
(* Clients read one message at a time.  A local port is named by the       *)
(* service it forwards to.                                                 *)
(***************************************************************************)
EXTENDS Integers, Sequences, FiniteSets

CONSTANTS Clients, Services,
          Conns,      \* connections of local applications
          Hops,       \* hop forwards
          None,       \* no client, connection, service or hop
          VPorts,     \* number of virtual ports (65536 in the code)
          Cases       \* what happens in a behaviour (see Case)

(* ops happen at most once each; deny: clients that forbid forwarding,     *)
(* localOnly: those that serve only services on their own host (local);    *)
(* dead: services that nobody answers; direct: pairs that are direct at    *)
(* the start, and know it of each other; ticks: clients with a retry loop  *)
(* (it starts with the first STUN answer).                                 *)
Op == ({"forward", "expose", "hop"} \X Clients \X Clients \X Services)
      \cup ({"stop", "relay"} \X Clients \X Services)
      \cup ({"app"} \X Clients \X Services \X Conns)
      \cup ({"close", "data"} \X Conns) \cup ({"tclose"} \X (Conns \cup Hops))
      \cup ({"rekey", "punch", "fail"} \X Clients \X Clients)
      \cup ({"drop", "quit"} \X Clients)
Case == [ops : SUBSET Op,
         deny : SUBSET Clients, localOnly : SUBSET Clients,
         local : SUBSET Services, dead : SUBSET (Clients \X Services),
         direct : SUBSET (Clients \X Clients), ticks : SUBSET Clients]

ASSUME ForwardAssumption ==
  /\ VPorts \in Nat \ {0}
  /\ None \notin Clients \cup Services \cup Conns \cup Hops
  /\ IsFiniteSet(Clients) /\ IsFiniteSet(Conns) /\ IsFiniteSet(Hops)
  /\ Cases \subseteq Case
  /\ Cardinality(Conns) <= VPorts    \* the ports of a behaviour do not repeat

OrNone(S) == S \cup {None}
VPort     == 0 .. VPorts - 1

(* A local connection and its goroutine: waiting for tunnel_opened,        *)
(* dialling, copying, or (a hop) closed and not yet noticed by its reader. *)
Conn == [at : {"none", "wait", "dial", "open", "ending", "closed"},
         c : OrNone(Clients), d : OrNone(Clients), t : OrNone(Services),
         port : VPort, ready : BOOLEAN,      \* a token in readyCh
         stale : BOOLEAN,                    \* its netstack was closed
         h : OrNone(Hops), slow : BOOLEAN]   \* unacked in its rutpSender
NoConn == [at |-> "none", c |-> None, d |-> None, t |-> None, port |-> 0,
           ready |-> FALSE, stale |-> FALSE, h |-> None, slow |-> FALSE]

(* The connection of a netstack to the service, at the peer.               *)
Served   == [at : {"none", "dial", "open", "closed"}, t : OrNone(Services)]
NoServed == [at |-> "none", t |-> None]

(* HopBridge at the origin; entry: it is in c.hops (else Done is closed).  *)
Hop   == [at : {"none", "asked", "listen", "ended"}, entry : BOOLEAN,
          c : OrNone(Clients), v : OrNone(Clients), d : OrNone(Clients),
          t : OrNone(Services)]
NoHop == [at |-> "none", entry |-> FALSE, c |-> None, v |-> None,
          d |-> None, t |-> None]

Ns(p)     == <<"ns", p>>
In(h)     == <<"in", h>>
Out(h)    == <<"out", h>>
TunnelID  == ({"ns"} \X VPort) \cup ({"in", "out"} \X Hops)
IsNs(id)  == id[1] = "ns"
Segment   == {"syn", "synack", "rst", "fin"}

VARIABLES
  case, todo,
  up,         \* clients in the room
  inbox,      \* messages on their way from the server
  udp,        \* netstack segments on their way between clients
  listen,     \* c.forwards: the peer of the forward on a port
  force,      \* forwards with ForceRelay
  counter,    \* virtualPortCounter
  pend,       \* c.tunnels, "ns:" entries: whose ready channel
  conn,
  stack,      \* c.fwdNetstacks: role of the stack for a peer
  portMap,    \* its registered services
  served,
  hop,
  bridges,    \* c.hopBridgeByTunnel of all clients
  tun,        \* c.tunnels at a hop's origin: the connection entered
  tout,       \* c.tunnels and the reader at a hop's target
  got,        \* whose bytes were written to the service of a hop
  direct,     \* peerConns with Mode "direct"
  maps,       \* c.p2pMaps
  via,        \* AutoHopVia
  known,      \* c.peerConns
  trying,     \* running tryAutoHop calls: target, candidate
  casting     \* running broadcastP2PMap calls and what they send

nsVars  == <<udp, listen, force, counter, pend, stack, portMap, served>>
hopVars == <<hop, bridges, tun, tout, got>>
mapVars == <<direct, maps, via, known, trying, casting>>
vars    == <<case, todo, up, inbox, conn, nsVars, hopVars, mapVars>>

Pairs(v) == [c \in Clients |-> [d \in Clients |-> v]]
Reach(c) == {d \in Clients : <<c, d>> \in case.direct}

Init ==
  /\ case \in Cases /\ todo = case.ops
  /\ up = Clients
  /\ inbox = [c \in Clients |-> <<>>]
  /\ udp = {}
  /\ listen = [c \in Clients |-> [t \in Services |-> None]]
  /\ force = [c \in Clients |-> {}]
  /\ counter = [c \in Clients |-> 0]
  /\ pend = [c \in Clients |-> [p \in VPort |-> None]]
  /\ conn = [k \in Conns |-> NoConn]
  /\ stack = Pairs("none")
  /\ portMap = Pairs([p \in VPort |-> None])
  /\ served = [k \in Conns |-> NoServed]
  /\ hop = [h \in Hops |-> NoHop]
  /\ bridges = {}
  /\ tun = [h \in Hops |-> None]
  /\ tout = [h \in Hops |-> "none"]
  /\ got = [h \in Hops |-> {}]
  /\ direct = [c \in Clients |-> Reach(c)]
  /\ maps = [c \in Clients |-> [d \in Clients |-> IF d = c THEN {} ELSE Reach(d)]]
  /\ via = Pairs(None)
  /\ known = [c \in Clients |-> Clients \ {c}]
  /\ trying = [c \in Clients |-> {}]
  /\ casting = [c \in Clients |-> {}]

-----------------------------------------------------------------------------
(* Messages and operations.                                                *)

Does(op) == op \in todo /\ todo' = todo \ {op}

(* sendRelay; the server drops what is not for a member of the room.       *)
Relay(box, c, d, m) ==
  IF c \in up /\ d \in up THEN [box EXCEPT ![d] = Append(@, m)] ELSE box

Reads(c, t) == c \in up /\ inbox[c] # <<>> /\ Head(inbox[c]).type = t
Taken(c)    == [inbox EXCEPT ![c] = Tail(@)]
Msg(t, c, id) == [type |-> t, from |-> c, id |-> id]

-----------------------------------------------------------------------------
(* The netstacks.                                                          *)

(* getOrCreateFwdNetstack: the first use of the pair fixes the role.       *)
getOrCreateFwdNetstack(c, d, role) ==
  IF stack[c][d] = "none" THEN [stack EXCEPT ![c][d] = role] ELSE stack

isPeerForwardForceRelay(c, d) == \E t \in force[c] : listen[c][t] = d

(* outboundLoop and sendPacket: over UDP, else as fwd_data.  u and box are  *)
(* what is on its way already.                                             *)
sendPacket(u, box, c, d, seg, k) ==
  IF d \in direct[c] /\ ~isPeerForwardForceRelay(c, d)
  THEN udp' = u \cup {<<seg, k, c, d>>} /\ inbox' = box
  ELSE udp' = u /\ inbox' = Relay(box, c, d, Msg("fwd_data", c, <<seg, k>>))

(* The stack of c for d ends: its connections with it.                     *)
Close(c, d) ==
  /\ stack' = [stack EXCEPT ![c][d] = "none"]
  /\ portMap' = [portMap EXCEPT ![c][d] = [p \in VPort |-> None]]
  /\ conn' = [k \in Conns |->
       IF conn[k].c # c \/ conn[k].d # d \/ conn[k].h # None THEN conn[k]
       ELSE CASE conn[k].at = "wait" -> [conn[k] EXCEPT !.stale = TRUE]
              [] conn[k].at \in {"dial", "open"} -> [conn[k] EXCEPT !.at = "closed"]
              [] OTHER -> conn[k]]
  /\ served' = [k \in Conns |->
       IF conn[k].c = d /\ conn[k].d = c /\ served[k].at \in {"dial", "open"}
       THEN [served[k] EXCEPT !.at = "closed"] ELSE served[k]]

(* gVisor calls handleIncoming for a syn if the stack has a forwarder, that *)
(* is, if it was not created to dial; a port without a service, like a     *)
(* stack without a forwarder, answers with a reset.                        *)
handleIncoming(u, box, c, d, k) ==
  LET target == portMap[c][d][conn[k].port]
  IN  IF stack[c][d] = "resp" /\ target # None
      THEN /\ served' = [served EXCEPT ![k] = [at |-> "dial", t |-> target]]
           /\ sendPacket(u, box, c, d, "synack", k)
      ELSE UNCHANGED served /\ sendPacket(u, box, c, d, "rst", k)

(* A segment of k for the stack of c: TCP resets what belongs to no        *)
(* connection and ends the connection of a fin or a reset.                 *)
InjectInbound(u, box, c, d, seg, k) ==
  LET Quiet == udp' = u /\ inbox' = box
      Used  == served[k].at # "none"
  IN  \/ /\ stack[c][d] = "none" \/ (seg = "syn" /\ Used)
         /\ Quiet /\ UNCHANGED <<conn, served>>
      \/ /\ stack[c][d] # "none" /\ seg = "syn" /\ ~Used
         /\ handleIncoming(u, box, c, d, k) /\ UNCHANGED conn
      \/ /\ stack[c][d] # "none" /\ seg = "synack" /\ conn[k].at = "dial"
         /\ conn' = [conn EXCEPT ![k].at = "open"]
         /\ Quiet /\ UNCHANGED served
      \/ /\ stack[c][d] # "none" /\ seg = "synack" /\ conn[k].at # "dial"
         /\ sendPacket(u, box, c, d, "fin", k) /\ UNCHANGED <<conn, served>>
      \/ /\ stack[c][d] # "none" /\ seg \in {"rst", "fin"} /\ c = conn[k].c
         /\ conn' = [conn EXCEPT ![k].at = IF @ = "wait" THEN @ ELSE "closed"]
         /\ Quiet /\ UNCHANGED served
      \/ /\ stack[c][d] # "none" /\ seg \in {"rst", "fin"} /\ c # conn[k].c
         /\ served' = IF Used THEN [served EXCEPT ![k].at = "closed"] ELSE served
         /\ Quiet /\ UNCHANGED conn

nsRest == <<listen, force, counter, pend, stack, portMap>>

(* An FN: datagram; the sender is found by the address of a direct peer.   *)
handleFwdNetstackPacket(c) ==
  \E p \in udp :
    /\ p[4] = c
    /\ IF p[3] \in direct[c]
       THEN InjectInbound(udp \ {p}, inbox, c, p[3], p[1], p[2])
       ELSE udp' = udp \ {p} /\ UNCHANGED <<inbox, conn, served>>
    /\ UNCHANGED <<case, todo, up, nsRest, hopVars, mapVars>>

handleFwdData(c) ==
  /\ Reads(c, "fwd_data")
  /\ LET m == Head(inbox[c])
     IN  InjectInbound(udp, Taken(c), c, m.from, m.id[1], m.id[2])
  /\ UNCHANGED <<case, todo, up, nsRest, hopVars, mapVars>>

(* The network loses a syn.  (TCP repeats it, and any other segment.)      *)
loseSyn ==
  /\ \E p \in udp : p[1] = "syn" /\ udp' = udp \ {p}
  /\ UNCHANGED <<case, todo, up, inbox, conn, served, nsRest, hopVars, mapVars>>

-----------------------------------------------------------------------------
(* Forwards.                                                               *)

getForwardMode(c, d) == IF d \in direct[c] THEN "P2P"
                        ELSE IF via[c][d] # None THEN "HOP" ELSE "RELAY"

(* Clients that say they reach the target and that we reach; the score     *)
(* chooses between several.                                                *)
findAutoHopCandidate(c, d) ==
  {v \in Clients \ {c, d} : d \in maps[c][v] /\ v \in direct[c]}

InUse(c, t) == \/ listen[c][t] # None
               \/ \E h \in Hops : /\ hop[h].c = c /\ hop[h].t = t
                                  /\ hop[h].at = "listen"

(* The hop stays entered if the request cannot be sent.                    *)
StartHopForward(box, c, v, d, t) ==
  \E h \in Hops :
    /\ hop[h].at = "none"
    /\ hop' = [hop EXCEPT ![h] = [at |-> "asked", entry |-> TRUE, c |-> c,
                                  v |-> v, d |-> d, t |-> t]]
    /\ inbox' = Relay(box, c, v, Msg("hop_forward", c, h))

(* yes and no are what inbox becomes if it succeeds or fails: an offer     *)
(* that is being handled is taken, and answered.                           *)
StartForward(c, d, t, yes, no) ==
  LET hops == IF getForwardMode(c, d) = "RELAY"
              THEN findAutoHopCandidate(c, d) ELSE {}
  IN  \/ /\ d \in up /\ hops # {}
         /\ \E v \in hops : StartHopForward(yes, c, v, d, t)
         /\ UNCHANGED listen
      \/ /\ d \notin up \/ (hops = {} /\ InUse(c, t))
         /\ inbox' = no /\ UNCHANGED <<listen, hop>>
      \/ /\ d \in up /\ hops = {} /\ ~InUse(c, t)
         /\ listen' = [listen EXCEPT ![c][t] = d]
         /\ inbox' = yes /\ UNCHANGED hop

userForward(c, d, t) ==
  /\ Does(<<"forward", c, d, t>>)
  /\ StartForward(c, d, t, inbox, inbox)
  /\ UNCHANGED <<case, up, udp, force, counter, pend, conn, stack, portMap,
                 served, bridges, tun, tout, got, mapVars>>

userHop(c, v, t) ==
  /\ Does(<<"hop", c, v, t>>)
  /\ \E d \in up \ {c, v} : v \in up /\ StartHopForward(inbox, c, v, d, t)
  /\ UNCHANGED <<case, up, conn, nsVars, bridges, tun, tout, got, mapVars>>

(* d asks c to listen for it.                                              *)
ExposePort(d, c, t) ==
  /\ Does(<<"expose", d, c, t>>)
  /\ inbox' = Relay(inbox, d, c, Msg("reverse_forward_offer", d, t))
  /\ UNCHANGED <<case, up, conn, nsVars, hopVars, mapVars>>

handleReverseForwardOffer(c) ==
  /\ Reads(c, "reverse_forward_offer")
  /\ LET d == Head(inbox[c]).from
         t == Head(inbox[c]).id
         Answer(ok) == Relay(Taken(c), c, d,
                             [type |-> "reverse_answer", from |-> c, ok |-> ok])
     IN  IF c \in case.deny
         THEN inbox' = Answer(FALSE) /\ UNCHANGED <<listen, hop>>
         ELSE StartForward(c, d, t, Answer(TRUE), Answer(FALSE))
  /\ UNCHANGED <<case, todo, up, udp, force, counter, pend, conn, stack,
                 portMap, served, bridges, tun, tout, got, mapVars>>

(* reverse_forward_accept and reverse_forward_reject are only logged.      *)
handleReverseAnswer(c) ==
  /\ Reads(c, "reverse_answer") /\ inbox' = Taken(c)
  /\ UNCHANGED <<case, todo, up, conn, nsVars, hopVars, mapVars>>

(* SetForwardMode(force).                                                  *)
SetForwardMode(c, t) ==
  /\ listen[c][t] # None /\ Does(<<"relay", c, t>>)
  /\ force' = [force EXCEPT ![c] = @ \cup {t}]
  /\ UNCHANGED <<case, up, inbox, conn, udp, listen, counter, pend, stack,
                 portMap, served, hopVars, mapVars>>

(* The listener goes; no tunnel carries its Forward, so nothing else does. *)
StopForward(c, t) ==
  /\ listen[c][t] # None /\ Does(<<"stop", c, t>>)
  /\ listen' = [listen EXCEPT ![c][t] = None]
  /\ force' = [force EXCEPT ![c] = @ \ {t}]
  /\ UNCHANGED <<case, up, inbox, conn, udp, counter, pend, stack, portMap,
                 served, hopVars, mapVars>>

(* Mutants: one virtual port for all, and a counter that does not wrap.    *)
MutNextVirtualPort(c) == 0
MutNextVirtualPortWide(c) == counter[c] + 1

nextVirtualPort(c) == (counter[c] + 1) % VPorts

(* A connection k of a local application.  When open_tunnel cannot be sent *)
(* it is closed again.                                                     *)
acceptLoop(c, t, k) ==
  LET d == listen[c][t]
      p == nextVirtualPort(c)
  IN  /\ d # None /\ conn[k].at = "none" /\ Does(<<"app", c, t, k>>)
      /\ stack' = getOrCreateFwdNetstack(c, d, "init")
      /\ counter' = [counter EXCEPT ![c] = p]
      /\ pend' = [pend EXCEPT ![c][p] = IF c \in up THEN k ELSE None]
      /\ conn' = [conn EXCEPT ![k] =
                    [NoConn EXCEPT !.at = IF c \in up THEN "wait" ELSE "closed",
                                   !.c = c, !.d = d, !.t = t, !.port = p]]
      /\ inbox' = Relay(inbox, c, d,
                        [type |-> "open_tunnel", from |-> c, id |-> Ns(p), t |-> t])
      /\ UNCHANGED <<case, up, udp, listen, force, portMap, served, hopVars,
                     mapVars>>

(* bridgeForwardConn: ready, or 10 s without an answer (the entry stays in *)
(* c.tunnels).  A closed netstack refuses the dial.                        *)
bridgeForwardConn(k) ==
  /\ conn[k].at = "wait"
  /\ \/ /\ conn[k].ready /\ ~conn[k].stale
        /\ conn' = [conn EXCEPT ![k].at = "dial"]
     \/ /\ ~conn[k].ready \/ conn[k].stale
        /\ conn' = [conn EXCEPT ![k].at = "closed"]
  /\ UNCHANGED <<case, todo, up, inbox, nsVars, hopVars, mapVars>>

(* TCP sends the syn, and again while nothing has come of it.              *)
DialTCP(k) ==
  LET c == conn[k].c
      d == conn[k].d
  IN  /\ conn[k].at = "dial" /\ conn[k].h = None /\ served[k].at = "none"
      /\ ~\E seg \in {"syn", "rst"} :
             \/ udp \cap {<<seg, k, c, d>>, <<seg, k, d, c>>} # {}
             \/ \E e \in {c, d} : \E i \in DOMAIN inbox[e] :
                  inbox[e][i].type = "fwd_data" /\ inbox[e][i].id = <<seg, k>>
      /\ sendPacket(udp, inbox, c, d, "syn", k)
      /\ d \in up /\ c \in up
      /\ UNCHANGED <<case, todo, up, conn, served, nsRest, hopVars, mapVars>>

(* The copy at the origin ends: the dial takes more than 10 s, or the      *)
(* application closes.                                                     *)
EndLocal(k) ==
  /\ conn[k].h = None
  /\ \/ conn[k].at = "dial" /\ UNCHANGED todo
     \/ conn[k].at = "open" /\ Does(<<"close", k>>)
  /\ conn' = [conn EXCEPT ![k].at = "closed"]
  /\ sendPacket(udp, inbox, conn[k].c, conn[k].d, "fin", k)
  /\ UNCHANGED <<case, up, served, nsRest, hopVars, mapVars>>

(* bridgeForward at the peer: dial the service, then copy until an end     *)
(* closes.                                                                 *)
bridgeForward(k) ==
  LET d == conn[k].d
      End == /\ served' = [served EXCEPT ![k].at = "closed"]
             /\ sendPacket(udp, inbox, d, conn[k].c, "fin", k)
  IN  /\ \/ /\ served[k].at = "dial" /\ <<d, served[k].t>> \notin case.dead
            /\ served' = [served EXCEPT ![k].at = "open"]
            /\ UNCHANGED <<todo, udp, inbox>>
         \/ /\ served[k].at = "dial" /\ <<d, served[k].t>> \in case.dead
            /\ End /\ UNCHANGED todo
         \/ /\ served[k].at = "open" /\ Does(<<"tclose", k>>)
            /\ End
      /\ UNCHANGED <<case, up, conn, nsRest, hopVars, mapVars>>

(* SetKeepAlive at the peer: nobody answers for a connection that ended.   *)
keepAlive(k) ==
  /\ served[k].at = "open" /\ conn[k].at = "closed"
  /\ served' = [served EXCEPT ![k].at = "closed"]
  /\ UNCHANGED <<case, todo, up, udp, inbox, conn, nsRest, hopVars, mapVars>>

-----------------------------------------------------------------------------
(* Handlers of the tunnel messages.                                        *)

Refuses(d, t) == d \in case.deny \/ (d \in case.localOnly /\ t \notin case.local)

(* id is a virtual port, or the outbound tunnel of a hop.                  *)
handleOpenTunnel(d) ==
  /\ Reads(d, "open_tunnel")
  /\ LET m == Head(inbox[d])
         c == m.from
         Answer(t) == inbox' = Relay(Taken(d), d, c, Msg(t, d, m.id))
     IN  \/ /\ Refuses(d, m.t)
            /\ Answer("tunnel_rejected")
            /\ UNCHANGED <<stack, portMap, tout>>
         \/ /\ ~Refuses(d, m.t) /\ IsNs(m.id)
            /\ stack' = getOrCreateFwdNetstack(d, c, "resp")
            /\ portMap' = [portMap EXCEPT ![d][c][m.id[2]] = m.t]
            /\ Answer("tunnel_opened")
            /\ UNCHANGED tout
         \/ /\ ~Refuses(d, m.t) /\ ~IsNs(m.id) /\ <<d, m.t>> \in case.dead
            /\ Answer("close_tunnel")
            /\ UNCHANGED <<stack, portMap, tout>>
         \/ /\ ~Refuses(d, m.t) /\ ~IsNs(m.id) /\ <<d, m.t>> \notin case.dead
            /\ tout' = [tout EXCEPT ![m.id[2]] = "open"]
            /\ Answer("tunnel_opened")
            /\ UNCHANGED <<stack, portMap>>
  /\ UNCHANGED <<case, todo, up, udp, listen, force, counter, pend, conn,
                 served, hop, bridges, tun, got, mapVars>>

(* Whoever waits for the port gets its token.  The bridge of a hop has no  *)
(* entry in c.tunnels.                                                     *)
handleTunnelOpened(c) ==
  /\ Reads(c, "tunnel_opened")
  /\ inbox' = Taken(c)
  /\ LET id == Head(inbox[c]).id
         p  == id[2]
     IN  IF IsNs(id) /\ pend[c][p] # None
         THEN /\ conn' = [conn EXCEPT ![pend[c][p]].ready = TRUE]
              /\ pend' = [pend EXCEPT ![c][p] = None]
         ELSE UNCHANGED <<conn, pend>>
  /\ UNCHANGED <<case, todo, up, udp, listen, force, counter, stack, portMap,
                 served, hopVars, mapVars>>

(* closeTunnel: the entry goes and its connection is closed; a connection  *)
(* that waits for a virtual port is not told.                              *)
closeTunnel(c, id) ==
  LET x == id[2]
  IN  \/ /\ IsNs(id)
         /\ pend' = [pend EXCEPT ![c][x] = None]
         /\ UNCHANGED <<conn, tun, tout>>
      \/ /\ id[1] = "in" /\ tun[x] # None
         /\ conn' = [conn EXCEPT ![tun[x]].at = "ending"]
         /\ tun' = [tun EXCEPT ![x] = None]
         /\ UNCHANGED <<pend, tout>>
      \/ /\ id[1] = "out" /\ tout[x] = "open"
         /\ tout' = [tout EXCEPT ![x] = "ending"]
         /\ UNCHANGED <<pend, conn, tun>>
      \/ /\ (id[1] = "in" /\ tun[x] = None) \/ (id[1] = "out" /\ tout[x] # "open")
         /\ UNCHANGED <<pend, conn, tun, tout>>

handlerRest == <<case, todo, up, udp, listen, force, counter, stack, portMap,
                 served, got, mapVars>>

(* Is c the one in the middle of the hop with this tunnel, and what is at  *)
(* the other side?                                                         *)
IsHop(c, id) == id \in bridges /\ hop[id[2]].v = c
Other(id)    == IF id[1] = "in" THEN Out(id[2]) ELSE In(id[2])
Beyond(id)   == IF id[1] = "in" THEN hop[id[2]].d ELSE hop[id[2]].c

(* Mutant: the other side is not told.                                     *)
MutHandleCloseTunnel(c) ==
  /\ Reads(c, "close_tunnel")
  /\ LET id == Head(inbox[c]).id
     IN  IF IsHop(c, id)
         THEN /\ bridges' = bridges \ {id, Other(id)}
              /\ inbox' = Taken(c)
              /\ UNCHANGED <<conn, pend, hop, tun, tout>>
         ELSE /\ closeTunnel(c, id) /\ inbox' = Taken(c)
              /\ UNCHANGED <<hop, bridges>>
  /\ UNCHANGED handlerRest

handleCloseTunnel(c) ==
  /\ Reads(c, "close_tunnel")
  /\ LET id == Head(inbox[c]).id
     IN  IF IsHop(c, id)
         THEN /\ bridges' = bridges \ {id, Other(id)}
              /\ inbox' = Relay(Taken(c), c, Beyond(id),
                                Msg("close_tunnel", c, Other(id)))
              /\ UNCHANGED <<conn, pend, hop, tun, tout>>
         ELSE /\ closeTunnel(c, id) /\ inbox' = Taken(c)
              /\ UNCHANGED <<hop, bridges>>
  /\ UNCHANGED handlerRest

handleTunnelRejected(c) ==
  /\ Reads(c, "tunnel_rejected")
  /\ LET id == Head(inbox[c]).id
     IN  IF IsHop(c, id)
         THEN /\ bridges' = bridges \ {id, Other(id)}
              /\ inbox' = Relay(Taken(c), c, hop[id[2]].c,
                                Msg("hop_forward_reject", c, id[2]))
              /\ UNCHANGED <<conn, pend, hop, tun, tout>>
         ELSE /\ closeTunnel(c, id) /\ inbox' = Taken(c)
              /\ UNCHANGED <<hop, bridges>>
  /\ UNCHANGED handlerRest

-----------------------------------------------------------------------------
(* Hop forwards.                                                           *)

hopRest == <<case, todo, up, conn, nsVars, tun, tout, got, mapVars>>

(* The bridge asks the target and accepts at once.  (Nobody sets Auto, so  *)
(* allowHopRelay is not asked.)                                            *)
handleHopForward(v) ==
  /\ Reads(v, "hop_forward")
  /\ LET h == Head(inbox[v]).id
         c == Head(inbox[v]).from
         open == [type |-> "open_tunnel", from |-> v, id |-> Out(h),
                  t |-> hop[h].t]
     IN  IF v \in case.deny
         THEN /\ inbox' = Relay(Taken(v), v, c, Msg("hop_forward_reject", v, h))
              /\ UNCHANGED bridges
         ELSE /\ inbox' = Relay(Relay(Taken(v), v, hop[h].d, open), v, c,
                                Msg("hop_forward_accept", v, h))
              /\ bridges' = bridges \cup {In(h), Out(h)}
  /\ UNCHANGED <<hop, hopRest>>

(* The listener of hopAcceptLoop, unless its port is taken.                *)
handleHopForwardAccept(c) ==
  /\ Reads(c, "hop_forward_accept")
  /\ inbox' = Taken(c)
  /\ LET h == Head(inbox[c]).id
     IN  hop' = IF ~hop[h].entry THEN hop
                ELSE [hop EXCEPT ![h].at =
                        IF InUse(c, hop[h].t) THEN "ended" ELSE "listen"]
  /\ UNCHANGED <<bridges, hopRest>>

(* Mutant: Done is not closed once the hop listens.                        *)
MutHandleHopForwardReject(c) ==
  /\ Reads(c, "hop_forward_reject")
  /\ inbox' = Taken(c)
  /\ LET h == Head(inbox[c]).id
     IN  hop' = IF hop[h].at = "listen" THEN hop
                ELSE [hop EXCEPT ![h].entry = FALSE]
  /\ UNCHANGED <<bridges, hopRest>>

handleHopForwardReject(c) ==
  /\ Reads(c, "hop_forward_reject")
  /\ inbox' = Taken(c)
  /\ hop' = [hop EXCEPT ![Head(inbox[c]).id].entry = FALSE]
  /\ UNCHANGED <<bridges, hopRest>>

(* A connection of a local application takes the one tunnel of the hop.    *)
hopAcceptLoop(h, k) ==
  LET c == hop[h].c
  IN  /\ hop[h].at = "listen" /\ hop[h].entry /\ conn[k].at = "none"
      /\ Does(<<"app", c, hop[h].t, k>>)
      /\ conn' = [conn EXCEPT ![k] =
                    [NoConn EXCEPT !.at = "open", !.c = c, !.d = hop[h].v,
                                   !.t = hop[h].t, !.h = h]]
      /\ tun' = [tun EXCEPT ![h] = k]
      /\ UNCHANGED <<case, up, inbox, nsVars, hop, bridges, tout, got, mapVars>>

(* ... and the loop ends when Done is closed.                              *)
hopListenEnd(h) ==
  /\ hop[h].at = "listen" /\ ~hop[h].entry
  /\ hop' = [hop EXCEPT ![h].at = "ended"]
  /\ UNCHANGED <<case, todo, up, inbox, conn, nsVars, bridges, tun, tout, got,
                 mapVars>>

(* tunnelReadLoop at the origin.  The path is chosen at the start: to a    *)
(* direct peer the bytes go by RUTP, which the bridge does not acknowledge *)
(* for want of an entry in c.tunnels, else as tunnel_data (as they do in   *)
(* the end by RUTP too, if the connection is still open then).             *)
tunnelData(k) ==
  Relay(inbox, conn[k].c, conn[k].d,
        [type |-> "tunnel_data", from |-> conn[k].c, id |-> In(conn[k].h), k |-> k])

tunnelReadRelay(k) ==
  /\ conn[k].at = "open" /\ conn[k].h # None /\ Does(<<"data", k>>)
  /\ IF conn[k].d \in direct[conn[k].c]
     THEN conn' = [conn EXCEPT ![k].slow = TRUE] /\ UNCHANGED inbox
     ELSE inbox' = tunnelData(k) /\ UNCHANGED conn
  /\ UNCHANGED <<case, up, nsVars, hopVars, mapVars>>

fallback(k) ==
  /\ conn[k].at = "open" /\ conn[k].slow
  /\ conn' = [conn EXCEPT ![k].slow = FALSE]
  /\ inbox' = tunnelData(k)
  /\ UNCHANGED <<case, todo, up, nsVars, hopVars, mapVars>>

(* Mutant: the way back for the way on.                                    *)
MutHandleTunnelData(c) ==
  /\ Reads(c, "tunnel_data")
  /\ LET m == Head(inbox[c])
     IN  IF IsHop(c, m.id)
         THEN /\ inbox' = Relay(Taken(c), c, hop[m.id[2]].c, [m EXCEPT !.from = c])
              /\ UNCHANGED got
         ELSE /\ inbox' = Taken(c)
              /\ got' = IF m.id[1] = "out" /\ tout[m.id[2]] = "open"
                        THEN [got EXCEPT ![m.id[2]] = @ \cup {m.k}] ELSE got
  /\ UNCHANGED <<case, todo, up, conn, nsVars, hop, bridges, tun, tout, mapVars>>

(* The bridge passes the bytes on; the target writes them to the service.  *)
handleTunnelData(c) ==
  /\ Reads(c, "tunnel_data")
  /\ LET m == Head(inbox[c])
     IN  IF IsHop(c, m.id)
         THEN /\ inbox' = Relay(Taken(c), c, Beyond(m.id),
                                [m EXCEPT !.from = c, !.id = Other(m.id)])
              /\ UNCHANGED got
         ELSE /\ inbox' = Taken(c)
              /\ got' = IF m.id[1] = "out" /\ tout[m.id[2]] = "open"
                        THEN [got EXCEPT ![m.id[2]] = @ \cup {m.k}] ELSE got
  /\ UNCHANGED <<case, todo, up, conn, nsVars, hop, bridges, tun, tout, mapVars>>

(* A reader ends because an end was closed: the entry of the tunnel goes,  *)
(* whosever it is, and the next client is told.                            *)
tunnelReadLoop(k) ==
  /\ conn[k].h # None
  /\ \/ conn[k].at = "ending" /\ UNCHANGED todo
     \/ conn[k].at = "open" /\ Does(<<"close", k>>)
  /\ conn' = [conn EXCEPT ![k].at = "closed", ![k].slow = FALSE]
  /\ tun' = [tun EXCEPT ![conn[k].h] = None]
  /\ inbox' = Relay(inbox, conn[k].c, conn[k].d,
                    Msg("close_tunnel", conn[k].c, In(conn[k].h)))
  /\ UNCHANGED <<case, up, nsVars, hop, bridges, tout, got, mapVars>>

targetReadLoop(h) ==
  /\ \/ tout[h] = "ending" /\ UNCHANGED todo
     \/ tout[h] = "open" /\ Does(<<"tclose", h>>)
  /\ tout' = [tout EXCEPT ![h] = "closed"]
  /\ inbox' = Relay(inbox, hop[h].d, hop[h].v,
                    Msg("close_tunnel", hop[h].d, Out(h)))
  /\ UNCHANGED <<case, up, conn, nsVars, hop, bridges, tun, got, mapVars>>

-----------------------------------------------------------------------------
(* Who reaches whom.                                                       *)

mapRest == <<case, conn, nsVars, hopVars>>

(* A hole punch succeeds; the map is sent by a goroutine.                  *)
punchSuccess(c, d) ==
  /\ d \in known[c] \ direct[c] /\ Does(<<"punch", c, d>>)
  /\ direct' = [direct EXCEPT ![c] = @ \cup {d}]
  /\ casting' = [casting EXCEPT ![c] = @ \cup {<<"punch", None>>}]
  /\ UNCHANGED <<up, inbox, maps, via, known, trying, mapRest>>

(* handleStunInfo: the address of a direct peer changed.                   *)
handleStunInfo(c, d) ==
  /\ d \in direct[c] /\ Does(<<"rekey", c, d>>)
  /\ direct' = [direct EXCEPT ![c] = @ \ {d}]
  /\ Close(c, d)
  /\ UNCHANGED <<case, up, inbox, udp, listen, force, counter, pend, hopVars,
                 maps, via, known, trying, casting>>

(* A round of the retry loop starts a broadcast; 15 s outlast the last.    *)
retryRound(c) ==
  /\ c \in case.ticks \cap up /\ casting[c] = {}
  /\ ~\E d \in Clients : \E i \in DOMAIN inbox[d] :
        inbox[d][i].type = "p2p_map" /\ inbox[d][i].from = c
  /\ casting' = [casting EXCEPT ![c] = {<<"tick", None>>}]
  /\ UNCHANGED <<todo, up, inbox, direct, maps, via, known, trying, mapRest>>

(* broadcastP2PMap: collect, then send.                                    *)
broadcastP2PMap(c) ==
  \E x \in casting[c] :
    /\ casting' = [casting EXCEPT ![c] =
         (@ \ {x}) \cup IF x[2] = None THEN {<<x[1], direct[c] \cap up>>} ELSE {}]
    /\ inbox' = IF x[2] = None \/ c \notin up THEN inbox
                ELSE [d \in Clients |->
                        IF d = c \/ d \notin up THEN inbox[d]
                        ELSE Append(inbox[d],
                               [type |-> "p2p_map", from |-> c, peers |-> x[2]])]
    /\ UNCHANGED <<todo, up, direct, maps, via, known, trying, mapRest>>

(* Mutant: what was said before is kept.                                   *)
MutHandleP2PMap(c) ==
  /\ Reads(c, "p2p_map")
  /\ inbox' = Taken(c)
  /\ maps' = [maps EXCEPT ![c][Head(inbox[c]).from] = @ \cup Head(inbox[c]).peers]
  /\ UNCHANGED <<todo, up, direct, via, known, trying, casting, mapRest>>

handleP2PMap(c) ==
  /\ Reads(c, "p2p_map")
  /\ inbox' = Taken(c)
  /\ maps' = [maps EXCEPT ![c][Head(inbox[c]).from] = Head(inbox[c]).peers]
  /\ UNCHANGED <<todo, up, direct, via, known, trying, casting, mapRest>>

(* The retry loop gives up on d after 5 failures and looks for a hop.      *)
punchFails(c, d) ==
  /\ d \in known[c] \ direct[c] /\ Does(<<"fail", c, d>>)
  /\ trying' = IF via[c][d] # None THEN trying
               ELSE [trying EXCEPT ![c] = @ \cup {<<d, None>>}]
  /\ UNCHANGED <<up, inbox, direct, maps, via, known, casting, mapRest>>

(* tryAutoHop: find a candidate, then record it.                           *)
tryAutoHop(c) ==
  \E x \in trying[c] :
    /\ \/ /\ x[2] = None /\ via[c][x[1]] = None
          /\ \E v \in findAutoHopCandidate(c, x[1]) :
               trying' = [trying EXCEPT ![c] = (@ \ {x}) \cup {<<x[1], v>>}]
          /\ UNCHANGED via
       \/ /\ x[2] = None
          /\ via[c][x[1]] # None \/ findAutoHopCandidate(c, x[1]) = {}
          /\ trying' = [trying EXCEPT ![c] = @ \ {x}]
          /\ UNCHANGED via
       \/ /\ x[2] # None
          /\ trying' = [trying EXCEPT ![c] = @ \ {x}]
          /\ via' = IF x[1] \in known[c] /\ via[c][x[1]] = None
                    THEN [via EXCEPT ![c][x[1]] = x[2]] ELSE via
    /\ UNCHANGED <<todo, up, inbox, direct, maps, known, casting, mapRest>>

(* The leave timer of d, after what d had sent: its PeerConn goes, and     *)
(* what it said and the routes through it (cleanupPeerP2PMap).             *)
cleanupPeerP2PMap(c, d) ==
  /\ d \in known[c] \ up /\ \A i \in DOMAIN inbox[c] : inbox[c][i].from # d
  /\ known' = [known EXCEPT ![c] = @ \ {d}]
  /\ direct' = [direct EXCEPT ![c] = @ \ {d}]
  /\ maps' = [maps EXCEPT ![c][d] = {}]
  /\ via' = [via EXCEPT ![c] = [e \in Clients |->
               IF e = d \/ @[e] = d THEN None ELSE @[e]]]
  /\ UNCHANGED <<todo, up, inbox, trying, casting, mapRest>>

(* The connection to the server is lost, or the client leaves.             *)
wsDrop(c) ==
  /\ c \in up /\ (Does(<<"drop", c>>) \/ Does(<<"quit", c>>))
  /\ up' = up \ {c}
  /\ inbox' = [inbox EXCEPT ![c] = <<>>]
  /\ UNCHANGED <<mapVars, mapRest>>

(* Back in the room with nobody direct (resetP2PState).                    *)
reconnect(c) ==
  /\ c \notin up /\ <<"drop", c>> \in case.ops \ todo
  /\ <<"quit", c>> \notin case.ops \ todo
  /\ up' = up \cup {c}
  /\ direct' = [direct EXCEPT ![c] = {}]
  /\ maps' = [maps EXCEPT ![c] = [d \in Clients |-> {}]]
  /\ via' = [via EXCEPT ![c] = [d \in Clients |-> None]]
  /\ known' = [d \in Clients |-> known[d] \cup ({c} \ {d})]
  /\ UNCHANGED <<todo, inbox, trying, casting, mapRest>>

-----------------------------------------------------------------------------
readLoop(c) ==
  \/ handleFwdData(c) \/ handleReverseForwardOffer(c) \/ handleReverseAnswer(c)
  \/ handleOpenTunnel(c) \/ handleTunnelOpened(c) \/ handleTunnelData(c)
  \/ handleCloseTunnel(c) \/ handleTunnelRejected(c) \/ handleHopForward(c)
  \/ handleHopForwardAccept(c) \/ handleHopForwardReject(c) \/ handleP2PMap(c)
  \/ reconnect(c)

(* The goroutines of a client that are not of one connection or hop.       *)
Go(c) == \/ handleFwdNetstackPacket(c) \/ tryAutoHop(c)
         \/ \E d \in Clients : cleanupPeerP2PMap(c, d)

Cast(c) == retryRound(c) \/ broadcastP2PMap(c)

GoConn(k) == bridgeForwardConn(k) \/ DialTCP(k) \/ bridgeForward(k)
             \/ keepAlive(k) \/ fallback(k) \/ tunnelReadLoop(k) \/ EndLocal(k)

GoHop(h) == hopListenEnd(h) \/ targetReadLoop(h)

User == \E c \in Clients :
          \/ \E d \in Clients :
               \/ punchSuccess(c, d) \/ handleStunInfo(c, d) \/ punchFails(c, d)
               \/ \E t \in Services : \/ userForward(c, d, t) \/ userHop(c, d, t)
                                      \/ ExposePort(c, d, t)
          \/ \E t \in Services : \/ SetForwardMode(c, t) \/ StopForward(c, t)
                                 \/ \E k \in Conns : acceptLoop(c, t, k)
          \/ wsDrop(c)

Next == \/ User \/ loseSyn
        \/ \E h \in Hops, k \in Conns : hopAcceptLoop(h, k)
        \/ \E c \in Clients : readLoop(c) \/ Go(c) \/ Cast(c)
        \/ \E k \in Conns : GoConn(k) \/ tunnelReadRelay(k)
        \/ \E h \in Hops : GoHop(h)

Spec == Init /\ [][Next]_vars

(* Goroutines run; users and the network's failures need not.              *)
FairSpec == /\ Spec
            /\ \A c \in Clients : WF_vars(readLoop(c)) /\ WF_vars(Go(c))
                                /\ WF_vars(Cast(c))
            /\ \A k \in Conns : WF_vars(GoConn(k) /\ todo' = todo)
            /\ \A h \in Hops : WF_vars(GoHop(h) /\ todo' = todo)

-----------------------------------------------------------------------------
(* Properties.                                                             *)

TypeOK ==
  /\ case \in Case /\ todo \subseteq Op /\ up \subseteq Clients
  /\ udp \subseteq Segment \X Conns \X Clients \X Clients
  /\ listen \in [Clients -> [Services -> OrNone(Clients)]]
  /\ force \in [Clients -> SUBSET Services]
  /\ counter \in [Clients -> VPort]
  /\ pend \in [Clients -> [VPort -> OrNone(Conns)]]
  /\ conn \in [Conns -> Conn]
  /\ stack \in [Clients -> [Clients -> {"none", "init", "resp"}]]
  /\ portMap \in [Clients -> [Clients -> [VPort -> OrNone(Services)]]]
  /\ served \in [Conns -> Served]
  /\ hop \in [Hops -> Hop]
  /\ bridges \subseteq TunnelID
  /\ tun \in [Hops -> OrNone(Conns)]
  /\ tout \in [Hops -> {"none", "open", "ending", "closed"}]
  /\ got \in [Hops -> SUBSET Conns]
  /\ {direct, known} \subseteq [Clients -> SUBSET Clients]
  /\ maps \in [Clients -> [Clients -> SUBSET Clients]]
  /\ via \in [Clients -> [Clients -> OrNone(Clients)]]

(* A connection is served by what its forward names, whatever connections  *)
(* and restarts of the stacks come in between: the token in the ready      *)
(* channel stands for this connection's registration.                      *)
RightTarget == \A k \in Conns : served[k].at # "none" => served[k].t = conn[k].t

(* Behaviours in which nobody loses the connection to the server.          *)
Steady == \A c \in Clients : {<<"drop", c>>, <<"quit", c>>} \cap case.ops = {}

(* A connection to a service does not outlive the local connection it was  *)
(* made for: the end of a copy, a timed-out dial and a closed stack reach  *)
(* the peer, and the end of a hop's reader passes the bridge.              *)
NoLeakedService ==
  /\ \A k \in Conns : (served[k].at = "open" /\ conn[k].at = "closed")
                      ~> (served[k].at = "closed")
  /\ \A h \in Hops : (/\ Steady /\ tout[h] = "open"
                      /\ \E k \in Conns : conn[k].h = h /\ conn[k].at = "closed")
                     ~> (tout[h] = "closed")

(* A hop that the bridge or the target rejects stops listening: the reject *)
(* finds the hop although the bridge has accepted it before.  (Unless a    *)
(* local connection has come and gone by then and taken the bridge along.) *)
RejectedEnds ==
  \A h \in Hops :
    (/\ Steady /\ \A k \in Conns : conn[k].h = h => conn[k].at # "closed"
     /\ \E c \in Clients : \E i \in DOMAIN inbox[c] :
          \/ inbox[c][i].type = "tunnel_rejected" /\ inbox[c][i].id = Out(h)
          \/ inbox[c][i].type = "hop_forward_reject" /\ inbox[c][i].id = h)
    ~> [](hop[h].at # "listen")

(* What an application writes to a hop reaches the service of the hop, by  *)
(* way of the bridge, unless an end is closed meanwhile.                   *)
HopDelivers ==
  \A k \in Conns, h \in Hops :
    (/\ Steady /\ conn[k].h = h /\ conn[k].at = "open" /\ tout[h] = "open"
     /\ <<"data", k>> \in case.ops \ todo)
    ~> (k \in got[h] \/ conn[k].at # "open" \/ tout[h] # "open")

(* The rounds bring every client's view of who reaches whom up to date,    *)
(* however broadcasts overlap, and forget those that left.                 *)
MapsConverge ==
  <>[](\A c \in up : \A d \in Clients \ {c} :
         /\ d \in case.ticks \cap up => maps[c][d] = direct[d] \cap up
         /\ d \notin up => maps[c][d] = {})
=============================================================================
