--------------------------- MODULE ForwardProofs ---------------------------
(***************************************************************************)
(* Proofs that a connection of Forward is served by the service that its   *)
(* forward names, for any clients, services, connections and hops, and     *)
(* whatever users, the network and restarts of the stacks do, as long as a *)
(* client does not take more connections than there are virtual ports.     *)
(***************************************************************************)
EXTENDS Forward, FiniteSetTheorems, TLAPS

(* k is a connection that c has accepted for a forward to d, and one that  *)
(* asked for the service t at the virtual port p.                          *)
Dials(k, c, d)         == /\ conn[k].at # "none" /\ conn[k].h = None
                          /\ conn[k].c = c /\ conn[k].d = d
Registers(c, d, p, t)  == \E k \in Conns : /\ Dials(k, c, d)
                                           /\ conn[k].port = p /\ conn[k].t = t
Mine(c) == {k \in Conns : conn[k].at # "none" /\ conn[k].h = None /\ conn[k].c = c}

(* Messages, and those that may be on their way to a client: a syn comes   *)
(* from the client that dials, and a request for a virtual port names what *)
(* the connection with this port is for.                                   *)
Message ==
  [type : {"fwd_data"}, from : Clients, id : Segment \X Conns]
  \cup [type : {"reverse_forward_offer"}, from : Clients, id : Services]
  \cup [type : {"reverse_answer"}, from : Clients, ok : BOOLEAN]
  \cup [type : {"open_tunnel"}, from : Clients, id : TunnelID, t : OrNone(Services)]
  \cup [type : {"tunnel_opened", "tunnel_rejected", "close_tunnel"},
        from : Clients, id : TunnelID]
  \cup [type : {"hop_forward", "hop_forward_accept", "hop_forward_reject"},
        from : Clients, id : Hops]
  \cup [type : {"tunnel_data"}, from : Clients, id : TunnelID, k : Conns]
  \cup [type : {"p2p_map"}, from : Clients, peers : SUBSET Clients]

Fits(m, d) ==
  /\ m.type = "fwd_data" /\ m.id[1] = "syn" => Dials(m.id[2], m.from, d)
  /\ m.type = "open_tunnel" /\ IsNs(m.id) => Registers(m.from, d, m.id[2], m.t)

Fit == [d \in Clients |-> {m \in Message : Fits(m, d)}]

Boxes(F, box) == box = [c \in Clients |-> box[c]]
                 /\ \A c \in Clients : box[c] \in Seq(F[c])

Wire == {x \in Segment \X Conns \X Clients \X Clients :
           x[1] = "syn" => Dials(x[2], x[3], x[4])}

(* The parts of the invariant, by variable.                                *)
BaseOK  == case \in Case /\ todo \subseteq Op /\ up \subseteq Clients
InboxOK == Boxes(Fit, inbox)
UdpOK   == udp \subseteq Wire

ListenOK == /\ listen \in [Clients -> [Services -> OrNone(Clients)]]
            /\ force \in [Clients -> SUBSET Services]
            /\ pend \in [Clients -> [VPort -> OrNone(Conns)]]
            /\ stack \in [Clients -> [Clients -> {"none", "init", "resp"}]]

(* While ports have not run out, the counter has passed those in use.      *)
Counted(c) == LET n == Cardinality(Mine(c))
              IN  n < VPorts => counter[c] = n /\ \A k \in Mine(c) : conn[k].port \in 1 .. n

ConnOK ==
  /\ conn \in [Conns -> Conn] /\ counter \in [Clients -> VPort]
  /\ \A k \in Conns :
       /\ conn[k].at = "none" => conn[k].c = None
       /\ conn[k].slow => conn[k].h # None
       /\ conn[k].at # "none" =>
            conn[k].c \in Clients /\ conn[k].d \in Clients /\ conn[k].t \in Services
  /\ \A c \in Clients : Counted(c)
  /\ \A c \in Clients : \A k, l \in Mine(c) : conn[k].port = conn[l].port => k = l

PortOK ==
  /\ portMap \in [Clients -> [Clients -> [VPort -> OrNone(Services)]]]
  /\ \A d \in Clients, c \in Clients, p \in VPort :
       portMap[d][c][p] # None => Registers(c, d, p, portMap[d][c][p])

ServedOK ==
  /\ served \in [Conns -> Served]
  /\ \A k \in Conns : served[k].at # "none" =>
       conn[k].at # "none" /\ served[k].t = conn[k].t

HopOK ==
  /\ hop \in [Hops -> Hop]
  /\ \A h \in Hops :
       /\ hop[h].at # "none" =>
            hop[h].c \in Clients /\ hop[h].v \in Clients /\ hop[h].t \in Services
       /\ hop[h].entry => hop[h].at # "none"
  /\ bridges \subseteq {"in", "out"} \X Hops
  /\ tout \in [Hops -> {"none", "open", "ending", "closed"}]
  /\ got \in [Hops -> SUBSET Conns]

TunOK ==
  /\ tun \in [Hops -> OrNone(Conns)]
  /\ \A h \in Hops : tun[h] # None => conn[tun[h]].at # "none"

MapOK ==
  /\ direct \in [Clients -> SUBSET Clients] /\ known \in [Clients -> SUBSET Clients]
  /\ maps \in [Clients -> [Clients -> SUBSET Clients]]
  /\ via \in [Clients -> [Clients -> OrNone(Clients)]]
  /\ trying \in [Clients -> SUBSET (Clients \X OrNone(Clients))]
  /\ casting \in [Clients -> SUBSET ({"punch", "tick"} \X ((SUBSET Clients) \cup {None}))]

IInv == /\ BaseOK /\ InboxOK /\ UdpOK /\ ListenOK /\ ConnOK /\ PortOK /\ ServedOK
        /\ HopOK /\ TunOK /\ MapOK

-----------------------------------------------------------------------------
(* Connections keep what they are.                                         *)

SameId(q, r) == /\ q.c = r.c /\ q.d = r.d /\ q.t = r.t /\ q.port = r.port
                /\ q.h = r.h /\ (q.at = "none" <=> r.at = "none")
                /\ q.slow => r.slow \/ r.h # None

Kept == \A k \in Conns : conn[k].at # "none" => SameId(conn'[k], conn[k])

LEMMA DialsKept ==
  ASSUME Kept, NEW k \in Conns, NEW c, NEW d, Dials(k, c, d)
  PROVE  Dials(k, c, d)' /\ conn'[k].port = conn[k].port /\ conn'[k].t = conn[k].t
  BY DEF Kept, SameId, Dials

LEMMA RegistersKept ==
  ASSUME Kept, NEW c, NEW d, NEW p, NEW t, Registers(c, d, p, t)
  PROVE  Registers(c, d, p, t)'
<1>1. PICK k \in Conns : Dials(k, c, d) /\ conn[k].port = p /\ conn[k].t = t
  BY DEF Registers
<1>2. Dials(k, c, d)' /\ conn'[k].port = p /\ conn'[k].t = t
  BY <1>1, DialsKept
<1>. QED
  BY <1>2 DEF Registers

LEMMA MessageFields ==
  ASSUME NEW m \in Message
  PROVE  /\ m.from \in Clients
         /\ m.type = "fwd_data" => m.id \in Segment \X Conns
         /\ m.type = "reverse_forward_offer" => m.id \in Services
         /\ m.type = "open_tunnel" => m.id \in TunnelID /\ m.t \in OrNone(Services)
         /\ m.type \in {"tunnel_opened", "tunnel_rejected", "close_tunnel",
                        "tunnel_data"} => m.id \in TunnelID
         /\ m.type \in {"hop_forward", "hop_forward_accept", "hop_forward_reject"}
              => m.id \in Hops
         /\ m.type = "tunnel_data" => m.k \in Conns
         /\ m.type = "p2p_map" => m.peers \in SUBSET Clients
  BY DEF Message

LEMMA FitsKept ==
  ASSUME Kept, NEW m \in Message, NEW d, Fits(m, d)
  PROVE  Fits(m, d)'
<1>1. ASSUME m.type = "fwd_data", m.id[1] = "syn"
      PROVE  Dials(m.id[2], m.from, d)'
  <2>1. m.id[2] \in Conns /\ Dials(m.id[2], m.from, d)
    BY <1>1, MessageFields DEF Fits
  <2>. QED
    BY <2>1, DialsKept
<1>2. ASSUME m.type = "open_tunnel", IsNs(m.id)
      PROVE  Registers(m.from, d, m.id[2], m.t)'
  BY <1>2, RegistersKept DEF Fits
<1>. QED
  BY <1>1, <1>2 DEF Fits

LEMMA FitKept ==
  ASSUME Kept
  PROVE  \A d \in Clients : Fit[d] \subseteq Fit'[d]
  BY FitsKept DEF Fit

LEMMA WireKept ==
  ASSUME Kept
  PROVE  Wire \subseteq Wire'
  BY DialsKept DEF Wire

-----------------------------------------------------------------------------
(* Inboxes.                                                                *)

LEMMA SeqMore ==
  ASSUME NEW S, NEW T, S \subseteq T, NEW s \in Seq(S)
  PROVE  s \in Seq(T)
  OBVIOUS

LEMMA SeqAppend ==
  ASSUME NEW S, NEW s \in Seq(S), NEW m \in S
  PROVE  Append(s, m) \in Seq(S)
  OBVIOUS

LEMMA SeqTail ==
  ASSUME NEW S, NEW s \in Seq(S), s # <<>>
  PROVE  Tail(s) \in Seq(S) /\ Head(s) \in S
  OBVIOUS

LEMMA BoxesMore ==
  ASSUME NEW F, NEW G, NEW box, Boxes(F, box), \A d \in Clients : F[d] \subseteq G[d]
  PROVE  Boxes(G, box)
  BY SeqMore DEF Boxes

(* A message is added where it fits, if both ends are in the room.         *)
LEMMA BoxesRelay ==
  ASSUME NEW F, NEW box, Boxes(F, box), NEW c, NEW d, NEW m, up \subseteq Clients,
         c \in up /\ d \in up => m \in F[d]
  PROVE  Boxes(F, Relay(box, c, d, m))
<1>1. CASE c \in up /\ d \in up
  <2>1. PICK b : b = [box EXCEPT ![d] = Append(@, m)]
    OBVIOUS
  <2>2. d \in Clients /\ box[d] \in Seq(F[d]) /\ m \in F[d]
    BY <1>1 DEF Boxes
  <2>3. Append(box[d], m) \in Seq(F[d])
    BY <2>2, SeqAppend
  <2>4. b = [e \in Clients |-> IF e = d THEN Append(box[d], m) ELSE box[e]]
    BY <2>1, <2>2 DEF Boxes
  <2>5. b = [e \in Clients |-> b[e]] /\ \A e \in Clients : b[e] \in Seq(F[e])
    BY <2>3, <2>4 DEF Boxes
  <2>6. Relay(box, c, d, m) = b
    BY <1>1, <2>1 DEF Relay
  <2>. QED
    BY <2>5, <2>6 DEF Boxes
<1>2. CASE ~(c \in up /\ d \in up)
  BY <1>2 DEF Relay
<1>. QED
  BY <1>1, <1>2

(* A client takes its first message.                                       *)
LEMMA TakenBoxes ==
  ASSUME BaseOK, InboxOK, NEW c, NEW t, Reads(c, t)
  PROVE  /\ c \in Clients /\ Boxes(Fit, Taken(c))
         /\ Head(inbox[c]) \in Message /\ Fits(Head(inbox[c]), c)
         /\ Head(inbox[c]).type = t
<1>1. c \in Clients /\ inbox[c] # <<>> /\ Head(inbox[c]).type = t
  BY DEF BaseOK, Reads
<1>2. PICK F : F = Fit
  OBVIOUS
<1>3. inbox[c] \in Seq(F[c])
  BY <1>1, <1>2 DEF InboxOK, Boxes
<1>4. Tail(inbox[c]) \in Seq(F[c]) /\ Head(inbox[c]) \in F[c]
  BY <1>1, <1>3, SeqTail
<1>5. PICK b : b = Taken(c)
  OBVIOUS
<1>6. b = [e \in Clients |-> IF e = c THEN Tail(inbox[c]) ELSE inbox[e]]
  BY <1>1, <1>5 DEF Taken, InboxOK, Boxes
<1>7. b = [e \in Clients |-> b[e]] /\ \A e \in Clients : b[e] \in Seq(F[e])
  BY <1>2, <1>4, <1>6 DEF InboxOK, Boxes
<1>8. Head(inbox[c]) \in Message /\ Fits(Head(inbox[c]), c)
  BY <1>1, <1>2, <1>4 DEF Fit
<1>. QED
  BY <1>1, <1>2, <1>5, <1>7, <1>8 DEF Boxes

(* What is on its way after a step.                                        *)
LEMMA InboxStep ==
  ASSUME Kept, NEW box, Boxes(Fit, box), inbox' = box
  PROVE  InboxOK'
<1>1. PICK F, G : F = Fit /\ G = Fit'
  OBVIOUS
<1>2. Boxes(G, box)
  BY <1>1, FitKept, BoxesMore
<1>. QED
  BY <1>1, <1>2 DEF InboxOK, Boxes

-----------------------------------------------------------------------------
(* Parts that a step leaves alone.                                         *)

LEMMA SameBase == BaseOK /\ UNCHANGED <<case, up>> /\ todo' \subseteq todo => BaseOK'
  BY DEF BaseOK

LEMMA SameListen == ListenOK /\ UNCHANGED <<listen, force, pend, stack>> => ListenOK'
  BY DEF ListenOK

LEMMA SameHop == HopOK /\ UNCHANGED <<hop, bridges, tout, got>> => HopOK'
  BY DEF HopOK

LEMMA SameMap == MapOK /\ UNCHANGED mapVars => MapOK'
  BY DEF MapOK, mapVars

LEMMA SameConn == ConnOK /\ UNCHANGED <<conn, counter>> => ConnOK' /\ Kept
  BY DEF ConnOK, Counted, Mine, Kept, SameId

LEMMA KeptUdp == UdpOK /\ Kept /\ udp' \subseteq udp => UdpOK'
  BY WireKept DEF UdpOK

LEMMA KeptInbox == InboxOK /\ Kept /\ UNCHANGED inbox => InboxOK'
<1>. SUFFICES ASSUME InboxOK, Kept, UNCHANGED inbox PROVE InboxOK'
  OBVIOUS
<1>1. PICK box : box = inbox
  OBVIOUS
<1>. QED
  BY <1>1, InboxStep DEF InboxOK

LEMMA KeptPort == PortOK /\ Kept /\ UNCHANGED portMap => PortOK'
<1>. SUFFICES ASSUME PortOK, Kept, UNCHANGED portMap PROVE PortOK'
  OBVIOUS
<1>1. ASSUME NEW d \in Clients, NEW c \in Clients, NEW p \in VPort,
             portMap[d][c][p] # None
      PROVE  Registers(c, d, p, portMap[d][c][p])'
  <2>1. PICK t : t = portMap[d][c][p]
    OBVIOUS
  <2>2. Registers(c, d, p, t)
    BY <1>1, <2>1 DEF PortOK
  <2>3. Registers(c, d, p, t)'
    BY <2>2, RegistersKept
  <2>4. t = portMap'[d][c][p]
    BY <2>1
  <2>. QED
    BY <2>3, <2>4 DEF Registers
<1>. QED
  BY <1>1 DEF PortOK

LEMMA KeptServed == ServedOK /\ Kept /\ UNCHANGED served => ServedOK'
  BY DEF ServedOK, Kept, SameId

LEMMA KeptTun == TunOK /\ Kept /\ UNCHANGED tun => TunOK'
<1>. SUFFICES ASSUME TunOK, Kept, UNCHANGED tun PROVE TunOK'
  OBVIOUS
<1>1. ASSUME NEW h \in Hops, tun[h] # None PROVE conn'[tun[h]].at # "none"
  <2>1. tun[h] \in Conns /\ conn[tun[h]].at # "none"
    BY <1>1 DEF TunOK, OrNone
  <2>. QED
    BY <2>1 DEF Kept, SameId
<1>. QED
  BY <1>1 DEF TunOK

-----------------------------------------------------------------------------
(* Connections change their state, and nothing of what they are for.       *)

LEMMA EditConns ==
  ASSUME ConnOK, UNCHANGED counter, conn' \in [Conns -> Conn],
         \A k \in Conns : SameId(conn'[k], conn[k])
  PROVE  ConnOK' /\ Kept
<1>1. Kept
  BY DEF Kept
<1>2. ASSUME NEW c PROVE Mine(c)' = Mine(c)
  BY DEF Mine, SameId
<1>3. \A k \in Conns : conn'[k].port = conn[k].port
  BY DEF SameId
<1>4. \A c : Mine(c) \subseteq Conns
  BY DEF Mine
<1>5. \A c \in Clients : Counted(c)'
  <2>. SUFFICES ASSUME NEW c \in Clients PROVE Counted(c)'
    OBVIOUS
  <2>1. Counted(c)
    BY DEF ConnOK
  <2>2. PICK n : n = Cardinality(Mine(c))
    OBVIOUS
  <2>3. Cardinality(Mine(c)') = n
    BY <1>2, <2>2
  <2>4. n < VPorts => counter[c] = n /\ \A k \in Mine(c) : conn[k].port \in 1 .. n
    BY <2>1, <2>2 DEF Counted
  <2>5. n < VPorts => counter'[c] = n /\ \A k \in Mine(c)' : conn'[k].port \in 1 .. n
    BY <1>2, <1>3, <1>4, <2>4
  <2>. QED
    BY <2>3, <2>5 DEF Counted
<1>6. \A c \in Clients : \A k, l \in Mine(c)' : conn'[k].port = conn'[l].port => k = l
  BY <1>2, <1>3, <1>4 DEF ConnOK
<1>7. \A k \in Conns :
        /\ conn'[k].at = "none" => conn'[k].c = None
        /\ conn'[k].slow => conn'[k].h # None
        /\ conn'[k].at # "none" => /\ conn'[k].c \in Clients /\ conn'[k].d \in Clients
                                   /\ conn'[k].t \in Services
  BY DEF ConnOK, SameId
<1>8. counter' \in [Clients -> VPort]
  BY DEF ConnOK
<1>. QED
  BY <1>1, <1>5, <1>6, <1>7, <1>8 DEF ConnOK

LEMMA EditConn ==
  ASSUME ConnOK, UNCHANGED counter, NEW k \in Conns, NEW q \in Conn,
         conn' = [conn EXCEPT ![k] = q], SameId(q, conn[k])
  PROVE  ConnOK' /\ Kept
<1>1. conn' \in [Conns -> Conn]
  BY DEF ConnOK
<1>2. \A l \in Conns : conn'[l] = IF l = k THEN q ELSE conn[l]
  BY DEF ConnOK
<1>3. \A l \in Conns : SameId(conn'[l], conn[l])
  BY <1>2 DEF SameId
<1>. QED
  BY <1>1, <1>3, EditConns

(* The state of a connection that exists changes.                          *)
LEMMA SetAt ==
  ASSUME ConnOK, UNCHANGED counter, NEW k \in Conns, conn[k].at # "none",
         NEW v \in {"wait", "dial", "open", "ending", "closed"},
         conn' = [conn EXCEPT ![k].at = v]
  PROVE  ConnOK' /\ Kept
<1>1. PICK r \in Conn : r = conn[k]
  BY DEF ConnOK
<1>2. PICK q : q = [r EXCEPT !.at = v]
  OBVIOUS
<1>3. q \in Conn /\ SameId(q, r)
  BY <1>1, <1>2 DEF Conn, SameId
<1>4. conn' = [conn EXCEPT ![k] = q]
  BY <1>1, <1>2
<1>. QED
  BY <1>1, <1>3, <1>4, EditConn

-----------------------------------------------------------------------------
(* The netstacks.                                                          *)

LEMMA PutEntry ==
  ASSUME NEW S, NEW T, NEW V, NEW f \in [S -> [T -> V]], NEW a \in S, NEW b \in T,
         NEW v \in V
  PROVE  LET g == [f EXCEPT ![a][b] = v]
         IN  /\ g \in [S -> [T -> V]]
             /\ \A x \in S, y \in T : g[x][y] = IF x = a /\ y = b THEN v ELSE f[x][y]
<1>1. PICK g : g = [f EXCEPT ![a][b] = v]
  OBVIOUS
<1>2. g \in [S -> [T -> V]]
  BY <1>1
<1>3. ASSUME NEW x \in S, NEW y \in T
      PROVE  g[x][y] = IF x = a /\ y = b THEN v ELSE f[x][y]
  <2>1. CASE x = a
    BY <1>1, <2>1
  <2>2. CASE x # a
    BY <1>1, <2>2
  <2>. QED
    BY <2>1, <2>2
<1>. QED
  BY <1>1, <1>2, <1>3

LEMMA StackType ==
  ASSUME ListenOK, NEW c \in Clients, NEW d \in Clients, NEW role \in {"init", "resp"}
  PROVE  getOrCreateFwdNetstack(c, d, role)
           \in [Clients -> [Clients -> {"none", "init", "resp"}]]
<1>1. PICK f \in [Clients -> [Clients -> {"none", "init", "resp"}]] : f = stack
  BY DEF ListenOK
<1>2. [f EXCEPT ![c][d] = role] \in [Clients -> [Clients -> {"none", "init", "resp"}]]
  BY PutEntry
<1>. QED
  BY <1>1, <1>2 DEF getOrCreateFwdNetstack

LEMMA SendPacket ==
  ASSUME BaseOK, Kept, NEW u, u \subseteq Wire, NEW box, Boxes(Fit, box),
         NEW c \in Clients, NEW d \in Clients, NEW seg \in Segment, NEW k \in Conns,
         seg = "syn" => Dials(k, c, d), sendPacket(u, box, c, d, seg, k)
  PROVE  UdpOK' /\ InboxOK'
<1>1. CASE udp' = u \cup {<<seg, k, c, d>>} /\ inbox' = box
  <2>1. <<seg, k, c, d>> \in Wire
    BY DEF Wire
  <2>. QED
    BY <1>1, <2>1, WireKept, InboxStep DEF UdpOK
<1>2. CASE /\ udp' = u
           /\ inbox' = Relay(box, c, d, Msg("fwd_data", c, <<seg, k>>))
  <2>1. PICK F : F = Fit
    OBVIOUS
  <2>2. PICK m : m = Msg("fwd_data", c, <<seg, k>>)
    OBVIOUS
  <2>3. m \in Message /\ m.from = c /\ m.id = <<seg, k>> /\ m.type = "fwd_data"
    BY <2>2 DEF Msg, Message
  <2>4. Fits(m, d)
    BY <2>3 DEF Fits
  <2>5. m \in F[d]
    BY <2>1, <2>3, <2>4 DEF Fit
  <2>6. PICK b : b = Relay(box, c, d, m)
    OBVIOUS
  <2>7. Boxes(F, b)
    BY <2>1, <2>5, <2>6, BoxesRelay DEF BaseOK
  <2>. QED
    BY <1>2, <2>1, <2>2, <2>6, <2>7, WireKept, InboxStep DEF UdpOK
<1>. QED
  BY <1>1, <1>2 DEF sendPacket

(* Steps that concern connections only.                                    *)
LEMMA ConnFrame ==
  ASSUME IInv, UNCHANGED <<case, up>>, todo' \subseteq todo,
         UNCHANGED <<listen, force, counter, pend, stack, portMap, hop, bridges, tun,
                     tout, got, mapVars>>,
         Kept, ConnOK', ServedOK', UdpOK', InboxOK'
  PROVE  IInv'
  BY SameBase, SameListen, SameHop, SameMap, KeptPort, KeptTun DEF IInv

(* What a netstack serves is what the connection is for.                   *)
LEMMA ServedByPort ==
  ASSUME ConnOK, PortOK, NEW c \in Clients, NEW d \in Clients, NEW k \in Conns,
         Dials(k, d, c), portMap[c][d][conn[k].port] # None
  PROVE  portMap[c][d][conn[k].port] = conn[k].t
<1>1. PICK p \in VPort : p = conn[k].port
  BY DEF ConnOK, Conn
<1>2. PICK l \in Conns : /\ Dials(l, d, c) /\ conn[l].port = p
                         /\ conn[l].t = portMap[c][d][p]
  BY <1>1 DEF PortOK, Registers
<1>3. k \in Mine(d) /\ l \in Mine(d)
  BY <1>2 DEF Mine, Dials
<1>4. k = l
  BY <1>1, <1>2, <1>3 DEF ConnOK
<1>. QED
  BY <1>1, <1>2, <1>4

LEMMA HandleIncoming ==
  ASSUME IInv, NEW u, u \subseteq Wire, NEW box, Boxes(Fit, box),
         NEW c \in Clients, NEW d \in Clients, NEW k \in Conns, Dials(k, d, c),
         UNCHANGED conn, handleIncoming(u, box, c, d, k)
  PROVE  ServedOK' /\ UdpOK' /\ InboxOK'
<1>0. Kept
  BY DEF Kept, SameId
<1>1. PICK seg \in {"synack", "rst"} : sendPacket(u, box, c, d, seg, k)
  BY DEF handleIncoming
<1>2. UdpOK' /\ InboxOK'
  BY <1>0, <1>1, SendPacket DEF IInv, Segment
<1>3. ServedOK'
  <2>1. CASE UNCHANGED served
    BY <1>0, <2>1, KeptServed DEF IInv
  <2>2. PICK t : t = portMap[c][d][conn[k].port]
    OBVIOUS
  <2>3. CASE t # None /\ served' = [served EXCEPT ![k] = [at |-> "dial", t |-> t]]
    <3>1. t = conn[k].t /\ conn[k].at # "none"
      BY <2>2, <2>3, ServedByPort DEF IInv, Dials
    <3>2. t \in Services
      BY <3>1 DEF IInv, ConnOK
    <3>3. PICK s : s = [at |-> "dial", t |-> t]
      OBVIOUS
    <3>3a. s \in Served /\ s.t = t
      BY <3>2, <3>3 DEF Served, OrNone
    <3>4. served' = [served EXCEPT ![k] = s] /\ served \in [Conns -> Served]
      BY <2>3, <3>3 DEF IInv, ServedOK
    <3>5. /\ served' \in [Conns -> Served]
          /\ \A l \in Conns : served'[l] = IF l = k THEN s ELSE served[l]
      BY <3>3a, <3>4
    <3>. QED
      BY <3>1, <3>3a, <3>5 DEF IInv, ServedOK
  <2>. QED
    BY <2>1, <2>2, <2>3 DEF handleIncoming
<1>. QED
  BY <1>2, <1>3

(* The far end of a connection changes its state.                          *)
LEMMA SetServed ==
  ASSUME IInv, Kept, NEW k \in Conns, served[k].at # "none",
         NEW v \in {"dial", "open", "closed"}, served' = [served EXCEPT ![k].at = v]
  PROVE  ServedOK'
<1>1. PICK r \in Served : r = served[k]
  BY DEF IInv, ServedOK
<1>2. PICK q : q = [r EXCEPT !.at = v]
  OBVIOUS
<1>3. q \in Served /\ q.t = r.t
  BY <1>1, <1>2 DEF Served
<1>4. served' = [served EXCEPT ![k] = q] /\ served \in [Conns -> Served]
  BY <1>1, <1>2 DEF IInv, ServedOK
<1>5. /\ served' \in [Conns -> Served]
      /\ \A l \in Conns : served'[l] = IF l = k THEN q ELSE served[l]
  BY <1>3, <1>4
<1>6. ASSUME NEW l \in Conns, served'[l].at # "none"
      PROVE  conn'[l].at # "none" /\ served'[l].t = conn'[l].t
  <2>1. served[l].at # "none" /\ served'[l].t = served[l].t
    BY <1>1, <1>3, <1>5, <1>6
  <2>. QED
    BY <2>1 DEF IInv, ServedOK, Kept, SameId
<1>. QED
  BY <1>5, <1>6 DEF ServedOK

LEMMA InjectStep ==
  ASSUME IInv, UNCHANGED <<case, todo, up, nsRest, hopVars, mapVars>>,
         NEW u, u \subseteq Wire, NEW box, Boxes(Fit, box),
         NEW c \in Clients, NEW d \in Clients, NEW seg \in Segment, NEW k \in Conns,
         seg = "syn" => Dials(k, d, c), InjectInbound(u, box, c, d, seg, k)
  PROVE  IInv'
<1>0. UNCHANGED <<listen, force, counter, pend, stack, portMap, hop, bridges, tun,
                  tout, got>>
  BY DEF nsRest, hopVars
<1>1. ASSUME UNCHANGED conn PROVE ConnOK' /\ Kept
  BY <1>0, <1>1, SameConn DEF IInv
<1>2. ASSUME Kept, udp' = u, inbox' = box PROVE UdpOK' /\ InboxOK'
  BY <1>2, WireKept, InboxStep DEF UdpOK
<1>3. CASE udp' = u /\ inbox' = box /\ UNCHANGED <<conn, served>>
  BY <1>0, <1>1, <1>2, <1>3, KeptServed, ConnFrame DEF IInv
<1>4. CASE seg = "syn" /\ handleIncoming(u, box, c, d, k) /\ UNCHANGED conn
  <2>1. ServedOK' /\ UdpOK' /\ InboxOK'
    BY <1>4, HandleIncoming
  <2>. QED
    BY <1>0, <1>1, <1>4, <2>1, ConnFrame DEF IInv
<1>5. CASE /\ conn[k].at = "dial" /\ conn' = [conn EXCEPT ![k].at = "open"]
           /\ udp' = u /\ inbox' = box /\ UNCHANGED served
  <2>1. ConnOK' /\ Kept
    BY <1>0, <1>5, SetAt DEF IInv
  <2>. QED
    BY <1>0, <1>2, <1>5, <2>1, KeptServed, ConnFrame DEF IInv
<1>6. CASE sendPacket(u, box, c, d, "fin", k) /\ UNCHANGED <<conn, served>>
  <2>1. UdpOK' /\ InboxOK'
    BY <1>1, <1>6, SendPacket DEF IInv, Segment
  <2>. QED
    BY <1>0, <1>1, <1>6, <2>1, KeptServed, ConnFrame DEF IInv
<1>7. CASE /\ c = conn[k].c
           /\ conn' = [conn EXCEPT ![k].at = IF @ = "wait" THEN @ ELSE "closed"]
           /\ udp' = u /\ inbox' = box /\ UNCHANGED served
  <2>1. conn[k].at # "none"
    BY <1>7, ForwardAssumption DEF IInv, ConnOK
  <2>2. PICK v \in {"wait", "closed"} : conn' = [conn EXCEPT ![k].at = v]
    BY <1>7
  <2>3. ConnOK' /\ Kept
    BY <1>0, <2>1, <2>2, SetAt DEF IInv
  <2>. QED
    BY <1>0, <1>2, <1>7, <2>3, KeptServed, ConnFrame DEF IInv
<1>8. CASE /\ served' = IF served[k].at # "none"
                        THEN [served EXCEPT ![k].at = "closed"] ELSE served
           /\ udp' = u /\ inbox' = box /\ UNCHANGED conn
  <2>1. ServedOK'
    BY <1>1, <1>8, SetServed, KeptServed DEF IInv
  <2>. QED
    BY <1>0, <1>1, <1>2, <1>8, <2>1, ConnFrame DEF IInv
<1>. QED
  BY <1>3, <1>4, <1>5, <1>6, <1>7, <1>8 DEF InjectInbound

LEMMA FwdNetstackPacketStep ==
  ASSUME IInv, NEW c \in Clients, handleFwdNetstackPacket(c)
  PROVE  IInv'
<1>0. UNCHANGED <<case, todo, up, nsRest, hopVars, mapVars>>
  BY DEF handleFwdNetstackPacket
<1>1. PICK p \in udp :
        /\ p[4] = c
        /\ \/ InjectInbound(udp \ {p}, inbox, c, p[3], p[1], p[2])
           \/ udp' = udp \ {p} /\ UNCHANGED <<inbox, conn, served>>
  BY DEF handleFwdNetstackPacket
<1>2. p \in Wire
  BY DEF IInv, UdpOK
<1>3. /\ p[1] \in Segment /\ p[2] \in Conns /\ p[3] \in Clients
      /\ p[1] = "syn" => Dials(p[2], p[3], c)
  BY <1>1, <1>2 DEF Wire
<1>4. CASE InjectInbound(udp \ {p}, inbox, c, p[3], p[1], p[2])
  <2>1. PICK u, box : u = udp \ {p} /\ box = inbox
    OBVIOUS
  <2>2. u \subseteq Wire /\ Boxes(Fit, box)
    BY <2>1 DEF IInv, UdpOK, InboxOK
  <2>. QED
    BY <1>0, <1>3, <1>4, <2>1, <2>2, InjectStep
<1>5. CASE udp' = udp \ {p} /\ UNCHANGED <<inbox, conn, served>>
  <2>1. ConnOK' /\ Kept
    BY <1>0, <1>5, SameConn DEF IInv, nsRest
  <2>. QED
    BY <1>0, <1>5, <2>1, KeptServed, KeptUdp, KeptInbox, ConnFrame
    DEF IInv, nsRest, hopVars
<1>. QED
  BY <1>1, <1>4, <1>5

LEMMA FwdDataStep ==
  ASSUME IInv, NEW c \in Clients, handleFwdData(c)
  PROVE  IInv'
<1>0. UNCHANGED <<case, todo, up, nsRest, hopVars, mapVars>>
  BY DEF handleFwdData
<1>1. PICK m : m = Head(inbox[c])
  OBVIOUS
<1>2. PICK box : box = Taken(c)
  OBVIOUS
<1>3. Boxes(Fit, box) /\ m \in Message /\ Fits(m, c) /\ m.type = "fwd_data"
  BY <1>1, <1>2, TakenBoxes DEF IInv, handleFwdData
<1>4. /\ m.from \in Clients /\ m.id[1] \in Segment /\ m.id[2] \in Conns
      /\ m.id[1] = "syn" => Dials(m.id[2], m.from, c)
  BY <1>3, MessageFields DEF Fits
<1>5. PICK u : u = udp
  OBVIOUS
<1>6. InjectInbound(u, box, c, m.from, m.id[1], m.id[2]) /\ u \subseteq Wire
  BY <1>1, <1>2, <1>5 DEF handleFwdData, IInv, UdpOK
<1>. QED
  BY <1>0, <1>3, <1>4, <1>6, InjectStep

LEMMA LoseSynStep ==
  ASSUME IInv, loseSyn
  PROVE  IInv'
<1>0. /\ UNCHANGED <<case, todo, up, inbox, conn, served, nsRest, hopVars, mapVars>>
      /\ udp' \subseteq udp
  BY DEF loseSyn
<1>1. ConnOK' /\ Kept
  BY <1>0, SameConn DEF IInv, nsRest
<1>. QED
  BY <1>0, <1>1, KeptServed, KeptUdp, KeptInbox, ConnFrame DEF IInv, nsRest, hopVars

-----------------------------------------------------------------------------
(* Messages that a client sends through the server.                        *)

(* Box is what inbox becomes; the message fits its reader.                 *)
LEMMA RelayFits ==
  ASSUME BaseOK, NEW box, Boxes(Fit, box), NEW c, NEW d, NEW m \in Message,
         d \in Clients => Fits(m, d)
  PROVE  Boxes(Fit, Relay(box, c, d, m))
<1>1. PICK F : F = Fit
  OBVIOUS
<1>2. c \in up /\ d \in up => m \in F[d]
  BY <1>1 DEF BaseOK, Fit
<1>. QED
  BY <1>1, <1>2, BoxesRelay DEF BaseOK

(* Messages of the other kinds fit everybody.                              *)
LEMMA TunnelMsg ==
  ASSUME NEW c \in Clients, NEW d, NEW id \in TunnelID,
         NEW t \in {"tunnel_opened", "tunnel_rejected", "close_tunnel"}
  PROVE  Msg(t, c, id) \in Message /\ Fits(Msg(t, c, id), d)
  BY DEF Msg, Message, Fits

LEMMA HopMsg ==
  ASSUME NEW c \in Clients, NEW d, NEW h \in Hops,
         NEW t \in {"hop_forward", "hop_forward_accept", "hop_forward_reject"}
  PROVE  Msg(t, c, h) \in Message /\ Fits(Msg(t, c, h), d)
  BY DEF Msg, Message, Fits

(* Steps that leave the connections alone.                                 *)
LEMMA StillFrame ==
  ASSUME IInv, BaseOK', UNCHANGED <<udp, conn, counter, portMap, served, tun>>,
         ListenOK', HopOK', MapOK', NEW box, Boxes(Fit, box), inbox' = box
  PROVE  IInv'
<1>1. ConnOK' /\ Kept
  BY SameConn DEF IInv
<1>. QED
  BY <1>1, InboxStep, KeptUdp, KeptPort, KeptServed, KeptTun DEF IInv

LEMMA DoesLess == \A op : Does(op) => todo' \subseteq todo
  BY DEF Does

-----------------------------------------------------------------------------
(* Forwards.                                                               *)

LEMMA StartHop ==
  ASSUME BaseOK, HopOK, UNCHANGED <<bridges, tout, got>>, NEW box, Boxes(Fit, box),
         NEW c \in Clients, NEW v \in Clients, NEW d \in Clients, NEW t \in Services,
         StartHopForward(box, c, v, d, t)
  PROVE  HopOK' /\ Boxes(Fit, inbox')
<1>1. PICK h \in Hops :
        /\ hop' = [hop EXCEPT ![h] = [at |-> "asked", entry |-> TRUE, c |-> c,
                                      v |-> v, d |-> d, t |-> t]]
        /\ inbox' = Relay(box, c, v, Msg("hop_forward", c, h))
  BY DEF StartHopForward
<1>2. PICK m : m = Msg("hop_forward", c, h)
  OBVIOUS
<1>3. m \in Message /\ Fits(m, v)
  BY <1>2, HopMsg
<1>4. Boxes(Fit, inbox')
  BY <1>1, <1>2, <1>3, RelayFits
<1>5. PICK q : q = [at |-> "asked", entry |-> TRUE, c |-> c, v |-> v, d |-> d, t |-> t]
  OBVIOUS
<1>6. /\ q \in Hop /\ q.c \in Clients /\ q.v \in Clients /\ q.t \in Services
      /\ q.at # "none"
  BY <1>5 DEF Hop, OrNone
<1>7. hop' = [hop EXCEPT ![h] = q] /\ hop \in [Hops -> Hop]
  BY <1>1, <1>5 DEF HopOK
<1>8. /\ hop' \in [Hops -> Hop]
      /\ \A g \in Hops : hop'[g] = IF g = h THEN q ELSE hop[g]
  BY <1>6, <1>7
<1>9. HopOK'
  BY <1>6, <1>8 DEF HopOK
<1>. QED
  BY <1>4, <1>9

(* A user's forward, or one that a peer has asked for.                     *)
LEMMA StartForwardStep ==
  ASSUME IInv, UNCHANGED <<force, pend, stack, bridges, tout, got>>,
         NEW c \in Clients, NEW d \in Clients, NEW t \in Services,
         NEW yes, NEW no, Boxes(Fit, yes), Boxes(Fit, no),
         StartForward(c, d, t, yes, no)
  PROVE  ListenOK' /\ HopOK' /\ Boxes(Fit, inbox')
<1>1. CASE /\ \E v \in Clients : StartHopForward(yes, c, v, d, t)
           /\ UNCHANGED listen
  BY <1>1, StartHop, SameListen DEF IInv
<1>2. CASE inbox' = no /\ UNCHANGED <<listen, hop>>
  BY <1>2, SameListen, SameHop DEF IInv
<1>3. CASE /\ listen' = [listen EXCEPT ![c][t] = d]
           /\ inbox' = yes /\ UNCHANGED hop
  <2>1. listen' \in [Clients -> [Services -> OrNone(Clients)]]
    BY <1>3 DEF IInv, ListenOK, OrNone
  <2>. QED
    BY <1>3, <2>1, SameHop DEF IInv, ListenOK
<1>4. findAutoHopCandidate(c, d) \subseteq Clients
  BY DEF findAutoHopCandidate
<1>. QED
  BY <1>1, <1>2, <1>3, <1>4 DEF StartForward

LEMMA UserForwardStep ==
  ASSUME IInv, NEW c \in Clients, NEW d \in Clients, NEW t \in Services,
         userForward(c, d, t)
  PROVE  IInv'
<1>0. /\ UNCHANGED <<case, up, udp, force, counter, pend, conn, stack, portMap,
                     served, bridges, tun, tout, got, mapVars>>
      /\ todo' \subseteq todo
  BY DoesLess DEF userForward
<1>1. PICK box : box = inbox
  OBVIOUS
<1>2. Boxes(Fit, box) /\ StartForward(c, d, t, box, box)
  BY <1>1 DEF IInv, InboxOK, userForward
<1>3. ListenOK' /\ HopOK' /\ Boxes(Fit, inbox')
  BY <1>0, <1>2, StartForwardStep
<1>4. PICK b : b = inbox'
  OBVIOUS
<1>. QED
  BY <1>0, <1>3, <1>4, SameBase, SameMap, StillFrame DEF IInv

LEMMA UserHopStep ==
  ASSUME IInv, NEW c \in Clients, NEW v \in Clients, NEW t \in Services,
         userHop(c, v, t)
  PROVE  IInv'
<1>0. /\ UNCHANGED <<case, up, conn, nsVars, bridges, tun, tout, got, mapVars>>
      /\ todo' \subseteq todo
  BY DoesLess DEF userHop
<1>1. PICK box : box = inbox
  OBVIOUS
<1>2. PICK d \in Clients : StartHopForward(box, c, v, d, t)
  BY <1>1 DEF userHop, IInv, BaseOK
<1>3. HopOK' /\ Boxes(Fit, inbox')
  BY <1>0, <1>1, <1>2, StartHop DEF IInv, InboxOK
<1>4. PICK b : b = inbox'
  OBVIOUS
<1>. QED
  BY <1>0, <1>3, <1>4, SameBase, SameMap, SameListen, StillFrame DEF IInv, nsVars

LEMMA ExposeStep ==
  ASSUME IInv, NEW d \in Clients, NEW c \in Clients, NEW t \in Services,
         ExposePort(d, c, t)
  PROVE  IInv'
<1>0. /\ UNCHANGED <<case, up, conn, nsVars, hopVars, mapVars>>
      /\ todo' \subseteq todo
  BY DoesLess DEF ExposePort
<1>1. PICK m : m = Msg("reverse_forward_offer", d, t)
  OBVIOUS
<1>2. m \in Message /\ Fits(m, c)
  BY <1>1 DEF Msg, Message, Fits
<1>3. PICK box : box = inbox
  OBVIOUS
<1>4. PICK b : b = Relay(box, d, c, m)
  OBVIOUS
<1>5. inbox' = b /\ Boxes(Fit, b)
  BY <1>1, <1>2, <1>3, <1>4, RelayFits DEF ExposePort, IInv, InboxOK
<1>. QED
  BY <1>0, <1>5, SameBase, SameMap, SameListen, SameHop, StillFrame
  DEF IInv, nsVars, hopVars

LEMMA ReverseOfferStep ==
  ASSUME IInv, NEW c \in Clients, handleReverseForwardOffer(c)
  PROVE  IInv'
<1>0. UNCHANGED <<case, todo, up, udp, force, counter, pend, conn, stack, portMap,
                  served, bridges, tun, tout, got, mapVars>>
  BY DEF handleReverseForwardOffer
<1>1. PICK m, box : m = Head(inbox[c]) /\ box = Taken(c)
  OBVIOUS
<1>2. Boxes(Fit, box) /\ m \in Message /\ m.type = "reverse_forward_offer"
  BY <1>1, TakenBoxes DEF IInv, handleReverseForwardOffer
<1>3. m.from \in Clients /\ m.id \in Services
  BY <1>2, MessageFields
<1>4. ASSUME NEW ok \in BOOLEAN
      PROVE  Boxes(Fit, Relay(box, c, m.from,
                          [type |-> "reverse_answer", from |-> c, ok |-> ok]))
  <2>1. PICK a : a = [type |-> "reverse_answer", from |-> c, ok |-> ok]
    OBVIOUS
  <2>2. a \in Message /\ Fits(a, m.from)
    BY <2>1 DEF Message, Fits
  <2>. QED
    BY <1>2, <2>1, <2>2, RelayFits DEF IInv
<1>5. PICK yes, no :
        /\ yes = Relay(box, c, m.from,
                   [type |-> "reverse_answer", from |-> c, ok |-> TRUE])
        /\ no = Relay(box, c, m.from,
                   [type |-> "reverse_answer", from |-> c, ok |-> FALSE])
  OBVIOUS
<1>6. Boxes(Fit, yes) /\ Boxes(Fit, no)
  BY <1>4, <1>5
<1>7. \/ inbox' = no /\ UNCHANGED <<listen, hop>>
      \/ StartForward(c, m.from, m.id, yes, no)
  BY <1>1, <1>5 DEF handleReverseForwardOffer
<1>8. ListenOK' /\ HopOK' /\ Boxes(Fit, inbox')
  BY <1>0, <1>3, <1>6, <1>7, StartForwardStep, SameListen, SameHop DEF IInv
<1>9. PICK b : b = inbox'
  OBVIOUS
<1>. QED
  BY <1>0, <1>8, <1>9, SameBase, SameMap, StillFrame DEF IInv

(* A message is taken and nothing else happens.                            *)
LEMMA ReverseAnswerStep ==
  ASSUME IInv, NEW c \in Clients, handleReverseAnswer(c)
  PROVE  IInv'
<1>0. UNCHANGED <<case, todo, up, conn, nsVars, hopVars, mapVars>>
  BY DEF handleReverseAnswer
<1>1. PICK b : b = Taken(c)
  OBVIOUS
<1>2. inbox' = b /\ Boxes(Fit, b)
  BY <1>1, TakenBoxes DEF handleReverseAnswer, IInv
<1>. QED
  BY <1>0, <1>2, SameBase, SameMap, SameListen, SameHop, StillFrame
  DEF IInv, nsVars, hopVars

LEMMA ForwardModeStep ==
  ASSUME IInv, NEW c \in Clients, NEW t \in Services,
         SetForwardMode(c, t) \/ StopForward(c, t)
  PROVE  IInv'
<1>0. /\ UNCHANGED <<case, up, inbox, conn, udp, counter, pend, stack, portMap,
                     served, hopVars, mapVars>>
      /\ todo' \subseteq todo
  BY DoesLess DEF SetForwardMode, StopForward
<1>1. listen' = listen \/ listen' = [listen EXCEPT ![c][t] = None]
  BY DEF SetForwardMode, StopForward
<1>2. \/ force' = [force EXCEPT ![c] = @ \cup {t}]
      \/ force' = [force EXCEPT ![c] = @ \ {t}]
  BY DEF SetForwardMode, StopForward
<1>3. ListenOK'
  <2>1. /\ listen \in [Clients -> [Services -> OrNone(Clients)]]
        /\ force \in [Clients -> SUBSET Services] /\ None \in OrNone(Clients)
    BY DEF IInv, ListenOK, OrNone
  <2>2. listen' \in [Clients -> [Services -> OrNone(Clients)]]
    BY <1>1, <2>1
  <2>3. force' \in [Clients -> SUBSET Services]
    BY <1>2, <2>1
  <2>. QED
    BY <1>0, <2>2, <2>3 DEF IInv, ListenOK
<1>4. PICK b : b = inbox
  OBVIOUS
<1>. QED
  BY <1>0, <1>3, <1>4, SameBase, SameMap, SameHop, StillFrame
  DEF IInv, InboxOK, hopVars

(* The next virtual port is free while ports have not run out.             *)
LEMMA NextPort ==
  ASSUME NEW n \in Nat, n < VPorts
  PROVE  LET p == (n + 1) % VPorts
         IN  /\ p \in VPort /\ p \notin 1 .. n
             /\ n + 1 < VPorts => p = n + 1
<1>0. VPorts \in Nat \ {0}
  BY ForwardAssumption
<1>1. CASE n + 1 < VPorts
  <2>1. (n + 1) % VPorts = n + 1
    BY <1>0, <1>1
  <2>. QED
    BY <1>0, <1>1, <2>1 DEF VPort
<1>2. CASE n + 1 = VPorts
  <2>1. (n + 1) % VPorts = 0
    BY <1>0, <1>2
  <2>. QED
    BY <1>0, <1>2, <2>1 DEF VPort
<1>. QED
  BY <1>0, <1>1, <1>2

LEMMA Roomy ==
  ASSUME NEW k \in Conns, NEW c, conn[k].at = "none"
  PROVE  /\ IsFiniteSet(Mine(c)) /\ k \notin Mine(c)
         /\ Cardinality(Mine(c)) \in Nat /\ Cardinality(Mine(c)) < VPorts
<1>1. Mine(c) \subseteq Conns \ {k} /\ k \notin Mine(c)
  BY DEF Mine
<1>2. IsFiniteSet(Conns) /\ Cardinality(Conns) <= VPorts /\ VPorts \in Nat
  BY ForwardAssumption
<1>3. /\ IsFiniteSet(Conns \ {k})
      /\ Cardinality(Conns \ {k}) = Cardinality(Conns) - 1
  BY <1>2, FS_RemoveElement
<1>4. /\ IsFiniteSet(Mine(c))
      /\ Cardinality(Mine(c)) <= Cardinality(Conns \ {k})
  BY <1>1, <1>3, FS_Subset
<1>5. Cardinality(Mine(c)) \in Nat /\ Cardinality(Conns) \in Nat
  BY <1>2, <1>4, FS_CardinalityType
<1>. QED
  BY <1>1, <1>2, <1>3, <1>4, <1>5

(* A connection comes to be.                                               *)
LEMMA NewConn ==
  ASSUME ConnOK, NEW k \in Conns, conn[k].at = "none", NEW q \in Conn,
         conn' = [conn EXCEPT ![k] = q], q.at # "none", ~q.slow, q.c \in Clients,
         q.d \in Clients, q.t \in Services, counter' \in [Clients -> VPort],
         \A e \in Clients :
           IF q.h = None /\ q.c = e
           THEN q.port = nextVirtualPort(e) /\ counter'[e] = nextVirtualPort(e)
           ELSE counter'[e] = counter[e]
  PROVE  ConnOK' /\ Kept
<1>1. /\ conn' \in [Conns -> Conn]
      /\ \A l \in Conns : conn'[l] = IF l = k THEN q ELSE conn[l]
  BY DEF ConnOK
<1>2. Kept
  BY <1>1 DEF Kept, SameId
<1>3. \A l \in Conns :
        /\ conn'[l].at = "none" => conn'[l].c = None
        /\ conn'[l].slow => conn'[l].h # None
        /\ conn'[l].at # "none" => /\ conn'[l].c \in Clients /\ conn'[l].d \in Clients
                                   /\ conn'[l].t \in Services
  BY <1>1 DEF ConnOK
<1>4. ASSUME NEW e \in Clients
      PROVE  /\ Counted(e)'
             /\ \A l, m \in Mine(e)' : conn'[l].port = conn'[m].port => l = m
  <2>1. PICK n \in Nat : n = Cardinality(Mine(e)) /\ n < VPorts
    BY Roomy
  <2>2. counter[e] = n /\ \A l \in Mine(e) : conn[l].port \in 1 .. n
    BY <2>1 DEF ConnOK, Counted
  <2>3. Mine(e) \subseteq Conns /\ k \notin Mine(e)
    BY Roomy DEF Mine
  <2>4. \A l, m \in Mine(e) : conn[l].port = conn[m].port => l = m
    BY DEF ConnOK
  <2>5. \A l \in Mine(e) : conn'[l] = conn[l]
    BY <1>1, <2>3
  <2>6. CASE ~(q.h = None /\ q.c = e)
    <3>1. Mine(e)' = Mine(e)
      BY <1>1, <2>3, <2>6 DEF Mine
    <3>2. counter'[e] = n
      BY <2>2, <2>6
    <3>3. \A l \in Mine(e) : conn'[l].port \in 1 .. n
      BY <2>2, <2>5
    <3>4. Counted(e)'
      BY <2>1, <3>1, <3>2, <3>3 DEF Counted
    <3>. QED
      BY <2>4, <2>5, <3>1, <3>4
  <2>7. CASE q.h = None /\ q.c = e
    <3>1. Mine(e)' = Mine(e) \cup {k}
      BY <1>1, <2>3, <2>7 DEF Mine
    <3>2. Cardinality(Mine(e)') = n + 1
      BY <2>1, <2>3, <3>1, Roomy, FS_AddElement
    <3>3. PICK p : p = (n + 1) % VPorts
      OBVIOUS
    <3>4. p \notin 1 .. n /\ (n + 1 < VPorts => p = n + 1)
      BY <2>1, <3>3, NextPort
    <3>5. counter'[e] = p /\ conn'[k].port = p
      BY <1>1, <2>2, <2>7, <3>3 DEF nextVirtualPort
    <3>6. \A l \in Mine(e) : conn'[l].port \in 1 .. n
      BY <2>2, <2>5
    <3>7. n + 1 < VPorts =>
            counter'[e] = n + 1 /\ \A l \in Mine(e)' : conn'[l].port \in 1 .. n + 1
      BY <2>1, <3>1, <3>4, <3>5, <3>6
    <3>8. Counted(e)'
      BY <3>2, <3>7 DEF Counted
    <3>9. \A l, m \in Mine(e)' : conn'[l].port = conn'[m].port => l = m
      BY <2>4, <2>5, <3>1, <3>4, <3>5, <3>6
    <3>. QED
      BY <3>8, <3>9
  <2>. QED
    BY <2>6, <2>7
<1>. QED
  BY <1>1, <1>2, <1>3, <1>4 DEF ConnOK

LEMMA AcceptStep ==
  ASSUME IInv, NEW c \in Clients, NEW t \in Services, NEW k \in Conns,
         acceptLoop(c, t, k)
  PROVE  IInv'
<1>0. /\ UNCHANGED <<case, up, udp, listen, force, portMap, served, hopVars, mapVars>>
      /\ todo' \subseteq todo /\ conn[k].at = "none"
  BY DoesLess DEF acceptLoop
<1>1. PICK d \in Clients : d = listen[c][t]
  BY DEF acceptLoop, IInv, ListenOK, OrNone
<1>2. PICK p \in VPort : p = nextVirtualPort(c)
  <2>1. PICK n \in Nat : n = Cardinality(Mine(c)) /\ n < VPorts
    BY <1>0, Roomy
  <2>2. counter[c] = n
    BY <2>1 DEF IInv, ConnOK, Counted
  <2>. QED
    BY <2>1, <2>2, NextPort DEF nextVirtualPort
<1>3. PICK at \in {"wait", "closed"} : at = IF c \in up THEN "wait" ELSE "closed"
  OBVIOUS
<1>4. PICK q : q = [NoConn EXCEPT !.at = at, !.c = c, !.d = d, !.t = t, !.port = p]
  OBVIOUS
<1>5. /\ q \in Conn /\ q.at # "none" /\ q.c = c /\ q.d = d /\ q.t = t
      /\ q.port = p /\ q.h = None /\ ~q.slow
  BY <1>4 DEF Conn, NoConn, OrNone
<1>6. conn' = [conn EXCEPT ![k] = q] /\ counter' = [counter EXCEPT ![c] = p]
  BY <1>1, <1>2, <1>3, <1>4 DEF acceptLoop
<1>7. ConnOK' /\ Kept
  <2>1. counter \in [Clients -> VPort]
    BY DEF IInv, ConnOK
  <2>2. /\ counter' \in [Clients -> VPort]
        /\ \A e \in Clients : counter'[e] = IF e = c THEN p ELSE counter[e]
    BY <1>6, <2>1
  <2>3. \A e \in Clients :
          IF q.h = None /\ q.c = e
          THEN q.port = nextVirtualPort(e) /\ counter'[e] = nextVirtualPort(e)
          ELSE counter'[e] = counter[e]
    BY <1>2, <1>5, <2>2
  <2>. QED
    BY <1>0, <1>5, <1>6, <2>2, <2>3, NewConn DEF IInv
<1>8. InboxOK'
  <2>1. PICK m : m = [type |-> "open_tunnel", from |-> c, id |-> Ns(p), t |-> t]
    OBVIOUS
  <2>2. m \in Message /\ m.from = c /\ m.id[2] = p /\ m.t = t /\ m.type = "open_tunnel"
    BY <2>1 DEF Message, Ns, TunnelID, OrNone
  <2>3. conn'[k] = q
    BY <1>6 DEF IInv, ConnOK
  <2>4. Registers(c, d, p, t)'
    BY <1>5, <2>3 DEF Registers, Dials
  <2>5. Fits(m, d)'
    BY <2>2, <2>4 DEF Fits
  <2>6. PICK F, G : F = Fit /\ G = Fit'
    OBVIOUS
  <2>7. m \in G[d]
    BY <2>2, <2>5, <2>6 DEF Fit
  <2>8. PICK box : box = inbox
    OBVIOUS
  <2>9. Boxes(G, box)
    BY <1>7, <2>6, <2>8, FitKept, BoxesMore DEF IInv, InboxOK
  <2>10. PICK b : b = Relay(box, c, d, m)
    OBVIOUS
  <2>11. Boxes(G, b)
    BY <2>7, <2>9, <2>10, BoxesRelay DEF IInv, BaseOK
  <2>12. inbox' = b
    BY <1>1, <1>2, <2>1, <2>8, <2>10 DEF acceptLoop
  <2>. QED
    BY <2>6, <2>11, <2>12 DEF InboxOK, Boxes
<1>9. ListenOK'
  <2>1. PICK x \in OrNone(Conns) : pend' = [pend EXCEPT ![c][p] = x]
    BY <1>2 DEF acceptLoop, OrNone
  <2>2. pend' \in [Clients -> [VPort -> OrNone(Conns)]]
    BY <2>1 DEF IInv, ListenOK
  <2>3. stack' = getOrCreateFwdNetstack(c, d, "init")
    BY <1>1 DEF acceptLoop
  <2>4. stack' \in [Clients -> [Clients -> {"none", "init", "resp"}]]
    BY <2>3, StackType DEF IInv
  <2>. QED
    BY <1>0, <2>2, <2>4 DEF IInv, ListenOK
<1>. QED
  BY <1>0, <1>7, <1>8, <1>9, SameBase, SameHop, SameMap, KeptUdp, KeptPort,
     KeptServed, KeptTun
  DEF IInv, hopVars

LEMMA BridgeForwardConnStep ==
  ASSUME IInv, NEW k \in Conns, bridgeForwardConn(k)
  PROVE  IInv'
<1>0. UNCHANGED <<case, todo, up, inbox, nsVars, hopVars, mapVars>>
  BY DEF bridgeForwardConn
<1>1. PICK v \in {"dial", "closed"} : conn' = [conn EXCEPT ![k].at = v]
  BY DEF bridgeForwardConn
<1>2. conn[k].at # "none"
  BY DEF bridgeForwardConn
<1>3. ConnOK' /\ Kept
  BY <1>0, <1>1, <1>2, SetAt DEF IInv, nsVars
<1>. QED
  BY <1>0, <1>3, KeptServed, KeptUdp, KeptInbox, ConnFrame DEF IInv, nsVars, hopVars

LEMMA DialStep ==
  ASSUME IInv, NEW k \in Conns, DialTCP(k)
  PROVE  IInv'
<1>0. UNCHANGED <<case, todo, up, conn, served, nsRest, hopVars, mapVars>>
  BY DEF DialTCP
<1>1. ConnOK' /\ Kept
  BY <1>0, SameConn DEF IInv, nsRest
<1>2. PICK c \in Clients, d \in Clients : c = conn[k].c /\ d = conn[k].d
  BY DEF DialTCP, IInv, ConnOK
<1>3. Dials(k, c, d)
  BY <1>2 DEF DialTCP, Dials
<1>4. PICK u, box : u = udp /\ box = inbox
  OBVIOUS
<1>5. sendPacket(u, box, c, d, "syn", k) /\ u \subseteq Wire /\ Boxes(Fit, box)
  BY <1>2, <1>4 DEF DialTCP, IInv, UdpOK, InboxOK
<1>6. UdpOK' /\ InboxOK'
  BY <1>1, <1>3, <1>5, SendPacket DEF IInv, Segment
<1>. QED
  BY <1>0, <1>1, <1>6, KeptServed, ConnFrame DEF IInv, nsRest, hopVars

LEMMA EndLocalStep ==
  ASSUME IInv, NEW k \in Conns, EndLocal(k)
  PROVE  IInv'
<1>0. /\ UNCHANGED <<case, up, served, nsRest, hopVars, mapVars>>
      /\ todo' \subseteq todo
  BY DoesLess DEF EndLocal
<1>1. conn[k].at # "none" /\ conn' = [conn EXCEPT ![k].at = "closed"]
  BY DEF EndLocal
<1>2. ConnOK' /\ Kept
  BY <1>0, <1>1, SetAt DEF IInv, nsRest
<1>3. PICK c \in Clients, d \in Clients : c = conn[k].c /\ d = conn[k].d
  BY <1>1 DEF IInv, ConnOK
<1>4. PICK u, box : u = udp /\ box = inbox
  OBVIOUS
<1>5. sendPacket(u, box, c, d, "fin", k) /\ u \subseteq Wire /\ Boxes(Fit, box)
  BY <1>3, <1>4 DEF EndLocal, IInv, UdpOK, InboxOK
<1>6. UdpOK' /\ InboxOK'
  BY <1>2, <1>5, SendPacket DEF IInv, Segment
<1>. QED
  BY <1>0, <1>2, <1>6, KeptServed, ConnFrame DEF IInv, nsRest, hopVars

LEMMA BridgeForwardStep ==
  ASSUME IInv, NEW k \in Conns, bridgeForward(k) \/ keepAlive(k)
  PROVE  IInv'
<1>0. /\ UNCHANGED <<case, up, conn, nsRest, hopVars, mapVars>>
      /\ todo' \subseteq todo
  BY DoesLess DEF bridgeForward, keepAlive
<1>1. ConnOK' /\ Kept
  BY <1>0, SameConn DEF IInv, nsRest
<1>2. PICK v \in {"open", "closed"} : served' = [served EXCEPT ![k].at = v]
  BY DEF bridgeForward, keepAlive
<1>3. served[k].at # "none"
  BY DEF bridgeForward, keepAlive
<1>4. ServedOK'
  BY <1>1, <1>2, <1>3, SetServed
<1>5. PICK c \in Clients, d \in Clients : c = conn[k].c /\ d = conn[k].d
  BY <1>3 DEF IInv, ConnOK, ServedOK
<1>6. PICK u, box : u = udp /\ box = inbox
  OBVIOUS
<1>7. u \subseteq Wire /\ Boxes(Fit, box)
  BY <1>6 DEF IInv, UdpOK, InboxOK
<1>8. UNCHANGED <<udp, inbox>> \/ sendPacket(u, box, d, c, "fin", k)
  BY <1>5, <1>6 DEF bridgeForward, keepAlive
<1>9. UdpOK' /\ InboxOK'
  BY <1>1, <1>7, <1>8, SendPacket, KeptUdp, KeptInbox DEF IInv, Segment
<1>. QED
  BY <1>0, <1>1, <1>4, <1>9, ConnFrame DEF IInv, nsRest, hopVars

-----------------------------------------------------------------------------
(* Handlers of the tunnel messages.                                        *)

LEMMA PutIn ==
  ASSUME NEW S, NEW T, NEW V, NEW f \in [S -> [T -> V]], NEW a \in S, NEW b \in T,
         NEW v \in V, NEW g, g = [f EXCEPT ![a][b] = v]
  PROVE  /\ g \in [S -> [T -> V]]
         /\ \A x \in S, y \in T : g[x][y] = IF x = a /\ y = b THEN v ELSE f[x][y]
  BY PutEntry

(* A virtual port is bound to what the request names.                      *)
LEMMA BindPort ==
  ASSUME PortOK, Kept, NEW c \in Clients, NEW d \in Clients, NEW p \in VPort,
         NEW t \in Services, Registers(c, d, p, t),
         portMap' = [portMap EXCEPT ![d][c][p] = t]
  PROVE  PortOK'
<1>0. PICK V : V = [VPort -> OrNone(Services)]
  OBVIOUS
<1>1. PICK f \in [Clients -> [Clients -> V]] : f = portMap
  BY <1>0 DEF PortOK
<1>2. PICK g \in V : g = f[d][c]
  OBVIOUS
<1>3. PICK n : n = [g EXCEPT ![p] = t]
  OBVIOUS
<1>4. n \in V /\ \A x \in VPort : n[x] = IF x = p THEN t ELSE g[x]
  BY <1>0, <1>2, <1>3 DEF OrNone
<1>5. portMap' = [f EXCEPT ![d][c] = n]
  BY <1>1, <1>2, <1>3
<1>6. PICK w : w = [f EXCEPT ![d][c] = n]
  OBVIOUS
<1>7. /\ w \in [Clients -> [Clients -> V]]
      /\ \A a \in Clients, b \in Clients :
           w[a][b] = IF a = d /\ b = c THEN n ELSE f[a][b]
  <2>. HIDE <1>0, <1>2, <1>3
  <2>. QED
    BY <1>4, <1>6, PutIn
<1>8. ASSUME NEW a \in Clients, NEW b \in Clients, NEW x \in VPort,
             portMap'[a][b][x] # None
      PROVE  Registers(b, a, x, portMap[a][b][x])'
  <2>1. PICK v : v = portMap'[a][b][x]
    OBVIOUS
  <2>2. Registers(b, a, x, v)
    <3>1. CASE a = d /\ b = c /\ x = p
      BY <1>4, <1>5, <1>6, <1>7, <2>1, <3>1
    <3>2. CASE ~(a = d /\ b = c /\ x = p)
      <4>1. v = portMap[a][b][x]
        BY <1>1, <1>2, <1>4, <1>5, <1>6, <1>7, <2>1, <3>2
      <4>. QED
        BY <1>8, <2>1, <4>1 DEF PortOK
    <3>. QED
      BY <3>1, <3>2
  <2>3. Registers(b, a, x, v)'
    BY <2>2, RegistersKept
  <2>. QED
    BY <2>1, <2>3 DEF Registers
<1>. QED
  BY <1>0, <1>5, <1>6, <1>7, <1>8 DEF PortOK

LEMMA OpenTunnelStep ==
  ASSUME IInv, NEW d \in Clients, handleOpenTunnel(d)
  PROVE  IInv'
<1>0. UNCHANGED <<case, todo, up, udp, listen, force, counter, pend, conn, served,
                  hop, bridges, tun, got, mapVars>>
  BY DEF handleOpenTunnel
<1>1. PICK m, box : m = Head(inbox[d]) /\ box = Taken(d)
  OBVIOUS
<1>2. Boxes(Fit, box) /\ m \in Message /\ Fits(m, d) /\ m.type = "open_tunnel"
  BY <1>1, TakenBoxes DEF IInv, handleOpenTunnel
<1>3. m.from \in Clients /\ m.id \in TunnelID
  BY <1>2, MessageFields
<1>4. ConnOK' /\ Kept
  BY <1>0, SameConn DEF IInv
<1>5. PICK t \in {"tunnel_opened", "tunnel_rejected", "close_tunnel"} :
        inbox' = Relay(box, d, m.from, Msg(t, d, m.id))
  BY <1>1 DEF handleOpenTunnel
<1>6. InboxOK'
  <2>1. PICK a : a = Msg(t, d, m.id)
    OBVIOUS
  <2>2. a \in Message /\ Fits(a, m.from)
    BY <1>3, <2>1, TunnelMsg
  <2>3. PICK b : b = Relay(box, d, m.from, a)
    OBVIOUS
  <2>4. Boxes(Fit, b)
    BY <1>2, <2>2, <2>3, RelayFits DEF IInv
  <2>. QED
    BY <1>4, <1>5, <2>1, <2>3, <2>4, InboxStep
<1>7. ASSUME ListenOK', PortOK', HopOK' PROVE IInv'
  BY <1>0, <1>4, <1>6, <1>7, SameBase, SameMap, KeptUdp, KeptServed, KeptTun DEF IInv
<1>8. CASE UNCHANGED <<stack, portMap, tout>>
  BY <1>0, <1>4, <1>7, <1>8, SameListen, SameHop, KeptPort DEF IInv
<1>9. CASE /\ IsNs(m.id) /\ stack' = getOrCreateFwdNetstack(d, m.from, "resp")
           /\ portMap' = [portMap EXCEPT ![d][m.from][m.id[2]] = m.t]
           /\ UNCHANGED tout
  <2>1. m.id[2] \in VPort
    BY <1>3, <1>9 DEF TunnelID, IsNs
  <2>2. Registers(m.from, d, m.id[2], m.t)
    BY <1>2, <1>9 DEF Fits
  <2>3. m.t \in Services
    BY <2>2 DEF Registers, Dials, IInv, ConnOK
  <2>4. PICK c, p, s : c = m.from /\ p = m.id[2] /\ s = m.t
    OBVIOUS
  <2>5. PortOK'
    BY <1>3, <1>4, <1>9, <2>1, <2>2, <2>3, <2>4, BindPort DEF IInv
  <2>6. ListenOK'
    <3>1. stack' \in [Clients -> [Clients -> {"none", "init", "resp"}]]
      BY <1>3, <1>9, StackType DEF IInv
    <3>. QED
      BY <1>0, <3>1 DEF IInv, ListenOK
  <2>. QED
    BY <1>0, <1>7, <1>9, <2>5, <2>6, SameHop DEF IInv
<1>10. CASE /\ ~IsNs(m.id) /\ tout' = [tout EXCEPT ![m.id[2]] = "open"]
            /\ UNCHANGED <<stack, portMap>>
  <2>1. m.id[2] \in Hops
    BY <1>3, <1>10 DEF TunnelID, IsNs
  <2>2. HopOK'
    BY <1>0, <1>10, <2>1 DEF IInv, HopOK
  <2>. QED
    BY <1>0, <1>4, <1>7, <1>10, <2>2, SameListen, KeptPort DEF IInv
<1>. QED
  BY <1>1, <1>8, <1>9, <1>10 DEF handleOpenTunnel

LEMMA TunnelOpenedStep ==
  ASSUME IInv, NEW c \in Clients, handleTunnelOpened(c)
  PROVE  IInv'
<1>0. UNCHANGED <<case, todo, up, udp, listen, force, counter, stack, portMap,
                  served, hopVars, mapVars>>
  BY DEF handleTunnelOpened
<1>1. PICK m, box : m = Head(inbox[c]) /\ box = Taken(c)
  OBVIOUS
<1>2. /\ Boxes(Fit, box) /\ m \in Message /\ m.type = "tunnel_opened"
      /\ inbox' = box
  BY <1>1, TakenBoxes DEF IInv, handleTunnelOpened
<1>3. m.id \in TunnelID
  BY <1>2, MessageFields
<1>4. ASSUME ConnOK', Kept, pend' \in [Clients -> [VPort -> OrNone(Conns)]]
      PROVE  IInv'
  <2>1. ListenOK'
    BY <1>0, <1>4 DEF IInv, ListenOK
  <2>. QED
    BY <1>0, <1>2, <1>4, <2>1, InboxStep, SameBase, SameMap, SameHop, KeptUdp,
       KeptPort, KeptServed, KeptTun
    DEF IInv, hopVars
<1>5. CASE UNCHANGED <<conn, pend>>
  BY <1>0, <1>4, <1>5, SameConn DEF IInv, ListenOK
<1>6. CASE /\ IsNs(m.id) /\ pend[c][m.id[2]] # None
           /\ conn' = [conn EXCEPT ![pend[c][m.id[2]]].ready = TRUE]
           /\ pend' = [pend EXCEPT ![c][m.id[2]] = None]
  <2>1. PICK p \in VPort : p = m.id[2]
    BY <1>3, <1>6 DEF TunnelID, IsNs
  <2>2. PICK k \in Conns : k = pend[c][p]
    BY <1>6, <2>1 DEF IInv, ListenOK, OrNone
  <2>3. PICK r \in Conn : r = conn[k]
    BY DEF IInv, ConnOK
  <2>4. PICK q : q = [r EXCEPT !.ready = TRUE]
    OBVIOUS
  <2>5. q \in Conn /\ SameId(q, r)
    BY <2>3, <2>4 DEF Conn, SameId
  <2>6. conn' = [conn EXCEPT ![k] = q]
    BY <1>6, <2>1, <2>2, <2>3, <2>4
  <2>7. ConnOK' /\ Kept
    BY <1>0, <2>3, <2>5, <2>6, EditConn DEF IInv
  <2>8. PICK f \in [Clients -> [VPort -> OrNone(Conns)]] : f = pend
    BY DEF IInv, ListenOK
  <2>9. pend' = [f EXCEPT ![c][p] = None] /\ None \in OrNone(Conns)
    BY <1>6, <2>1, <2>8 DEF OrNone
  <2>10. pend' \in [Clients -> [VPort -> OrNone(Conns)]]
    BY <2>9, PutEntry
  <2>. QED
    BY <1>4, <2>7, <2>10
<1>. QED
  BY <1>1, <1>5, <1>6 DEF handleTunnelOpened

LEMMA HopIds ==
  ASSUME NEW id \in TunnelID, ~IsNs(id)
  PROVE  id[2] \in Hops /\ Other(id) \in TunnelID /\ id[1] \in {"in", "out"}
  BY DEF TunnelID, IsNs, Other, In, Out

(* closeTunnel, at the client that has read of the end of the tunnel.      *)
LEMMA CloseTunnel ==
  ASSUME IInv, NEW c \in Clients, NEW id \in TunnelID, closeTunnel(c, id),
         UNCHANGED handlerRest, UNCHANGED <<hop, bridges>>,
         NEW box, Boxes(Fit, box), inbox' = box
  PROVE  IInv'
<1>0. UNCHANGED <<case, todo, up, udp, listen, force, counter, stack, portMap,
                  served, got, mapVars>>
  BY DEF handlerRest
<1>1. ASSUME ConnOK', Kept, TunOK', pend' \in [Clients -> [VPort -> OrNone(Conns)]],
             tout' \in [Hops -> {"none", "open", "ending", "closed"}]
      PROVE  IInv'
  <2>1. ListenOK' /\ HopOK'
    BY <1>0, <1>1 DEF IInv, ListenOK, HopOK
  <2>. QED
    BY <1>0, <1>1, <2>1, InboxStep, SameBase, SameMap, KeptUdp, KeptPort, KeptServed
    DEF IInv
<1>2. /\ pend \in [Clients -> [VPort -> OrNone(Conns)]]
      /\ tout \in [Hops -> {"none", "open", "ending", "closed"}]
  BY DEF IInv, ListenOK, HopOK
<1>3. ASSUME UNCHANGED <<conn, tun>> PROVE ConnOK' /\ Kept /\ TunOK'
  BY <1>0, <1>3, SameConn, KeptTun DEF IInv
<1>4. CASE /\ IsNs(id) /\ pend' = [pend EXCEPT ![c][id[2]] = None]
           /\ UNCHANGED <<conn, tun, tout>>
  <2>1. PICK p \in VPort : p = id[2]
    BY <1>4 DEF TunnelID, IsNs
  <2>2. None \in OrNone(Conns)
    BY DEF OrNone
  <2>3. pend' \in [Clients -> [VPort -> OrNone(Conns)]]
    BY <1>2, <1>4, <2>1, <2>2
  <2>. QED
    BY <1>1, <1>2, <1>3, <1>4, <2>3
<1>5. CASE /\ id[1] = "in" /\ tun[id[2]] # None
           /\ conn' = [conn EXCEPT ![tun[id[2]]].at = "ending"]
           /\ tun' = [tun EXCEPT ![id[2]] = None]
           /\ UNCHANGED <<pend, tout>>
  <2>1. PICK h \in Hops : h = id[2]
    BY <1>5 DEF TunnelID
  <2>2. PICK k \in Conns : k = tun[h] /\ conn[k].at # "none"
    BY <1>5, <2>1 DEF IInv, TunOK, OrNone
  <2>3. conn' = [conn EXCEPT ![k].at = "ending"]
    BY <1>5, <2>1, <2>2
  <2>4. ConnOK' /\ Kept
    BY <1>0, <2>2, <2>3, SetAt DEF IInv
  <2>5. /\ tun' \in [Hops -> OrNone(Conns)]
        /\ \A g \in Hops : tun'[g] = IF g = h THEN None ELSE tun[g]
    BY <1>5, <2>1 DEF IInv, TunOK, OrNone
  <2>6. ASSUME NEW g \in Hops, tun'[g] # None PROVE conn'[tun'[g]].at # "none"
    <3>1. tun'[g] \in Conns /\ conn[tun'[g]].at # "none"
      BY <2>5, <2>6 DEF IInv, TunOK, OrNone
    <3>. QED
      BY <2>4, <3>1 DEF Kept, SameId
  <2>7. TunOK'
    BY <2>5, <2>6 DEF TunOK
  <2>. QED
    BY <1>1, <1>2, <1>5, <2>4, <2>7
<1>6. CASE /\ id[1] = "out" /\ tout' = [tout EXCEPT ![id[2]] = "ending"]
           /\ UNCHANGED <<pend, conn, tun>>
  <2>1. tout' \in [Hops -> {"none", "open", "ending", "closed"}]
    BY <1>2, <1>6
  <2>. QED
    BY <1>1, <1>2, <1>3, <1>6, <2>1
<1>7. CASE UNCHANGED <<pend, conn, tun, tout>>
  BY <1>1, <1>2, <1>3, <1>7
<1>. QED
  BY <1>4, <1>5, <1>6, <1>7 DEF closeTunnel

(* The bridge drops both tunnels and tells one side.                       *)
LEMMA DropBridge ==
  ASSUME IInv, NEW c \in Clients, NEW d, NEW id, UNCHANGED handlerRest,
         bridges' = bridges \ {id, Other(id)},
         UNCHANGED <<conn, pend, hop, tun, tout>>,
         NEW box, Boxes(Fit, box), NEW m \in Message, Fits(m, d),
         inbox' = Relay(box, c, d, m)
  PROVE  IInv'
<1>1. HopOK'
  BY DEF IInv, HopOK, handlerRest
<1>2. PICK b : b = Relay(box, c, d, m)
  OBVIOUS
<1>3. Boxes(Fit, b)
  BY <1>2, RelayFits DEF IInv
<1>. QED
  BY <1>1, <1>2, <1>3, SameBase, SameMap, SameListen, StillFrame DEF IInv, handlerRest

LEMMA CloseTunnelStep ==
  ASSUME IInv, NEW c \in Clients, handleCloseTunnel(c)
  PROVE  IInv'
<1>1. PICK m, box : m = Head(inbox[c]) /\ box = Taken(c)
  OBVIOUS
<1>2. Boxes(Fit, box) /\ m \in Message /\ m.type = "close_tunnel"
  BY <1>1, TakenBoxes DEF IInv, handleCloseTunnel
<1>3. PICK id \in TunnelID : id = m.id
  BY <1>2, MessageFields
<1>4. CASE IsHop(c, id)
  <2>1. ~IsNs(id)
    BY <1>4 DEF IsHop, IsNs, IInv, HopOK
  <2>2. PICK d, a : d = Beyond(id) /\ a = Msg("close_tunnel", c, Other(id))
    OBVIOUS
  <2>3. a \in Message /\ Fits(a, d)
    BY <2>1, <2>2, HopIds, TunnelMsg
  <2>4. /\ bridges' = bridges \ {id, Other(id)} /\ inbox' = Relay(box, c, d, a)
        /\ UNCHANGED <<conn, pend, hop, tun, tout>> /\ UNCHANGED handlerRest
    BY <1>1, <1>3, <1>4, <2>2 DEF handleCloseTunnel
  <2>. QED
    BY <1>2, <2>3, <2>4, DropBridge
<1>5. CASE ~IsHop(c, id)
  BY <1>1, <1>2, <1>3, <1>5, CloseTunnel DEF handleCloseTunnel
<1>. QED
  BY <1>4, <1>5

LEMMA TunnelRejectedStep ==
  ASSUME IInv, NEW c \in Clients, handleTunnelRejected(c)
  PROVE  IInv'
<1>1. PICK m, box : m = Head(inbox[c]) /\ box = Taken(c)
  OBVIOUS
<1>2. Boxes(Fit, box) /\ m \in Message /\ m.type = "tunnel_rejected"
  BY <1>1, TakenBoxes DEF IInv, handleTunnelRejected
<1>3. PICK id \in TunnelID : id = m.id
  BY <1>2, MessageFields
<1>4. CASE IsHop(c, id)
  <2>1. ~IsNs(id)
    BY <1>4 DEF IsHop, IsNs, IInv, HopOK
  <2>2. PICK d, a : d = hop[id[2]].c /\ a = Msg("hop_forward_reject", c, id[2])
    OBVIOUS
  <2>3. a \in Message /\ Fits(a, d)
    BY <2>1, <2>2, HopIds, HopMsg
  <2>4. /\ bridges' = bridges \ {id, Other(id)} /\ inbox' = Relay(box, c, d, a)
        /\ UNCHANGED <<conn, pend, hop, tun, tout>> /\ UNCHANGED handlerRest
    BY <1>1, <1>3, <1>4, <2>2 DEF handleTunnelRejected
  <2>. QED
    BY <1>2, <2>3, <2>4, DropBridge
<1>5. CASE ~IsHop(c, id)
  BY <1>1, <1>2, <1>3, <1>5, CloseTunnel DEF handleTunnelRejected
<1>. QED
  BY <1>4, <1>5

-----------------------------------------------------------------------------
(* Hop forwards.                                                           *)

(* Steps that concern the record of one hop.                               *)
LEMMA SetHop ==
  ASSUME HopOK, UNCHANGED <<bridges, tout, got>>, NEW h \in Hops, NEW q \in Hop,
         hop' = [hop EXCEPT ![h] = q],
         q.c = hop[h].c, q.v = hop[h].v, q.t = hop[h].t,
         q.at # "none" => hop[h].at # "none", q.entry => q.at # "none"
  PROVE  HopOK'
<1>1. /\ hop' \in [Hops -> Hop]
      /\ \A g \in Hops : hop'[g] = IF g = h THEN q ELSE hop[g]
  BY DEF HopOK
<1>. QED
  BY <1>1 DEF HopOK

LEMMA HopFrame ==
  ASSUME IInv, UNCHANGED hopRest, HopOK', NEW box, Boxes(Fit, box), inbox' = box
  PROVE  IInv'
  BY SameBase, SameMap, SameListen, StillFrame DEF IInv, hopRest, nsVars

LEMMA HopForwardStep ==
  ASSUME IInv, NEW v \in Clients, handleHopForward(v)
  PROVE  IInv'
<1>1. PICK m, box : m = Head(inbox[v]) /\ box = Taken(v)
  OBVIOUS
<1>2. Boxes(Fit, box) /\ m \in Message /\ m.type = "hop_forward"
  BY <1>1, TakenBoxes DEF IInv, handleHopForward
<1>3. PICK h \in Hops, c \in Clients : h = m.id /\ c = m.from
  BY <1>2, MessageFields
<1>4. UNCHANGED <<hop, hopRest>>
  BY DEF handleHopForward
<1>5. CASE v \in case.deny
  <2>1. PICK a : a = Msg("hop_forward_reject", v, h)
    OBVIOUS
  <2>2. PICK b : b = Relay(box, v, c, a)
    OBVIOUS
  <2>3. inbox' = b /\ UNCHANGED bridges
    BY <1>1, <1>3, <1>5, <2>1, <2>2 DEF handleHopForward
  <2>4. Boxes(Fit, b)
    BY <1>2, <2>1, <2>2, HopMsg, RelayFits DEF IInv
  <2>. QED
    BY <1>4, <2>3, <2>4, SameHop, HopFrame DEF IInv, hopRest
<1>6. CASE v \notin case.deny
  <2>1. PICK a, m2 : /\ a = Msg("hop_forward_accept", v, h)
                     /\ m2 = [type |-> "open_tunnel", from |-> v, id |-> Out(h),
                              t |-> hop[h].t]
    OBVIOUS
  <2>2. PICK d : d = hop[h].d
    OBVIOUS
  <2>3. hop[h].t \in OrNone(Services)
    BY DEF IInv, HopOK, Hop
  <2>4. m2 \in Message /\ Fits(m2, d)
    BY <2>1, <2>3 DEF Message, Fits, IsNs, Out, TunnelID
  <2>5. PICK b : b = Relay(box, v, d, m2)
    OBVIOUS
  <2>6. Boxes(Fit, b)
    BY <1>2, <2>4, <2>5, RelayFits DEF IInv
  <2>7. PICK bb : bb = Relay(b, v, c, a)
    OBVIOUS
  <2>8. Boxes(Fit, bb)
    BY <2>1, <2>6, <2>7, HopMsg, RelayFits DEF IInv
  <2>9. inbox' = bb /\ bridges' = bridges \cup {In(h), Out(h)}
    BY <1>1, <1>3, <1>6, <2>1, <2>2, <2>5, <2>7 DEF handleHopForward
  <2>10. HopOK'
    BY <1>4, <2>9 DEF IInv, HopOK, hopRest, In, Out
  <2>. QED
    BY <1>4, <2>8, <2>9, <2>10, HopFrame
<1>. QED
  BY <1>5, <1>6

LEMMA HopAnswerStep ==
  ASSUME IInv, NEW c \in Clients, handleHopForwardAccept(c) \/ handleHopForwardReject(c)
  PROVE  IInv'
<1>1. PICK m, box : m = Head(inbox[c]) /\ box = Taken(c)
  OBVIOUS
<1>2. /\ Boxes(Fit, box) /\ m \in Message /\ inbox' = box
      /\ m.type \in {"hop_forward_accept", "hop_forward_reject"}
  BY <1>1, TakenBoxes DEF IInv, handleHopForwardAccept, handleHopForwardReject
<1>3. PICK h \in Hops : h = m.id
  BY <1>2, MessageFields
<1>4. UNCHANGED <<bridges, hopRest>>
  BY DEF handleHopForwardAccept, handleHopForwardReject
<1>5. PICK r \in Hop : r = hop[h]
  BY DEF IInv, HopOK
<1>6. HopOK'
  <2>1. CASE UNCHANGED hop
    BY <1>4, <2>1, SameHop DEF IInv, hopRest
  <2>2. ASSUME NEW v \in {"ended", "listen"}, r.entry, hop' = [hop EXCEPT ![h].at = v]
        PROVE  HopOK'
    <3>1. PICK q : q = [r EXCEPT !.at = v]
      OBVIOUS
    <3>2. /\ q \in Hop /\ q.c = r.c /\ q.v = r.v /\ q.t = r.t /\ q.at # "none"
      BY <1>5, <3>1 DEF Hop
    <3>3. hop' = [hop EXCEPT ![h] = q] /\ r.at # "none"
      BY <1>5, <2>2, <3>1 DEF IInv, HopOK
    <3>. QED
      BY <1>4, <1>5, <3>2, <3>3, SetHop DEF IInv, hopRest
  <2>3. CASE hop' = [hop EXCEPT ![h].entry = FALSE]
    <3>1. PICK q : q = [r EXCEPT !.entry = FALSE]
      OBVIOUS
    <3>2. /\ q \in Hop /\ q.c = r.c /\ q.v = r.v /\ q.t = r.t /\ q.at = r.at
          /\ ~q.entry
      BY <1>5, <3>1 DEF Hop
    <3>3. hop' = [hop EXCEPT ![h] = q]
      BY <1>5, <2>3, <3>1
    <3>. QED
      BY <1>4, <1>5, <3>2, <3>3, SetHop DEF IInv, hopRest
  <2>4. CASE handleHopForwardReject(c)
    BY <1>1, <1>3, <2>3, <2>4 DEF handleHopForwardReject
  <2>5. CASE handleHopForwardAccept(c)
    <3>1. hop' = IF ~r.entry THEN hop
                 ELSE [hop EXCEPT ![h].at =
                         IF InUse(c, hop[h].t) THEN "ended" ELSE "listen"]
      BY <1>1, <1>3, <1>5, <2>5 DEF handleHopForwardAccept
    <3>. QED
      BY <2>1, <2>2, <3>1
  <2>. QED
    BY <2>4, <2>5
<1>. QED
  BY <1>2, <1>4, <1>6, HopFrame

LEMMA HopAcceptStep ==
  ASSUME IInv, NEW h \in Hops, NEW k \in Conns, hopAcceptLoop(h, k)
  PROVE  IInv'
<1>0. /\ UNCHANGED <<case, up, inbox, nsVars, hop, bridges, tout, got, mapVars>>
      /\ todo' \subseteq todo /\ conn[k].at = "none" /\ tun' = [tun EXCEPT ![h] = k]
  BY DoesLess DEF hopAcceptLoop
<1>1. PICK c \in Clients, v \in Clients, t \in Services :
        c = hop[h].c /\ v = hop[h].v /\ t = hop[h].t
  BY DEF hopAcceptLoop, IInv, HopOK
<1>2. PICK q : q = [NoConn EXCEPT !.at = "open", !.c = c, !.d = v, !.t = t, !.h = h]
  OBVIOUS
<1>3. /\ q \in Conn /\ q.at # "none" /\ q.c = c /\ q.d = v /\ q.t = t /\ q.h = h
      /\ ~q.slow
  <2>1. 0 \in VPort
    BY ForwardAssumption DEF VPort
  <2>2. q = [at |-> "open", c |-> c, d |-> v, t |-> t, port |-> 0, ready |-> FALSE,
             stale |-> FALSE, h |-> h, slow |-> FALSE]
    BY <1>2 DEF NoConn
  <2>. QED
    BY <2>1, <2>2 DEF Conn, OrNone
<1>4. conn' = [conn EXCEPT ![k] = q]
  BY <1>1, <1>2 DEF hopAcceptLoop
<1>5. h # None
  BY ForwardAssumption
<1>6. ConnOK' /\ Kept
  <2>1. counter' = counter /\ counter \in [Clients -> VPort]
    BY <1>0 DEF nsVars, IInv, ConnOK
  <2>. QED
    BY <1>0, <1>3, <1>4, <1>5, <2>1, NewConn DEF IInv
<1>7. TunOK'
  <2>1. /\ tun' \in [Hops -> OrNone(Conns)]
        /\ \A g \in Hops : tun'[g] = IF g = h THEN k ELSE tun[g]
    BY <1>0 DEF IInv, TunOK, OrNone
  <2>2. conn'[k].at # "none"
    BY <1>3, <1>4 DEF IInv, ConnOK
  <2>3. ASSUME NEW g \in Hops, tun'[g] # None PROVE conn'[tun'[g]].at # "none"
    <3>1. CASE g = h
      BY <2>1, <2>2, <3>1
    <3>2. CASE g # h
      <4>1. tun'[g] \in Conns /\ conn[tun'[g]].at # "none"
        BY <2>1, <2>3, <3>2 DEF IInv, TunOK, OrNone
      <4>. QED
        BY <1>6, <4>1 DEF Kept, SameId
    <3>. QED
      BY <3>1, <3>2
  <2>. QED
    BY <2>1, <2>3 DEF TunOK
<1>. QED
  BY <1>0, <1>6, <1>7, SameBase, SameListen, SameHop, SameMap, KeptUdp, KeptInbox,
     KeptPort, KeptServed
  DEF IInv, nsVars

LEMMA HopListenEndStep ==
  ASSUME IInv, NEW h \in Hops, hopListenEnd(h)
  PROVE  IInv'
<1>0. /\ UNCHANGED <<case, todo, up, inbox, conn, nsVars, bridges, tun, tout, got,
                     mapVars>>
      /\ hop[h].at = "listen" /\ hop' = [hop EXCEPT ![h].at = "ended"]
  BY DEF hopListenEnd
<1>1. PICK r \in Hop : r = hop[h]
  BY DEF IInv, HopOK
<1>2. PICK q : q = [r EXCEPT !.at = "ended"]
  OBVIOUS
<1>3. q \in Hop /\ q.c = r.c /\ q.v = r.v /\ q.t = r.t /\ q.at # "none"
  BY <1>1, <1>2 DEF Hop
<1>4. hop' = [hop EXCEPT ![h] = q]
  BY <1>0, <1>1, <1>2
<1>5. HopOK'
  BY <1>0, <1>1, <1>3, <1>4, SetHop DEF IInv
<1>6. PICK b : b = inbox
  OBVIOUS
<1>. QED
  BY <1>0, <1>5, <1>6, HopFrame DEF IInv, InboxOK, hopRest

(* The bytes of a connection to a hop.                                     *)
LEMMA TunnelData ==
  ASSUME IInv, NEW k \in Conns, conn[k].at # "none", conn[k].h # None
  PROVE  Boxes(Fit, tunnelData(k))
<1>1. conn[k].h \in Hops /\ conn[k].c \in Clients
  BY DEF IInv, ConnOK, Conn, OrNone
<1>2. PICK m : m = [type |-> "tunnel_data", from |-> conn[k].c,
                    id |-> In(conn[k].h), k |-> k]
  OBVIOUS
<1>3. PICK c, d, box : c = conn[k].c /\ d = conn[k].d /\ box = inbox
  OBVIOUS
<1>4. m \in Message /\ Fits(m, d)
  BY <1>1, <1>2 DEF Message, TunnelID, In, Fits
<1>5. Boxes(Fit, Relay(box, c, d, m))
  BY <1>3, <1>4, RelayFits DEF IInv, InboxOK
<1>. QED
  BY <1>2, <1>3, <1>5 DEF tunnelData

(* A reader of a hop's connection notes what it has sent.                  *)
LEMMA SetSlow ==
  ASSUME ConnOK, UNCHANGED counter, NEW k \in Conns, conn[k].h # None,
         NEW v \in BOOLEAN, conn' = [conn EXCEPT ![k].slow = v]
  PROVE  ConnOK' /\ Kept
<1>1. PICK r \in Conn : r = conn[k]
  BY DEF ConnOK
<1>2. PICK q : q = [r EXCEPT !.slow = v]
  OBVIOUS
<1>3. q \in Conn /\ SameId(q, r)
  BY <1>1, <1>2 DEF Conn, SameId
<1>4. conn' = [conn EXCEPT ![k] = q]
  BY <1>1, <1>2
<1>. QED
  BY <1>1, <1>3, <1>4, EditConn

LEMMA ReadRelayStep ==
  ASSUME IInv, NEW k \in Conns, tunnelReadRelay(k) \/ fallback(k)
  PROVE  IInv'
<1>0. /\ UNCHANGED <<case, up, nsVars, hopVars, mapVars>> /\ todo' \subseteq todo
      /\ conn[k].at # "none"
  BY DoesLess DEF tunnelReadRelay, fallback
<1>1. conn[k].h # None
  BY DEF tunnelReadRelay, fallback, IInv, ConnOK
<1>2. UNCHANGED conn \/ \E v \in BOOLEAN : conn' = [conn EXCEPT ![k].slow = v]
  BY DEF tunnelReadRelay, fallback
<1>3. ConnOK' /\ Kept
  BY <1>0, <1>1, <1>2, SameConn, SetSlow DEF IInv, nsVars
<1>4. PICK b : b = tunnelData(k)
  OBVIOUS
<1>5. Boxes(Fit, b)
  BY <1>0, <1>1, <1>4, TunnelData
<1>6. UNCHANGED inbox \/ inbox' = b
  BY <1>4 DEF tunnelReadRelay, fallback
<1>7. InboxOK'
  BY <1>3, <1>5, <1>6, InboxStep, KeptInbox DEF IInv
<1>. QED
  BY <1>0, <1>3, <1>7, KeptServed, KeptUdp, ConnFrame DEF IInv, nsVars, hopVars

LEMMA TunnelDataStep ==
  ASSUME IInv, NEW c \in Clients, handleTunnelData(c)
  PROVE  IInv'
<1>0. UNCHANGED <<case, todo, up, conn, nsVars, hop, bridges, tun, tout, mapVars>>
  BY DEF handleTunnelData
<1>1. PICK m, box : m = Head(inbox[c]) /\ box = Taken(c)
  OBVIOUS
<1>2. Boxes(Fit, box) /\ m \in Message /\ m.type = "tunnel_data"
  BY <1>1, TakenBoxes DEF IInv, handleTunnelData
<1>3. m.id \in TunnelID /\ m.k \in Conns
  BY <1>2, MessageFields
<1>4. ASSUME NEW b, Boxes(Fit, b), inbox' = b, got' \in [Hops -> SUBSET Conns]
      PROVE  IInv'
  <2>1. HopOK'
    BY <1>0, <1>4 DEF IInv, HopOK
  <2>. QED
    BY <1>0, <1>4, <2>1, SameBase, SameListen, SameMap, StillFrame DEF IInv, nsVars
<1>5. got \in [Hops -> SUBSET Conns]
  BY DEF IInv, HopOK
<1>6. CASE IsHop(c, m.id)
  <2>1. ~IsNs(m.id)
    BY <1>6 DEF IsHop, IsNs, IInv, HopOK
  <2>2. Other(m.id) \in TunnelID
    BY <1>3, <2>1, HopIds
  <2>3. PICK a, o, d : /\ o = Other(m.id) /\ a = [m EXCEPT !.from = c, !.id = o]
                       /\ d = Beyond(m.id)
    OBVIOUS
  <2>4. m \in [type : {"tunnel_data"}, from : Clients, id : TunnelID, k : Conns]
    BY <1>2 DEF Message
  <2>5. a \in [type : {"tunnel_data"}, from : Clients, id : TunnelID, k : Conns]
    BY <2>2, <2>3, <2>4
  <2>6. a \in Message /\ Fits(a, d)
    BY <2>5 DEF Message, Fits
  <2>7. PICK b : b = Relay(box, c, d, a)
    OBVIOUS
  <2>8. Boxes(Fit, b)
    BY <1>2, <2>6, <2>7, RelayFits DEF IInv
  <2>9. inbox' = b /\ UNCHANGED got
    BY <1>1, <1>6, <2>3, <2>7 DEF handleTunnelData
  <2>. QED
    BY <1>4, <1>5, <2>8, <2>9
<1>7. CASE ~IsHop(c, m.id)
  <2>1. /\ inbox' = box
        /\ got' = IF m.id[1] = "out" /\ tout[m.id[2]] = "open"
                  THEN [got EXCEPT ![m.id[2]] = @ \cup {m.k}] ELSE got
    BY <1>1, <1>7 DEF handleTunnelData
  <2>2. got' \in [Hops -> SUBSET Conns]
    BY <1>3, <1>5, <2>1
  <2>. QED
    BY <1>2, <1>4, <2>1, <2>2
<1>. QED
  BY <1>6, <1>7

LEMMA TunnelReadStep ==
  ASSUME IInv, NEW k \in Conns, tunnelReadLoop(k)
  PROVE  IInv'
<1>0. /\ UNCHANGED <<case, up, nsVars, hop, bridges, tout, got, mapVars>>
      /\ todo' \subseteq todo /\ conn[k].at # "none" /\ conn[k].h # None
  BY DoesLess DEF tunnelReadLoop
<1>1. PICK h \in Hops, c \in Clients : h = conn[k].h /\ c = conn[k].c
  BY <1>0 DEF IInv, ConnOK, Conn, OrNone
<1>2. ConnOK' /\ Kept
  <2>1. PICK r \in Conn : r = conn[k]
    BY DEF IInv, ConnOK
  <2>2. PICK q : q = [r EXCEPT !.at = "closed", !.slow = FALSE]
    OBVIOUS
  <2>3. q \in Conn /\ SameId(q, r)
    BY <1>0, <2>1, <2>2 DEF Conn, SameId
  <2>4. conn' = [conn EXCEPT ![k].at = "closed", ![k].slow = FALSE]
    BY DEF tunnelReadLoop
  <2>5. conn' = [conn EXCEPT ![k] = q]
    BY <2>1, <2>2, <2>4 DEF IInv, ConnOK
  <2>. QED
    BY <1>0, <2>1, <2>3, <2>5, EditConn DEF IInv, nsVars
<1>3. TunOK'
  <2>1. tun' = [tun EXCEPT ![h] = None]
    BY <1>1 DEF tunnelReadLoop
  <2>2. /\ tun' \in [Hops -> OrNone(Conns)]
        /\ \A g \in Hops : tun'[g] = IF g = h THEN None ELSE tun[g]
    BY <2>1 DEF IInv, TunOK, OrNone
  <2>3. ASSUME NEW g \in Hops, tun'[g] # None PROVE conn'[tun'[g]].at # "none"
    <3>1. tun'[g] \in Conns /\ conn[tun'[g]].at # "none"
      BY <2>2, <2>3 DEF IInv, TunOK, OrNone
    <3>. QED
      BY <1>2, <3>1 DEF Kept, SameId
  <2>. QED
    BY <2>2, <2>3 DEF TunOK
<1>4. InboxOK'
  <2>1. PICK m, d, box : m = Msg("close_tunnel", c, In(h)) /\ d = conn[k].d /\ box = inbox
    OBVIOUS
  <2>2. In(h) \in TunnelID
    BY DEF In, TunnelID
  <2>3. PICK b : b = Relay(box, c, d, m)
    OBVIOUS
  <2>4. Boxes(Fit, b)
    BY <2>1, <2>2, <2>3, TunnelMsg, RelayFits DEF IInv, InboxOK
  <2>5. inbox' = b
    BY <1>1, <2>1, <2>3 DEF tunnelReadLoop
  <2>. QED
    BY <1>2, <2>4, <2>5, InboxStep
<1>. QED
  BY <1>0, <1>2, <1>3, <1>4, SameBase, SameListen, SameHop, SameMap, KeptUdp,
     KeptPort, KeptServed
  DEF IInv, nsVars

LEMMA TargetReadStep ==
  ASSUME IInv, NEW h \in Hops, targetReadLoop(h)
  PROVE  IInv'
<1>0. /\ UNCHANGED <<case, up, conn, nsVars, hop, bridges, tun, got, mapVars>>
      /\ todo' \subseteq todo /\ tout' = [tout EXCEPT ![h] = "closed"]
  BY DoesLess DEF targetReadLoop
<1>1. HopOK'
  BY <1>0 DEF IInv, HopOK
<1>2. PICK c, v, box : c = hop[h].d /\ v = hop[h].v /\ box = inbox
  OBVIOUS
<1>3. PICK m : m = Msg("close_tunnel", c, Out(h))
  OBVIOUS
<1>4. PICK b : b = Relay(box, c, v, m)
  OBVIOUS
<1>5. Boxes(Fit, b)
  <2>1. CASE c \in Clients
    <3>1. Out(h) \in TunnelID
      BY DEF Out, TunnelID
    <3>. QED
      BY <1>2, <1>3, <1>4, <2>1, <3>1, TunnelMsg, RelayFits DEF IInv, InboxOK
  <2>2. CASE c \notin Clients
    BY <1>2, <1>4, <2>2 DEF Relay, IInv, BaseOK, InboxOK
  <2>. QED
    BY <2>1, <2>2
<1>6. inbox' = b
  BY <1>2, <1>3, <1>4 DEF targetReadLoop
<1>. QED
  BY <1>0, <1>1, <1>5, <1>6, SameBase, SameListen, SameMap, StillFrame DEF IInv, nsVars

-----------------------------------------------------------------------------
(* Who reaches whom.                                                       *)

LEMMA MapFrame ==
  ASSUME IInv, UNCHANGED mapRest, up' \subseteq Clients, todo' \subseteq todo, MapOK',
         NEW box, Boxes(Fit, box), inbox' = box
  PROVE  IInv'
<1>1. UNCHANGED <<case, udp, conn, counter, portMap, served, tun, listen, force, pend,
                  stack, hop, bridges, tout, got>>
  BY DEF mapRest, nsVars, hopVars
<1>2. BaseOK'
  BY <1>1 DEF IInv, BaseOK
<1>. QED
  BY <1>1, <1>2, SameListen, SameHop, StillFrame DEF IInv

(* Steps at one client that send and read nothing.                         *)
LEMMA MapOnly ==
  ASSUME IInv, UNCHANGED mapRest, UNCHANGED <<up, inbox>>, todo' \subseteq todo, MapOK'
  PROVE  IInv'
<1>1. PICK b : b = inbox
  OBVIOUS
<1>. QED
  BY <1>1, MapFrame DEF IInv, BaseOK, InboxOK

LEMMA PunchSuccessStep ==
  ASSUME IInv, NEW c \in Clients, NEW d \in Clients, punchSuccess(c, d)
  PROVE  IInv'
<1>0. /\ UNCHANGED <<up, inbox, maps, via, known, trying, mapRest>>
      /\ todo' \subseteq todo
      /\ direct' = [direct EXCEPT ![c] = @ \cup {d}]
      /\ casting' = [casting EXCEPT ![c] = @ \cup {<<"punch", None>>}]
  BY DoesLess DEF punchSuccess
<1>1. direct' \in [Clients -> SUBSET Clients]
  BY <1>0 DEF IInv, MapOK
<1>2. PICK C : C = {"punch", "tick"} \X ((SUBSET Clients) \cup {None})
  OBVIOUS
<1>3. casting \in [Clients -> SUBSET C] /\ <<"punch", None>> \in C
  <2>1. casting \in [Clients -> SUBSET C]
    BY <1>2 DEF IInv, MapOK
  <2>. QED
    BY <1>2, <2>1
<1>4. casting' \in [Clients -> SUBSET C]
  BY <1>0, <1>3
<1>5. MapOK'
  BY <1>0, <1>1, <1>2, <1>4 DEF IInv, MapOK
<1>. QED
  BY <1>0, <1>5, MapOnly

LEMMA RetryRoundStep ==
  ASSUME IInv, NEW c \in Clients, retryRound(c)
  PROVE  IInv'
<1>0. /\ UNCHANGED <<todo, up, inbox, direct, maps, via, known, trying, mapRest>>
      /\ casting' = [casting EXCEPT ![c] = {<<"tick", None>>}]
  BY DEF retryRound
<1>1. PICK C : C = {"punch", "tick"} \X ((SUBSET Clients) \cup {None})
  OBVIOUS
<1>2. casting \in [Clients -> SUBSET C] /\ <<"tick", None>> \in C
  <2>1. casting \in [Clients -> SUBSET C]
    BY <1>1 DEF IInv, MapOK
  <2>. QED
    BY <1>1, <2>1
<1>3. casting' \in [Clients -> SUBSET C]
  BY <1>0, <1>2
<1>4. MapOK'
  BY <1>0, <1>1, <1>3 DEF IInv, MapOK
<1>. QED
  BY <1>0, <1>4, MapOnly

LEMMA BroadcastStep ==
  ASSUME IInv, NEW c \in Clients, broadcastP2PMap(c)
  PROVE  IInv'
<1>0. UNCHANGED <<todo, up, direct, maps, via, known, trying, mapRest>>
  BY DEF broadcastP2PMap
<1>1. PICK x \in casting[c] :
        /\ casting' = [casting EXCEPT ![c] =
             (@ \ {x}) \cup IF x[2] = None THEN {<<x[1], direct[c] \cap up>>} ELSE {}]
        /\ inbox' = IF x[2] = None \/ c \notin up THEN inbox
                    ELSE [d \in Clients |->
                            IF d = c \/ d \notin up THEN inbox[d]
                            ELSE Append(inbox[d],
                                   [type |-> "p2p_map", from |-> c, peers |-> x[2]])]
  BY DEF broadcastP2PMap
<1>2. PICK C : C = {"punch", "tick"} \X ((SUBSET Clients) \cup {None})
  OBVIOUS
<1>3. casting \in [Clients -> SUBSET C] /\ direct \in [Clients -> SUBSET Clients]
  BY <1>2 DEF IInv, MapOK
<1>4. /\ x \in C /\ x[1] \in {"punch", "tick"}
      /\ x[2] # None => x[2] \in SUBSET Clients
  <2>1. x \in C
    BY <1>3
  <2>2. x[1] \in {"punch", "tick"} /\ x[2] \in (SUBSET Clients) \cup {None}
    BY <1>2, <2>1
  <2>. QED
    BY <2>1, <2>2
<1>5. PICK y : y = <<x[1], direct[c] \cap up>>
  OBVIOUS
<1>6. y \in C
  <2>1. direct[c] \cap up \in SUBSET Clients
    BY <1>3
  <2>. QED
    BY <1>2, <1>4, <1>5, <2>1
<1>7. casting' \in [Clients -> SUBSET C]
  <2>1. PICK A : A = (casting[c] \ {x}) \cup IF x[2] = None THEN {y} ELSE {}
    OBVIOUS
  <2>2. A \in SUBSET C
    BY <1>3, <1>6, <2>1
  <2>3. casting' = [casting EXCEPT ![c] = A]
    BY <1>1, <1>5, <2>1
  <2>. QED
    BY <1>3, <2>2, <2>3
<1>8. MapOK'
  BY <1>0, <1>2, <1>7 DEF IInv, MapOK
<1>9. CASE x[2] = None \/ c \notin up
  BY <1>0, <1>1, <1>8, <1>9, MapOnly
<1>10. CASE x[2] # None /\ c \in up
  <2>1. PICK m : m = [type |-> "p2p_map", from |-> c, peers |-> x[2]]
    OBVIOUS
  <2>2. m \in Message /\ \A d : Fits(m, d)
    BY <1>4, <1>10, <2>1 DEF Message, Fits
  <2>3. PICK F : F = Fit
    OBVIOUS
  <2>4. PICK b : b = [d \in Clients |-> IF d = c \/ d \notin up THEN inbox[d]
                                        ELSE Append(inbox[d], m)]
    OBVIOUS
  <2>5. \A d \in Clients : m \in F[d] /\ inbox[d] \in Seq(F[d])
    BY <2>2, <2>3 DEF Fit, IInv, InboxOK, Boxes
  <2>6. \A d \in Clients : Append(inbox[d], m) \in Seq(F[d])
    BY <2>5, SeqAppend
  <2>7. b = [d \in Clients |-> b[d]] /\ \A d \in Clients : b[d] \in Seq(F[d])
    BY <2>4, <2>5, <2>6
  <2>8. Boxes(Fit, b)
    BY <2>3, <2>7 DEF Boxes
  <2>9. inbox' = b
    BY <1>1, <1>10, <2>1, <2>4
  <2>. QED
    BY <1>0, <1>8, <2>8, <2>9, MapFrame DEF IInv, BaseOK
<1>. QED
  BY <1>9, <1>10

LEMMA P2PMapStep ==
  ASSUME IInv, NEW c \in Clients, handleP2PMap(c)
  PROVE  IInv'
<1>0. UNCHANGED <<todo, up, direct, via, known, trying, casting, mapRest>>
  BY DEF handleP2PMap
<1>1. PICK m, box : m = Head(inbox[c]) /\ box = Taken(c)
  OBVIOUS
<1>2. Boxes(Fit, box) /\ m \in Message /\ m.type = "p2p_map" /\ inbox' = box
  BY <1>1, TakenBoxes DEF IInv, handleP2PMap
<1>3. PICK d \in Clients, P \in SUBSET Clients : d = m.from /\ P = m.peers
  BY <1>2, MessageFields
<1>4. maps' = [maps EXCEPT ![c][d] = P]
  BY <1>1, <1>3 DEF handleP2PMap
<1>5. maps' \in [Clients -> [Clients -> SUBSET Clients]]
  BY <1>4 DEF IInv, MapOK
<1>6. MapOK'
  BY <1>0, <1>5 DEF IInv, MapOK
<1>. QED
  BY <1>0, <1>2, <1>6, MapFrame DEF IInv, BaseOK

LEMMA PunchFailsStep ==
  ASSUME IInv, NEW c \in Clients, NEW d \in Clients, punchFails(c, d)
  PROVE  IInv'
<1>0. /\ UNCHANGED <<up, inbox, direct, maps, via, known, casting, mapRest>>
      /\ todo' \subseteq todo
      /\ UNCHANGED trying \/ trying' = [trying EXCEPT ![c] = @ \cup {<<d, None>>}]
  BY DoesLess DEF punchFails
<1>1. PICK C : C = Clients \X OrNone(Clients)
  OBVIOUS
<1>2. trying \in [Clients -> SUBSET C] /\ <<d, None>> \in C
  BY <1>1 DEF IInv, MapOK, OrNone
<1>3. trying' \in [Clients -> SUBSET C]
  BY <1>0, <1>2
<1>4. MapOK'
  BY <1>0, <1>1, <1>3 DEF IInv, MapOK
<1>. QED
  BY <1>0, <1>4, MapOnly

LEMMA AutoHopStep ==
  ASSUME IInv, NEW c \in Clients, tryAutoHop(c)
  PROVE  IInv'
<1>0. UNCHANGED <<todo, up, inbox, direct, maps, known, casting, mapRest>>
  BY DEF tryAutoHop
<1>1. PICK C : C = Clients \X OrNone(Clients)
  OBVIOUS
<1>2. trying \in [Clients -> SUBSET C] /\ via \in [Clients -> [Clients -> OrNone(Clients)]]
  BY <1>1 DEF IInv, MapOK
<1>3. PICK x \in trying[c] :
        \/ /\ \E v \in findAutoHopCandidate(c, x[1]) :
                trying' = [trying EXCEPT ![c] = (@ \ {x}) \cup {<<x[1], v>>}]
           /\ UNCHANGED via
        \/ trying' = [trying EXCEPT ![c] = @ \ {x}] /\ UNCHANGED via
        \/ /\ trying' = [trying EXCEPT ![c] = @ \ {x}]
           /\ via' = IF x[1] \in known[c] /\ via[c][x[1]] = None
                     THEN [via EXCEPT ![c][x[1]] = x[2]] ELSE via
  BY DEF tryAutoHop
<1>4. x[1] \in Clients /\ x[2] \in OrNone(Clients)
  BY <1>1, <1>2
<1>5. trying' \in [Clients -> SUBSET C]
  <2>1. CASE trying' = [trying EXCEPT ![c] = @ \ {x}]
    BY <1>2, <2>1
  <2>2. CASE \E v \in findAutoHopCandidate(c, x[1]) :
               trying' = [trying EXCEPT ![c] = (@ \ {x}) \cup {<<x[1], v>>}]
    <3>1. PICK v \in Clients :
            trying' = [trying EXCEPT ![c] = (@ \ {x}) \cup {<<x[1], v>>}]
      BY <2>2 DEF findAutoHopCandidate
    <3>2. <<x[1], v>> \in C
      BY <1>1, <1>4 DEF OrNone
    <3>. QED
      BY <1>2, <3>1, <3>2
  <2>. QED
    BY <1>3, <2>1, <2>2
<1>6. via' \in [Clients -> [Clients -> OrNone(Clients)]]
  <2>1. CASE UNCHANGED via
    BY <1>2, <2>1
  <2>2. CASE via' = [via EXCEPT ![c][x[1]] = x[2]]
    BY <1>2, <1>4, <2>2
  <2>. QED
    BY <1>3, <2>1, <2>2
<1>7. MapOK'
  BY <1>0, <1>1, <1>5, <1>6 DEF IInv, MapOK
<1>. QED
  BY <1>0, <1>7, MapOnly

LEMMA CleanupStep ==
  ASSUME IInv, NEW c \in Clients, NEW d \in Clients, cleanupPeerP2PMap(c, d)
  PROVE  IInv'
<1>0. /\ UNCHANGED <<todo, up, inbox, trying, casting, mapRest>>
      /\ known' = [known EXCEPT ![c] = @ \ {d}]
      /\ direct' = [direct EXCEPT ![c] = @ \ {d}]
      /\ maps' = [maps EXCEPT ![c][d] = {}]
      /\ via' = [via EXCEPT ![c] = [e \in Clients |->
                   IF e = d \/ @[e] = d THEN None ELSE @[e]]]
  BY DEF cleanupPeerP2PMap
<1>1. /\ known \in [Clients -> SUBSET Clients] /\ direct \in [Clients -> SUBSET Clients]
      /\ maps \in [Clients -> [Clients -> SUBSET Clients]]
      /\ via \in [Clients -> [Clients -> OrNone(Clients)]] /\ None \in OrNone(Clients)
  BY DEF IInv, MapOK, OrNone
<1>2. /\ known' \in [Clients -> SUBSET Clients] /\ direct' \in [Clients -> SUBSET Clients]
  BY <1>0, <1>1
<1>3. maps' \in [Clients -> [Clients -> SUBSET Clients]]
  BY <1>0, <1>1
<1>4. via' \in [Clients -> [Clients -> OrNone(Clients)]]
  <2>1. PICK w : w = [e \in Clients |->
                        IF e = d \/ via[c][e] = d THEN None ELSE via[c][e]]
    OBVIOUS
  <2>2. w \in [Clients -> OrNone(Clients)]
    BY <1>1, <2>1
  <2>3. via' = [via EXCEPT ![c] = w]
    BY <1>0, <2>1
  <2>. QED
    BY <1>1, <2>2, <2>3
<1>5. MapOK'
  BY <1>0, <1>2, <1>3, <1>4 DEF IInv, MapOK
<1>. QED
  BY <1>0, <1>5, MapOnly

LEMMA DropStep ==
  ASSUME IInv, NEW c \in Clients, wsDrop(c)
  PROVE  IInv'
<1>0. /\ UNCHANGED <<mapVars, mapRest>> /\ todo' \subseteq todo /\ up' = up \ {c}
      /\ inbox' = [inbox EXCEPT ![c] = <<>>]
  BY DoesLess DEF wsDrop
<1>1. PICK F : F = Fit
  OBVIOUS
<1>2. PICK b : b = [inbox EXCEPT ![c] = <<>>]
  OBVIOUS
<1>3. b = [e \in Clients |-> IF e = c THEN <<>> ELSE inbox[e]]
  BY <1>2 DEF IInv, InboxOK, Boxes
<1>4. b = [e \in Clients |-> b[e]] /\ \A e \in Clients : b[e] \in Seq(F[e])
  <2>1. \A e \in Clients : inbox[e] \in Seq(F[e])
    BY <1>1 DEF IInv, InboxOK, Boxes
  <2>2. \A e \in Clients : <<>> \in Seq(F[e])
    OBVIOUS
  <2>. QED
    BY <1>3, <2>1, <2>2
<1>5. Boxes(Fit, b)
  BY <1>1, <1>4 DEF Boxes
<1>. QED
  BY <1>0, <1>2, <1>5, SameMap, MapFrame DEF IInv, BaseOK

LEMMA ReconnectStep ==
  ASSUME IInv, NEW c \in Clients, reconnect(c)
  PROVE  IInv'
<1>0. /\ UNCHANGED <<todo, inbox, trying, casting, mapRest>>
      /\ up' = up \cup {c} /\ direct' = [direct EXCEPT ![c] = {}]
      /\ maps' = [maps EXCEPT ![c] = [d \in Clients |-> {}]]
      /\ via' = [via EXCEPT ![c] = [d \in Clients |-> None]]
      /\ known' = [d \in Clients |-> known[d] \cup ({c} \ {d})]
  BY DEF reconnect
<1>1. /\ known \in [Clients -> SUBSET Clients] /\ direct \in [Clients -> SUBSET Clients]
      /\ maps \in [Clients -> [Clients -> SUBSET Clients]]
      /\ via \in [Clients -> [Clients -> OrNone(Clients)]] /\ None \in OrNone(Clients)
  BY DEF IInv, MapOK, OrNone
<1>2. known' \in [Clients -> SUBSET Clients] /\ direct' \in [Clients -> SUBSET Clients]
  BY <1>0, <1>1
<1>3. maps' \in [Clients -> [Clients -> SUBSET Clients]]
  BY <1>0, <1>1
<1>4. via' \in [Clients -> [Clients -> OrNone(Clients)]]
  BY <1>0, <1>1
<1>5. MapOK'
  BY <1>0, <1>2, <1>3, <1>4 DEF IInv, MapOK
<1>6. PICK b : b = inbox
  OBVIOUS
<1>. QED
  BY <1>0, <1>5, <1>6, MapFrame DEF IInv, BaseOK, InboxOK

(* A stack ends, and with it its connections, and what it has bound.       *)
LEMMA StunInfoStep ==
  ASSUME IInv, NEW c \in Clients, NEW d \in Clients, handleStunInfo(c, d)
  PROVE  IInv'
<1>0. /\ UNCHANGED <<case, up, inbox, udp, listen, force, counter, pend, hopVars,
                     maps, via, known, trying, casting>>
      /\ todo' \subseteq todo /\ direct' = [direct EXCEPT ![c] = @ \ {d}]
      /\ Close(c, d)
  BY DoesLess DEF handleStunInfo
<1>1. MapOK'
  BY <1>0 DEF IInv, MapOK
<1>2. ConnOK' /\ Kept
  <2>1. ASSUME NEW k \in Conns PROVE conn'[k] \in Conn /\ SameId(conn'[k], conn[k])
    <3>1. PICK r \in Conn : r = conn[k]
      BY DEF IInv, ConnOK
    <3>2. \/ conn'[k] = r \/ conn'[k] = [r EXCEPT !.stale = TRUE]
          \/ r.at # "none" /\ conn'[k] = [r EXCEPT !.at = "closed"]
      BY <1>0, <3>1 DEF Close
    <3>3. CASE conn'[k] = r
      BY <3>1, <3>3 DEF SameId
    <3>4. CASE conn'[k] = [r EXCEPT !.stale = TRUE]
      BY <3>1, <3>4 DEF SameId, Conn
    <3>5. CASE r.at # "none" /\ conn'[k] = [r EXCEPT !.at = "closed"]
      BY <3>1, <3>5 DEF SameId, Conn
    <3>. QED
      BY <3>2, <3>3, <3>4, <3>5
  <2>2. conn' = [k \in Conns |-> conn'[k]]
    BY <1>0 DEF Close
  <2>3. conn' \in [Conns -> Conn]
    BY <2>1, <2>2
  <2>. QED
    BY <1>0, <2>1, <2>3, EditConns DEF IInv
<1>3. ServedOK'
  <2>1. ASSUME NEW k \in Conns
        PROVE  /\ served'[k] \in Served /\ served'[k].t = served[k].t
               /\ served'[k].at # "none" => served[k].at # "none"
    <3>1. PICK r \in Served : r = served[k]
      BY DEF IInv, ServedOK
    <3>2. \/ served'[k] = r
          \/ r.at # "none" /\ served'[k] = [r EXCEPT !.at = "closed"]
      BY <1>0, <3>1 DEF Close
    <3>. QED
      BY <3>1, <3>2 DEF Served
  <2>2. served' = [k \in Conns |-> served'[k]]
    BY <1>0 DEF Close
  <2>3. served' \in [Conns -> Served]
    BY <2>1, <2>2
  <2>4. ASSUME NEW k \in Conns, served'[k].at # "none"
        PROVE  conn'[k].at # "none" /\ served'[k].t = conn'[k].t
    BY <1>2, <2>1, <2>4 DEF IInv, ServedOK, Kept, SameId
  <2>. QED
    BY <2>3, <2>4 DEF ServedOK
<1>4. ListenOK'
  <2>1. stack' = [stack EXCEPT ![c][d] = "none"]
    BY <1>0 DEF Close
  <2>2. stack' \in [Clients -> [Clients -> {"none", "init", "resp"}]]
    BY <2>1 DEF IInv, ListenOK
  <2>. QED
    BY <1>0, <2>2 DEF IInv, ListenOK
<1>5. PortOK'
  <2>0. PICK V : V = [VPort -> OrNone(Services)]
    OBVIOUS
  <2>1. PICK f \in [Clients -> [Clients -> V]] : f = portMap
    BY <2>0 DEF IInv, PortOK
  <2>2. PICK n : n = [p \in VPort |-> None]
    OBVIOUS
  <2>3. n \in V /\ \A p \in VPort : n[p] = None
    BY <2>0, <2>2 DEF OrNone
  <2>4. PICK w : w = portMap'
    OBVIOUS
  <2>5. w = [f EXCEPT ![c][d] = n]
    BY <1>0, <2>1, <2>2, <2>4 DEF Close
  <2>6. /\ w \in [Clients -> [Clients -> V]]
        /\ \A a \in Clients, b \in Clients :
             w[a][b] = IF a = c /\ b = d THEN n ELSE f[a][b]
    <3>. HIDE <2>0, <2>1, <2>2
    <3>. QED
      BY <2>3, <2>5, PutIn
  <2>7. ASSUME NEW a \in Clients, NEW b \in Clients, NEW p \in VPort, w[a][b][p] # None
        PROVE  Registers(b, a, p, w[a][b][p])'
    <3>1. PICK t : t = w[a][b][p]
      OBVIOUS
    <3>2. t = portMap[a][b][p]
      BY <2>1, <2>3, <2>6, <2>7, <3>1
    <3>3. Registers(b, a, p, t)
      BY <2>7, <3>1, <3>2 DEF IInv, PortOK
    <3>. QED
      BY <1>2, <3>1, <3>3, RegistersKept
  <2>. QED
    BY <2>0, <2>4, <2>6, <2>7 DEF PortOK
<1>. QED
  BY <1>0, <1>1, <1>2, <1>3, <1>4, <1>5, SameBase, SameHop, KeptUdp, KeptInbox, KeptTun
  DEF IInv, hopVars

-----------------------------------------------------------------------------
(* The invariant.                                                          *)

LEMMA StutterStep ==
  ASSUME IInv, UNCHANGED vars
  PROVE  IInv'
  BY SameBase, SameListen, SameHop, SameMap, SameConn, KeptUdp, KeptInbox, KeptPort,
     KeptServed, KeptTun
  DEF IInv, vars, nsVars, hopVars

LEMMA UserStep ==
  ASSUME IInv, User
  PROVE  IInv'
<1>1. PICK c \in Clients :
        \/ \E d \in Clients :
             \/ punchSuccess(c, d) \/ handleStunInfo(c, d) \/ punchFails(c, d)
             \/ \E t \in Services : \/ userForward(c, d, t) \/ userHop(c, d, t)
                                    \/ ExposePort(c, d, t)
        \/ \E t \in Services : \/ SetForwardMode(c, t) \/ StopForward(c, t)
                               \/ \E k \in Conns : acceptLoop(c, t, k)
        \/ wsDrop(c)
  BY DEF User
<1>2. ASSUME NEW d \in Clients,
             punchSuccess(c, d) \/ handleStunInfo(c, d) \/ punchFails(c, d)
      PROVE  IInv'
  BY <1>2, PunchSuccessStep, StunInfoStep, PunchFailsStep
<1>3. ASSUME NEW d \in Clients, NEW t \in Services,
             userForward(c, d, t) \/ userHop(c, d, t) \/ ExposePort(c, d, t)
      PROVE  IInv'
  BY <1>3, UserForwardStep, UserHopStep, ExposeStep
<1>4. ASSUME NEW t \in Services, SetForwardMode(c, t) \/ StopForward(c, t)
      PROVE  IInv'
  BY <1>4, ForwardModeStep
<1>5. ASSUME NEW t \in Services, NEW k \in Conns, acceptLoop(c, t, k)
      PROVE  IInv'
  BY <1>5, AcceptStep
<1>6. CASE wsDrop(c)
  BY <1>6, DropStep
<1>. QED
  BY <1>1, <1>2, <1>3, <1>4, <1>5, <1>6

LEMMA ReadLoopStep ==
  ASSUME IInv, NEW c \in Clients, readLoop(c)
  PROVE  IInv'
  BY FwdDataStep, ReverseOfferStep, ReverseAnswerStep, OpenTunnelStep,
     TunnelOpenedStep, TunnelDataStep, CloseTunnelStep, TunnelRejectedStep,
     HopForwardStep, HopAnswerStep, P2PMapStep, ReconnectStep
  DEF readLoop

LEMMA GoStep ==
  ASSUME IInv, NEW c \in Clients, Go(c) \/ Cast(c)
  PROVE  IInv'
  BY FwdNetstackPacketStep, AutoHopStep, CleanupStep, RetryRoundStep, BroadcastStep
  DEF Go, Cast

LEMMA GoConnStep ==
  ASSUME IInv, NEW k \in Conns, GoConn(k) \/ tunnelReadRelay(k)
  PROVE  IInv'
  BY BridgeForwardConnStep, DialStep, BridgeForwardStep, ReadRelayStep,
     TunnelReadStep, EndLocalStep
  DEF GoConn

LEMMA GoHopStep ==
  ASSUME IInv, NEW h \in Hops, GoHop(h)
  PROVE  IInv'
  BY HopListenEndStep, TargetReadStep DEF GoHop

LEMMA NextStep ==
  ASSUME IInv, [Next]_vars
  PROVE  IInv'
<1>1. CASE User
  BY <1>1, UserStep
<1>2. CASE loseSyn
  BY <1>2, LoseSynStep
<1>3. ASSUME NEW h \in Hops, NEW k \in Conns, hopAcceptLoop(h, k)
      PROVE  IInv'
  BY <1>3, HopAcceptStep
<1>4. ASSUME NEW c \in Clients, readLoop(c) \/ Go(c) \/ Cast(c)
      PROVE  IInv'
  BY <1>4, ReadLoopStep, GoStep
<1>5. ASSUME NEW k \in Conns, GoConn(k) \/ tunnelReadRelay(k)
      PROVE  IInv'
  BY <1>5, GoConnStep
<1>6. ASSUME NEW h \in Hops, GoHop(h)
      PROVE  IInv'
  BY <1>6, GoHopStep
<1>7. CASE UNCHANGED vars
  BY <1>7, StutterStep
<1>. QED
  BY <1>1, <1>2, <1>3, <1>4, <1>5, <1>6, <1>7 DEF Next

LEMMA InitStep ==
  ASSUME Init
  PROVE  IInv
<1>1. BaseOK
  <2>1. case \in Case /\ todo = case.ops /\ up = Clients
    BY ForwardAssumption DEF Init
  <2>. QED
    BY <2>1 DEF BaseOK, Case
<1>2. InboxOK
  <2>1. PICK F : F = Fit
    OBVIOUS
  <2>2. inbox = [c \in Clients |-> <<>>]
    BY DEF Init
  <2>3. \A c \in Clients : inbox[c] \in Seq(F[c])
    BY <2>2
  <2>. QED
    BY <2>1, <2>2, <2>3 DEF InboxOK, Boxes
<1>3. UdpOK
  BY DEF Init, UdpOK
<1>4. ListenOK
  BY DEF Init, ListenOK, OrNone, Pairs
<1>5. ConnOK
  <2>1. 0 \in VPort
    BY ForwardAssumption DEF VPort
  <2>2. NoConn \in Conn
    BY <2>1 DEF NoConn, Conn, OrNone
  <2>3. /\ conn \in [Conns -> Conn] /\ counter \in [Clients -> VPort]
        /\ \A k \in Conns : conn[k] = NoConn
        /\ \A c \in Clients : counter[c] = 0
    BY <2>1, <2>2 DEF Init
  <2>4. \A k \in Conns : conn[k].at = "none" /\ conn[k].c = None /\ ~conn[k].slow
    BY <2>3 DEF NoConn
  <2>5. \A c : Mine(c) = {}
    BY <2>4 DEF Mine
  <2>6. \A c \in Clients : Counted(c)
    BY <2>3, <2>5, FS_EmptySet DEF Counted
  <2>. QED
    BY <2>3, <2>4, <2>5, <2>6 DEF ConnOK
<1>6. PortOK
  <2>1. PICK n : n = [p \in VPort |-> None]
    OBVIOUS
  <2>2. n \in [VPort -> OrNone(Services)] /\ \A p \in VPort : n[p] = None
    BY <2>1 DEF OrNone
  <2>3. portMap = [c \in Clients |-> [d \in Clients |-> n]]
    BY <2>1 DEF Init, Pairs
  <2>4. portMap \in [Clients -> [Clients -> [VPort -> OrNone(Services)]]]
    BY <2>2, <2>3
  <2>5. \A d \in Clients, c \in Clients, p \in VPort : portMap[d][c][p] = None
    BY <2>2, <2>3
  <2>. QED
    BY <2>4, <2>5 DEF PortOK
<1>7. ServedOK
  BY DEF Init, ServedOK, NoServed, Served, OrNone
<1>8. HopOK
  <2>1. NoHop \in Hop /\ NoHop.at = "none" /\ ~NoHop.entry
    BY DEF NoHop, Hop, OrNone
  <2>. QED
    BY <2>1 DEF Init, HopOK
<1>9. TunOK
  BY DEF Init, TunOK, OrNone
<1>10. MapOK
  BY DEF Init, MapOK, OrNone, Pairs, Reach
<1>. QED
  BY <1>1, <1>2, <1>3, <1>4, <1>5, <1>6, <1>7, <1>8, <1>9, <1>10 DEF IInv

(* The inductive invariant: what waits in the inboxes and on the UDP path, *)
(* what the stacks have bound to virtual ports and what they serve all     *)
(* stand for a connection that was accepted for exactly this; the counter  *)
(* has given no two of a client's connections the same port.               *)
THEOREM Invariance == Spec => []IInv
<1>. QED
  BY InitStep, NextStep, PTL DEF Spec

(* Every variable of the forwards, hops and maps keeps its type: no        *)
(* handler of tunnel.go, forward_netstack.go, multihop.go or autohop.go    *)
(* follows a field that is not there.                                      *)
THEOREM TypeCorrect == Spec => []TypeOK
<1>1. IInv => TypeOK
  <2>. SUFFICES ASSUME IInv PROVE TypeOK
    OBVIOUS
  <2>1. udp \subseteq Segment \X Conns \X Clients \X Clients
    BY DEF IInv, UdpOK, Wire
  <2>2. bridges \subseteq TunnelID
    BY DEF IInv, HopOK, TunnelID
  <2>3. {direct, known} \subseteq [Clients -> SUBSET Clients]
    BY DEF IInv, MapOK
  <2>. QED
    BY <2>1, <2>2, <2>3
    DEF IInv, TypeOK, BaseOK, ListenOK, ConnOK, PortOK, ServedOK, HopOK, TunOK, MapOK
<1>. QED
  BY <1>1, Invariance, PTL

(* A connection is served by the service that its forward names, whatever  *)
(* other connections, lost and late messages, new forwards, reconnects and *)
(* restarts of the stacks (handleStunInfo) come in between: the port that  *)
(* handleOpenTunnel registers and the port that handleIncoming looks up    *)
(* belong to the same connection.                                          *)
THEOREM RightTargetHolds == Spec => []RightTarget
<1>1. IInv => RightTarget
  BY DEF IInv, ServedOK, RightTarget
<1>. QED
  BY <1>1, Invariance, PTL
=============================================================================
