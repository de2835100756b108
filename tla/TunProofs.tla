----------------------------- MODULE TunProofs -----------------------------
(***************************************************************************)
(* Proofs that the table of VPN devices of Tun is sound, for any clients   *)
(* and whatever users and the network do: a device in tunDevices           *)
(* has a live interface of its own, and incoming VPNs are on subnets of    *)
(* their own.                                                              *)
(***************************************************************************)
EXTENDS Tun, FiniteSetTheorems, WellFoundedInduction, TLAPS

(* Where tunDevices has no entry there is no interface either, and the     *)
(* operating system has finitely many.                                     *)
Blank ==
  \A c \in Clients :
    /\ IsFiniteSet(open[c])
    /\ \A d \in Clients : ~Has(c, d) => dev[c][d].iface = 0

IInv == TypeOK /\ Blank /\ TableIsOpen /\ IncomingUnique

-----------------------------------------------------------------------------
(* A set of naturals that is not empty has a least element.                *)
LEMMA Least ==
  ASSUME NEW T, T \subseteq Nat, T # {}
  PROVE  \E x \in T : \A y \in T : x <= y
<1>1. PICK x \in T : \A y \in T : ~(<<y, x>> \in OpToRel(<, Nat))
  BY WFMin, NatLessThanWellFounded
<1>2. \A y \in T : ~(y < x)
  BY <1>1 DEF OpToRel
<1>. QED
  BY <1>2

(* There is always an interface that is not in use.                        *)
LEMMA FreeIface ==
  ASSUME NEW c \in Clients, IsFiniteSet(open[c])
  PROVE  NewIface(c) \in Iface /\ NewIface(c) \notin open[c]
<1>. DEFINE n == Cardinality(open[c])
<1>1. n \in Nat
  BY FS_CardinalityType
<1>2. \E i \in 1 .. n + 1 : i \notin open[c]
  <2>. SUFFICES ASSUME 1 .. n + 1 \subseteq open[c] PROVE FALSE
    OBVIOUS
  <2>1. Cardinality(1 .. n + 1) <= n
    BY FS_Subset
  <2>2. Cardinality(1 .. n + 1) = n + 1
    <3>. HIDE DEF n
    <3>1. n + 1 \in Int /\ 1 \in Int /\ ~(1 > n + 1) /\ n + 1 - 1 + 1 = n + 1
      BY <1>1
    <3>. QED
      BY <3>1, FS_Interval
  <2>. QED
    BY <1>1, <2>1, <2>2
<1>. HIDE DEF n
<1>3. NewIface(c) = CHOOSE i \in 1 .. n + 1 : i \notin open[c]
  BY DEF NewIface, n
<1>. QED
  BY <1>1, <1>2, <1>3 DEF Iface

(* Some index is free: there are fewer peers than indices.                 *)
LEMMA FreeIndex ==
  ASSUME NEW c \in Clients
  PROVE  \E i \in Index :
           \A d \in Clients : dev[c][d].role # "none" => dev[c][d].ip[1] # i
<1>. SUFFICES ASSUME \A i \in Index : \E d \in Clients : dev[c][d].ip[1] = i
              PROVE  FALSE
  OBVIOUS
<1>. DEFINE f == [i \in Index |-> CHOOSE d \in Clients : dev[c][d].ip[1] = i]
<1>0. IsFiniteSet(Clients) /\ Cardinality(Clients) \in Nat
  BY TunAssumption, FS_CardinalityType
<1>1. f \in [Index -> Clients] /\ \A i \in Index : dev[c][f[i]].ip[1] = i
  OBVIOUS
<1>2. IsFiniteSet(Index) /\ Cardinality(Index) = Cardinality(Clients) + 1
  <2>1. 0 \in Int /\ Cardinality(Clients) \in Int /\ ~(0 > Cardinality(Clients))
        /\ Cardinality(Clients) - 0 + 1 = Cardinality(Clients) + 1
    BY <1>0
  <2>. QED
    BY <2>1, FS_Interval DEF Index
<1>. HIDE DEF f
<1>3. \E x, y \in Index : x # y /\ f[x] = f[y]
  BY <1>0, <1>1, <1>2, FS_PigeonHole
<1>. QED
  BY <1>1, <1>3

(* nextVPNIndex returns an index that no device of the table has.          *)
LEMMA NextIndex ==
  ASSUME NEW c \in Clients
  PROVE  /\ nextVPNIndex(c) \in Index
         /\ \A d \in Clients : Has(c, d) => dev[c][d].ip[1] # nextVPNIndex(c)
<1>. DEFINE T == {i \in Index : \A d \in Clients : Has(c, d) =>
                                   dev[c][d].ip[1] # i}
<1>0. Index \subseteq Nat /\ \A i \in Index : 0 .. i - 1 \subseteq Index
  <2>1. Cardinality(Clients) \in Nat
    BY TunAssumption, FS_CardinalityType
  <2>. QED
    BY <2>1 DEF Index
<1>1. T # {}
  BY FreeIndex DEF Has
<1>2. PICK i \in T : \A j \in T : i <= j
  BY <1>0, <1>1, Least
<1>3. \A j \in 0 .. i - 1 : \E d \in Clients : Has(c, d) /\ dev[c][d].ip[1] = j
  <2>. SUFFICES ASSUME NEW j \in 0 .. i - 1,
                       ~\E d \in Clients : Has(c, d) /\ dev[c][d].ip[1] = j
                PROVE  FALSE
    OBVIOUS
  <2>1. j \in T
    BY <1>0
  <2>. QED
    BY <1>0, <1>2, <2>1
<1>4. \E k \in Index :
        /\ \A d \in Clients : dev[c][d].role # "none" => dev[c][d].ip[1] # k
        /\ \A j \in 0 .. k - 1 :
             \E d \in Clients : dev[c][d].role # "none" /\ dev[c][d].ip[1] = j
  <2>. WITNESS i \in Index
  <2>. QED
    BY <1>3 DEF Has
<1>. QED
  BY <1>4 DEF nextVPNIndex, Has

(* The address of an incoming VPN: on a free subnet, not the initiator's.  *)
LEMMA ResponderIP ==
  ASSUME NEW c \in Clients, NEW peerIP
  PROVE  /\ Responder(c, peerIP) \in IP
         /\ Responder(c, peerIP) # peerIP
         /\ \A d \in Clients : Has(c, d) =>
               dev[c][d].ip[1] # Responder(c, peerIP)[1]
<1>. DEFINE i == nextVPNIndex(c)
            o == Octet[c]
<1>1. i \in Index /\ \A d \in Clients : Has(c, d) => dev[c][d].ip[1] # i
  BY NextIndex
<1>2. o \in 2 .. 253
  BY TunAssumption
<1>3. allocVirtualIP(c) = <<i, o>>
  BY DEF allocVirtualIP
<1>. HIDE DEF i, o
<1>4. Responder(c, peerIP) =
        IF <<i, o>> # peerIP THEN <<i, o>>
        ELSE <<i, IF o + 1 > 253 THEN 2 ELSE o + 1>>
  BY <1>3 DEF Responder
<1>5. CASE <<i, o>> # peerIP
  BY <1>1, <1>2, <1>4, <1>5 DEF IP
<1>6. CASE <<i, o>> = peerIP
  <2>1. PICK p \in 2 .. 253 : p # o /\ Responder(c, peerIP) = <<i, p>>
    BY <1>2, <1>4, <1>6
  <2>. QED
    BY <1>1, <1>6, <2>1 DEF IP
<1>. QED
  BY <1>5, <1>6

LEMMA AllocIP ==
  ASSUME NEW c \in Clients
  PROVE  allocVirtualIP(c) \in IP
<1>1. nextVPNIndex(c) \in Index /\ Octet[c] \in 2 .. 253
  BY NextIndex, TunAssumption
<1>. QED
  BY <1>1 DEF allocVirtualIP, IP

-----------------------------------------------------------------------------
(* The type invariant in parts: what the room does, what is on the wire,   *)
(* and the VPNs.                                                           *)
RoomTypes ==
  /\ case \in Case /\ todo \subseteq Op \X Clients \X Clients
  /\ up \in [Clients -> BOOLEAN] /\ over \in [Clients -> BOOLEAN]
  /\ allow \in [Clients -> BOOLEAN]
  /\ peers \in [Clients -> SUBSET Clients]
  /\ pending \in [Clients -> SUBSET Clients]
  /\ acting \in [Clients -> SUBSET Clients]
  /\ stuck \subseteq Clients

Wire == inbox \in [Clients -> Seq(Message)]

StartTypes ==
  /\ saved \in [Clients -> [Clients -> SUBSET Routes]]
  /\ start \in [Clients -> [Clients -> [By -> Start]]]
  /\ ackCh \in [Clients -> [Clients -> By \cup {"none"}]]

DevTypes ==
  /\ dev \in [Clients -> [Clients -> TunDevice]]
  /\ open \in [Clients -> SUBSET Iface]

Table == DevTypes /\ Blank /\ TableIsOpen /\ IncomingUnique

Parts == RoomTypes /\ Wire /\ StartTypes /\ Table

LEMMA InvParts == (IInv <=> Parts) /\ (IInv' <=> Parts')
<1>1. TypeOK <=> RoomTypes /\ Wire /\ StartTypes /\ DevTypes
  BY DEF TypeOK, RoomTypes, Wire, StartTypes, DevTypes
<1>2. TypeOK' <=> RoomTypes' /\ Wire' /\ StartTypes' /\ DevTypes'
  BY DEF TypeOK, RoomTypes, Wire, StartTypes, DevTypes
<1>. QED
  BY <1>1, <1>2 DEF IInv, Parts, Table

LEMMA SameRoom ==
  ASSUME RoomTypes, UNCHANGED <<case, roomVars>>,
         UNCHANGED todo \/ \E op, c, d : Does(op, c, d)
  PROVE  RoomTypes'
<1>1. todo' \subseteq todo
  BY DEF Does
<1>. QED
  BY <1>1 DEF RoomTypes, roomVars

LEMMA SameStart ==
  ASSUME StartTypes, UNCHANGED <<saved, start, ackCh>>
  PROVE  StartTypes'
  BY DEF StartTypes

LEMMA SameTable ==
  ASSUME Table, UNCHANGED <<dev, open>>
  PROVE  Table'
  BY DEF Table, DevTypes, Blank, TableIsOpen, IncomingUnique, Has

-----------------------------------------------------------------------------
(* Queues.                                                                 *)

LEMMA AppendSeq ==
  ASSUME NEW S, NEW s \in Seq(S), NEW e \in S
  PROVE  Append(s, e) \in Seq(S)
  OBVIOUS

LEMMA TailSeq ==
  ASSUME NEW S, NEW s \in Seq(S), s # <<>>
  PROVE  Tail(s) \in Seq(S) /\ Head(s) \in S
  OBVIOUS

LEMMA MsgType ==
  ASSUME NEW t \in {"tun_setup", "tun_ack", "tun_teardown"}, NEW c \in Clients,
         NEW ip \in IP, NEW routes \in SUBSET Routes
  PROVE  Msg(t, c, ip, routes) \in Message
  BY DEF Msg, Message

LEMMA ListType ==
  ASSUME NEW ms \in SUBSET Clients
  PROVE  [type |-> "peer_list", peers |-> ms] \in Message
  BY DEF Message

LEMMA NoIP == <<>> \in IP /\ {} \in SUBSET Routes
  BY DEF IP

LEMMA RelayType ==
  ASSUME NEW box \in [Clients -> Seq(Message)], NEW c, NEW d \in Clients,
         NEW m \in Message
  PROVE  Relay(box, c, d, m) \in [Clients -> Seq(Message)]
<1>1. Append(box[d], m) \in Seq(Message)
  BY AppendSeq
<1>. QED
  BY <1>1 DEF Relay

LEMMA BroadcastType ==
  ASSUME NEW box \in [Clients -> Seq(Message)], NEW ms \in SUBSET Clients
  PROVE  Broadcast(box, ms) \in [Clients -> Seq(Message)]
<1>1. \A c \in Clients :
        Append(box[c], [type |-> "peer_list", peers |-> ms]) \in Seq(Message)
  BY ListType, AppendSeq
<1>. QED
  BY <1>1 DEF Broadcast

(* What the read loop takes from the queue is a message of that type.      *)
LEMMA ReadsType ==
  ASSUME Wire, NEW c \in Clients, NEW t, Reads(c, t)
  PROVE  /\ Taken(c) \in [Clients -> Seq(Message)]
         /\ Head(inbox[c]) \in Message /\ Head(inbox[c]).type = t
         /\ t # "peer_list" => /\ Head(inbox[c]).from \in Clients
                               /\ Head(inbox[c]).ip \in IP
                               /\ Head(inbox[c]).routes \in SUBSET Routes
         /\ t = "peer_list" => Head(inbox[c]).peers \in SUBSET Clients
<1>1. inbox[c] \in Seq(Message) /\ inbox[c] # <<>>
  BY DEF Wire, Reads
<1>2. Tail(inbox[c]) \in Seq(Message) /\ Head(inbox[c]) \in Message
  BY <1>1, TailSeq
<1>3. Taken(c) \in [Clients -> Seq(Message)]
  BY <1>2 DEF Taken, Wire
<1>4. PICK m \in Message : m = Head(inbox[c])
  BY <1>2
<1>5. m.type = t
  BY <1>4 DEF Reads
<1>6. /\ t # "peer_list" => /\ m.from \in Clients /\ m.ip \in IP
                            /\ m.routes \in SUBSET Routes
      /\ t = "peer_list" => m.peers \in SUBSET Clients
  BY <1>5 DEF Message
<1>. QED
  BY <1>3, <1>4, <1>5, <1>6

-----------------------------------------------------------------------------
(* The table.                                                              *)

LEMMA DevFields ==
  ASSUME DevTypes, NEW c \in Clients, NEW d \in Clients
  PROVE  /\ dev[c] \in [Clients -> TunDevice] /\ dev[c][d] \in TunDevice
         /\ dev[c][d].role \in {"none", "", "initiator", "responder"}
         /\ dev[c][d].iface \in Iface \cup {0}
         /\ dev[c][d].ip \in IP /\ dev[c][d].peerIP \in IP
         /\ dev[c][d].routes \in SUBSET Routes
<1>1. dev[c] \in [Clients -> TunDevice] /\ dev[c][d] \in TunDevice
  BY DEF DevTypes
<1>. QED
  BY <1>1 DEF TunDevice

LEMMA NoDevType == NoDev \in TunDevice /\ NoDev.role = "none" /\ NoDev.iface = 0
  BY NoIP DEF NoDev, TunDevice

(* One entry changes.                                                      *)
LEMMA DevUpdate ==
  ASSUME DevTypes, NEW c \in Clients, NEW d \in Clients, NEW v \in TunDevice,
         dev' = [dev EXCEPT ![c][d] = v]
  PROVE  /\ dev' \in [Clients -> [Clients -> TunDevice]]
         /\ \A a, b \in Clients :
              dev'[a][b] = IF a = c /\ b = d THEN v ELSE dev[a][b]
  BY DEF DevTypes

(* A new device takes the entry: it has an interface no other one has.     *)
LEMMA CreateTable ==
  ASSUME Table, NEW c \in Clients, NEW d \in Clients,
         NEW role \in {"", "responder"}, NEW ip \in IP, NEW peerIP \in IP,
         NEW routes \in SUBSET Routes,
         role = "responder" =>
           /\ ip # peerIP
           /\ \A e \in Clients : Has(c, e) => dev[c][e].ip[1] # ip[1],
         dev' = [dev EXCEPT ![c][d] =
                   createTunDevice(c, role, ip, peerIP, routes)],
         open' = [open EXCEPT ![c] = @ \cup {NewIface(c)}]
  PROVE  Table'
<1>0. NewIface(c) \in Iface /\ NewIface(c) \notin open[c] /\ IsFiniteSet(open[c])
  BY FreeIface DEF Table, Blank
<1>1. PICK n : n = NewIface(c)
  OBVIOUS
<1>2. PICK v : v = createTunDevice(c, role, ip, peerIP, routes)
  OBVIOUS
<1>3. /\ v \in TunDevice /\ v.role = role /\ v.iface = n /\ v.ip = ip
      /\ v.peerIP = peerIP
  BY <1>0, <1>1, <1>2 DEF createTunDevice, TunDevice
<1>4. /\ dev' \in [Clients -> [Clients -> TunDevice]]
      /\ \A a, b \in Clients :
           dev'[a][b] = IF a = c /\ b = d THEN v ELSE dev[a][b]
  BY <1>2, <1>3, DevUpdate DEF Table
<1>5. /\ open' \in [Clients -> SUBSET Iface]
      /\ \A a \in Clients : open'[a] = IF a = c THEN open[c] \cup {n} ELSE open[a]
  BY <1>0, <1>1 DEF Table, DevTypes
<1>6. n \in Iface /\ n \notin open[c] /\ 0 \notin Iface
  BY <1>0, <1>1 DEF Iface
<1>7. Blank'
  <2>1. IsFiniteSet(open[c] \cup {n})
    BY <1>0, FS_AddElement
  <2>2. ASSUME NEW a \in Clients
        PROVE  /\ IsFiniteSet(open'[a])
               /\ \A b \in Clients : ~Has(a, b)' => dev'[a][b].iface = 0
    <3>1. IsFiniteSet(open'[a])
      BY <1>5, <2>1 DEF Table, Blank
    <3>2. ASSUME NEW b \in Clients, ~Has(a, b)' PROVE dev'[a][b].iface = 0
      <4>1. ~(a = c /\ b = d)
        BY <1>3, <1>4, <3>2 DEF Has
      <4>2. dev'[a][b] = dev[a][b]
        BY <1>4, <4>1
      <4>. QED
        BY <3>2, <4>2 DEF Table, Blank, Has
    <3>. QED
      BY <3>1, <3>2
  <2>. QED
    BY <2>2 DEF Blank
<1>8. TableIsOpen'
  <2>0. ASSUME NEW b \in Clients
        PROVE  dev[c][b].iface # n
    BY <1>6 DEF Table, Blank, TableIsOpen, DevTypes
  <2>. SUFFICES ASSUME NEW a \in Clients, NEW b \in Clients, Has(a, b)'
                PROVE  /\ dev'[a][b].iface \in open'[a]
                       /\ \A e \in Clients \ {b} :
                            dev'[a][e].iface # dev'[a][b].iface
    BY DEF TableIsOpen
  <2>1. CASE a = c /\ b = d
    <3>0. dev'[a][b] = v /\ open'[a] = open[c] \cup {n}
      BY <1>4, <1>5, <2>1
    <3>1. dev'[a][b].iface = n /\ n \in open'[a]
      BY <1>3, <3>0
    <3>2. \A e \in Clients \ {b} : dev'[a][e] = dev[c][e]
      BY <1>4, <2>1
    <3>. QED
      BY <2>0, <3>1, <3>2
  <2>2. CASE ~(a = c /\ b = d)
    <3>1. dev'[a][b] = dev[a][b] /\ Has(a, b)
      BY <1>4, <2>2 DEF Has
    <3>2. /\ dev[a][b].iface \in open[a]
          /\ \A e \in Clients \ {b} : dev[a][e].iface # dev[a][b].iface
      BY <3>1 DEF Table, TableIsOpen
    <3>3. ASSUME NEW e \in Clients \ {b}
          PROVE  dev'[a][e].iface # dev'[a][b].iface
      <4>1. CASE a = c /\ e = d
        <5>1. dev'[a][e] = v /\ dev[a][b].iface # n
          BY <1>4, <2>0, <4>1
        <5>. QED
          BY <1>3, <3>1, <5>1
      <4>2. CASE ~(a = c /\ e = d)
        BY <1>4, <3>1, <3>2, <4>2
      <4>. QED
        BY <4>1, <4>2
    <3>4. open[a] \subseteq open'[a]
      BY <1>5
    <3>. QED
      BY <3>1, <3>2, <3>3, <3>4
  <2>. QED
    BY <2>1, <2>2
<1>9. IncomingUnique'
  <2>. SUFFICES ASSUME NEW a \in Clients, NEW b \in Clients,
                       dev'[a][b].role = "responder"
                PROVE  /\ dev'[a][b].ip # dev'[a][b].peerIP
                       /\ \A e \in Clients \ {b} :
                            dev'[a][e].role = "responder" =>
                              dev'[a][e].ip[1] # dev'[a][b].ip[1]
    BY DEF IncomingUnique
  <2>0. \A e \in Clients : dev[c][e].role = "responder" /\ role = "responder"
                            => dev[c][e].ip[1] # ip[1]
    BY DEF Has
  <2>1. CASE a = c /\ b = d
    <3>1. dev'[a][b] = v
      BY <1>4, <2>1
    <3>2. \A e \in Clients \ {b} : dev'[a][e] = dev[c][e]
      BY <1>4, <2>1
    <3>. QED
      BY <1>3, <2>0, <3>1, <3>2
  <2>2. CASE ~(a = c /\ b = d)
    <3>1. dev'[a][b] = dev[a][b]
      BY <1>4, <2>2
    <3>2. /\ dev[a][b].ip # dev[a][b].peerIP
          /\ \A e \in Clients \ {b} : dev[a][e].role = "responder" =>
                                       dev[a][e].ip[1] # dev[a][b].ip[1]
      BY <3>1 DEF Table, IncomingUnique
    <3>3. ASSUME NEW e \in Clients \ {b}, dev'[a][e].role = "responder"
          PROVE  dev'[a][e].ip[1] # dev'[a][b].ip[1]
      <4>1. CASE a = c /\ e = d
        <5>1. dev'[a][e] = v
          BY <1>4, <4>1
        <5>2. role = "responder"
          BY <1>3, <3>3, <5>1
        <5>3. dev[c][b].role = "responder"
          BY <3>1, <4>1
        <5>. QED
          BY <1>3, <2>0, <3>1, <4>1, <5>1, <5>2, <5>3
      <4>2. CASE ~(a = c /\ e = d)
        <5>1. dev'[a][e] = dev[a][e]
          BY <1>4, <4>2
        <5>. QED
          BY <3>1, <3>2, <3>3, <5>1
      <4>. QED
        BY <4>1, <4>2
    <3>. QED
      BY <3>1, <3>2, <3>3
  <2>. QED
    BY <2>1, <2>2
<1>. QED
  BY <1>4, <1>5, <1>7, <1>8, <1>9 DEF Table, DevTypes

(* The device leaves the table and its interface is closed.                *)
LEMMA CloseTable ==
  ASSUME Table, NEW c \in Clients, NEW d \in Clients, CloseDev(c, d)
  PROVE  Table'
<1>1. /\ dev' \in [Clients -> [Clients -> TunDevice]]
      /\ \A a, b \in Clients :
           dev'[a][b] = IF a = c /\ b = d THEN NoDev ELSE dev[a][b]
  BY DevUpdate, NoDevType DEF CloseDev, Table
<1>2. PICK n : n = dev[c][d].iface
  OBVIOUS
<1>3. /\ open' \in [Clients -> SUBSET Iface]
      /\ \A a \in Clients : open'[a] = IF a = c THEN open[c] \ {n} ELSE open[a]
  BY <1>2 DEF CloseDev, Table, DevTypes
<1>4. Blank'
  <2>1. IsFiniteSet(open[c] \ {n})
    BY FS_RemoveElement DEF Table, Blank
  <2>2. \A a \in Clients : IsFiniteSet(open'[a])
    BY <1>3, <2>1 DEF Table, Blank
  <2>3. ASSUME NEW a \in Clients, NEW b \in Clients, ~Has(a, b)'
        PROVE  dev'[a][b].iface = 0
    <3>1. CASE a = c /\ b = d
      BY <1>1, <3>1, NoDevType
    <3>2. CASE ~(a = c /\ b = d)
      <4>1. dev'[a][b] = dev[a][b]
        BY <1>1, <3>2
      <4>. QED
        BY <2>3, <4>1 DEF Table, Blank, Has
    <3>. QED
      BY <3>1, <3>2
  <2>. QED
    BY <2>2, <2>3 DEF Blank
<1>5. TableIsOpen'
  <2>1. 0 \notin Iface /\ \A a \in Clients : open[a] \subseteq Iface
    BY DEF Iface, Table, DevTypes
  <2>2. ASSUME NEW a \in Clients, NEW b \in Clients, Has(a, b)'
        PROVE  /\ dev'[a][b].iface \in open'[a]
               /\ \A e \in Clients \ {b} : dev'[a][e].iface # dev'[a][b].iface
    <3>1. ~(a = c /\ b = d) /\ dev'[a][b] = dev[a][b] /\ Has(a, b)
      BY <1>1, <2>2, NoDevType DEF Has
    <3>2. /\ dev[a][b].iface \in open[a]
          /\ \A e \in Clients \ {b} : dev[a][e].iface # dev[a][b].iface
      BY <3>1 DEF Table, TableIsOpen
    <3>3. dev'[a][b].iface \in open'[a]
      BY <1>2, <1>3, <3>1, <3>2
    <3>4. ASSUME NEW e \in Clients \ {b}
          PROVE  dev'[a][e].iface # dev'[a][b].iface
      BY <1>1, <2>1, <3>1, <3>2, NoDevType
    <3>. QED
      BY <3>3, <3>4
  <2>. QED
    BY <2>2 DEF TableIsOpen
<1>6. IncomingUnique'
  <2>1. \A a, b \in Clients : dev'[a][b].role = "responder" =>
                             dev'[a][b] = dev[a][b]
    BY <1>1, NoDevType
  <2>. QED
    BY <2>1 DEF Table, IncomingUnique
<1>. QED
  BY <1>1, <1>3, <1>4, <1>5, <1>6 DEF Table, DevTypes

(* An entry keeps its interface and addresses and is not made a responder. *)
LEMMA UpdateTable ==
  ASSUME Table, NEW c \in Clients, NEW d \in Clients, Has(c, d),
         NEW v \in TunDevice, dev' = [dev EXCEPT ![c][d] = v],
         UNCHANGED open,
         v.iface = dev[c][d].iface, v.ip = dev[c][d].ip,
         v.peerIP = dev[c][d].peerIP, v.role # "none",
         v.role = "responder" => dev[c][d].role = "responder"
  PROVE  Table'
<1>1. /\ dev' \in [Clients -> [Clients -> TunDevice]]
      /\ \A a, b \in Clients :
           dev'[a][b] = IF a = c /\ b = d THEN v ELSE dev[a][b]
  BY DevUpdate DEF Table
<1>2. \A a, b \in Clients :
        /\ Has(a, b)' <=> Has(a, b)
        /\ dev'[a][b].iface = dev[a][b].iface /\ dev'[a][b].ip = dev[a][b].ip
        /\ dev'[a][b].peerIP = dev[a][b].peerIP
        /\ dev'[a][b].role = "responder" => dev[a][b].role = "responder"
  BY <1>1 DEF Has
<1>3. Blank' /\ TableIsOpen'
  BY <1>2 DEF Table, Blank, TableIsOpen
<1>4. IncomingUnique'
  BY <1>2 DEF Table, IncomingUnique
<1>. QED
  BY <1>1, <1>3, <1>4 DEF Table, DevTypes

-----------------------------------------------------------------------------
(* Running StartTun calls.                                                 *)

LEMMA StartValues ==
  /\ NoStart \in Start
  /\ [NoStart EXCEPT !.at = "role"] \in Start
  /\ \A ip \in IP, r \in SUBSET Routes :
       [at |-> "wait", ip |-> ip, ack |-> <<>>, routes |-> r] \in Start
  /\ \A r \in SUBSET Routes :
       [NoStart EXCEPT !.at = "sleep", !.routes = r] \in Start
  BY NoIP DEF NoStart, Start

LEMMA StartFields ==
  ASSUME StartTypes, NEW c \in Clients, NEW d \in Clients, NEW w \in By
  PROVE  /\ start[c][d][w] \in Start
         /\ start[c][d][w].ip \in IP /\ start[c][d][w].ack \in IP
         /\ start[c][d][w].routes \in SUBSET Routes
<1>1. start[c][d][w] \in Start
  BY DEF StartTypes
<1>. QED
  BY <1>1 DEF Start

LEMMA StartUpdate ==
  ASSUME StartTypes, NEW c \in Clients, NEW d \in Clients, NEW w \in By,
         NEW s \in Start, start' = [start EXCEPT ![c][d][w] = s]
  PROVE  start' \in [Clients -> [Clients -> [By -> Start]]]
  BY DEF StartTypes

(* StartTun itself: a message, a registered channel, a waiting call.       *)
LEMMA StartTunTypes ==
  ASSUME Parts, NEW c \in Clients, NEW d \in Clients, NEW w \in By,
         NEW routes \in SUBSET Routes, StartTun(c, d, w, routes),
         UNCHANGED saved
  PROVE  StartTypes' /\ Wire'
<1>1. CASE d \notin peers[c] \/ Has(c, d) \/ ~up[c]
  <2>1. /\ start' = [start EXCEPT ![c][d][w] = NoStart]
        /\ UNCHANGED <<inbox, ackCh>>
    BY <1>1 DEF StartTun
  <2>2. start' \in [Clients -> [Clients -> [By -> Start]]]
    BY <2>1, StartUpdate, StartValues DEF Parts
  <2>. QED
    BY <2>1, <2>2 DEF Parts, StartTypes, Wire
<1>2. CASE ~(d \notin peers[c] \/ Has(c, d) \/ ~up[c])
  <2>1. PICK ip : ip = allocVirtualIP(c)
    OBVIOUS
  <2>2. ip \in IP
    BY <2>1, AllocIP
  <2>3. PICK s : s = [at |-> "wait", ip |-> ip, ack |-> <<>>, routes |-> routes]
    OBVIOUS
  <2>4. s \in Start
    BY <2>2, <2>3, StartValues
  <2>5. PICK m : m = Msg("tun_setup", c, ip, routes)
    OBVIOUS
  <2>6. m \in Message
    BY <2>2, <2>5, MsgType
  <2>7. /\ start' = [start EXCEPT ![c][d][w] = s]
        /\ ackCh' = [ackCh EXCEPT ![c][d] = w]
        /\ inbox' = Relay(inbox, c, d, m)
    BY <1>2, <2>1, <2>3, <2>5 DEF StartTun
  <2>8. start' \in [Clients -> [Clients -> [By -> Start]]]
    BY <2>4, <2>7, StartUpdate DEF Parts
  <2>9. ackCh' \in [Clients -> [Clients -> By \cup {"none"}]]
    BY <2>7 DEF Parts, StartTypes
  <2>10. inbox' \in [Clients -> Seq(Message)]
    <3>1. PICK box \in [Clients -> Seq(Message)] : box = inbox
      BY DEF Parts, Wire
    <3>. QED
      BY <2>6, <2>7, <3>1, RelayType
  <2>. QED
    BY <2>8, <2>9, <2>10 DEF Parts, StartTypes, Wire
<1>. QED
  BY <1>1, <1>2

-----------------------------------------------------------------------------
(* The actions, one by one.                                                *)

LEMMA UserStartStep ==
  ASSUME Parts, NEW c \in Clients, NEW d \in Clients, userStart(c, d)
  PROVE  Parts'
<1>1. RoomTypes'
  BY SameRoom DEF userStart, Parts
<1>2. "user" \in By /\ {"lan"} \in SUBSET Routes
  BY DEF By, Routes
<1>3. StartTypes' /\ Wire'
  BY <1>2, StartTunTypes DEF userStart
<1>. QED
  BY <1>1, <1>3, SameTable DEF userStart, Parts

LEMMA AutoRestoreStep ==
  ASSUME Parts, NEW c \in Clients, NEW d \in Clients, autoRestore(c, d)
  PROVE  Parts'
<1>1. RoomTypes'
  BY SameRoom DEF autoRestore, Parts
<1>2. "auto" \in By
  BY DEF By
<1>3. PICK r : r = start[c][d]["auto"].routes
  OBVIOUS
<1>4. r \in SUBSET Routes
  BY <1>2, <1>3, StartFields DEF Parts
<1>5. StartTypes' /\ Wire'
  BY <1>2, <1>3, <1>4, StartTunTypes DEF autoRestore
<1>. QED
  BY <1>1, <1>5, SameTable DEF autoRestore, Parts

LEMMA StartTunAckedStep ==
  ASSUME Parts, NEW c \in Clients, NEW d \in Clients, NEW w \in By,
         StartTunAcked(c, d, w)
  PROVE  Parts'
<1>1. RoomTypes'
  BY SameRoom DEF StartTunAcked, Parts
<1>2. Wire'
  BY DEF StartTunAcked, Parts, Wire
<1>3. PICK s : s = start[c][d][w]
  OBVIOUS
<1>4. s.ip \in IP /\ s.ack \in IP /\ s.routes \in SUBSET Routes
  BY <1>3, StartFields DEF Parts
<1>5. CASE c \in case.noroot
  <2>1. /\ start' = [start EXCEPT ![c][d][w] = NoStart]
        /\ UNCHANGED <<dev, open, saved, ackCh>>
    BY <1>5 DEF StartTunAcked
  <2>2. start' \in [Clients -> [Clients -> [By -> Start]]]
    BY <2>1, StartUpdate, StartValues DEF Parts
  <2>. QED
    BY <1>1, <1>2, <2>1, <2>2, SameTable DEF Parts, StartTypes
<1>6. CASE c \notin case.noroot
  <2>1. /\ dev' = [dev EXCEPT ![c][d] =
                     createTunDevice(c, "", s.ip, s.ack, s.routes)]
        /\ open' = [open EXCEPT ![c] = @ \cup {NewIface(c)}]
        /\ start' = [start EXCEPT ![c][d][w] = [NoStart EXCEPT !.at = "role"]]
        /\ UNCHANGED <<saved, ackCh>>
    BY <1>3, <1>6 DEF StartTunAcked
  <2>2. start' \in [Clients -> [Clients -> [By -> Start]]]
    BY <2>1, StartUpdate, StartValues DEF Parts
  <2>3. PICK ip \in IP, ack \in IP, r \in SUBSET Routes :
          ip = s.ip /\ ack = s.ack /\ r = s.routes
    BY <1>4
  <2>4. Table'
    BY <2>1, <2>3, CreateTable DEF Parts
  <2>. QED
    BY <1>1, <1>2, <2>1, <2>2, <2>4 DEF Parts, StartTypes
<1>. QED
  BY <1>5, <1>6

LEMMA StartTunRoleStep ==
  ASSUME Parts, NEW c \in Clients, NEW d \in Clients, NEW w \in By,
         StartTunRole(c, d, w)
  PROVE  Parts'
<1>1. RoomTypes'
  BY SameRoom DEF StartTunRole, Parts
<1>2. Wire'
  BY DEF StartTunRole, Parts, Wire
<1>3. StartTypes'
  <2>1. start' \in [Clients -> [Clients -> [By -> Start]]]
    BY StartUpdate, StartValues DEF Parts, StartTunRole
  <2>. QED
    BY <2>1 DEF Parts, StartTypes, StartTunRole
<1>4. Table'
  <2>1. CASE dev[c][d].role # ""
    BY <2>1, SameTable DEF StartTunRole, Parts
  <2>2. CASE dev[c][d].role = ""
    <3>1. dev[c][d] \in TunDevice
      BY DevFields DEF Parts, Table
    <3>2. PICK v : v = [dev[c][d] EXCEPT !.role = "initiator"]
      OBVIOUS
    <3>3. /\ v \in TunDevice /\ v.role = "initiator"
          /\ v.iface = dev[c][d].iface /\ v.ip = dev[c][d].ip
          /\ v.peerIP = dev[c][d].peerIP
      BY <3>1, <3>2 DEF TunDevice
    <3>4. dev' = [dev EXCEPT ![c][d] = v] /\ UNCHANGED open
      BY <2>2, <3>2 DEF StartTunRole
    <3>5. Has(c, d)
      BY <2>2 DEF Has
    <3>. QED
      BY <3>3, <3>4, <3>5, UpdateTable DEF Parts
  <2>. QED
    BY <2>1, <2>2
<1>. QED
  BY <1>1, <1>2, <1>3, <1>4 DEF Parts

LEMMA StartTunTimeoutStep ==
  ASSUME Parts, NEW c \in Clients, NEW d \in Clients, NEW w \in By,
         StartTunTimeout(c, d, w)
  PROVE  Parts'
<1>1. RoomTypes'
  BY SameRoom DEF StartTunTimeout, Parts
<1>2. start' \in [Clients -> [Clients -> [By -> Start]]]
  BY StartUpdate, StartValues DEF Parts, StartTunTimeout
<1>3. UNCHANGED <<inbox, saved, dev, open, ackCh>>
  BY DEF StartTunTimeout
<1>. QED
  BY <1>1, <1>2, <1>3, SameTable DEF Parts, StartTypes, Wire

LEMMA AddRoutesStep ==
  ASSUME Parts, NEW c \in Clients, NEW d \in Clients,
         addRoutesToExistingTun(c, d)
  PROVE  Parts'
<1>1. RoomTypes'
  BY SameRoom DEF addRoutesToExistingTun, Parts
<1>2. StartTypes'
  BY SameStart DEF addRoutesToExistingTun, Parts
<1>3. /\ dev[c][d] \in TunDevice /\ dev[c][d].ip \in IP
      /\ dev[c][d].routes \in SUBSET Routes
  BY DevFields DEF Parts, Table
<1>4. {"more"} \in SUBSET Routes
  BY DEF Routes
<1>5. Wire'
  <2>1. PICK box \in [Clients -> Seq(Message)] : box = inbox
    BY DEF Parts, Wire
  <2>2. PICK ip \in IP : ip = dev[c][d].ip
    BY <1>3
  <2>3. Msg("tun_setup", c, ip, {"more"}) \in Message
    BY <1>4, MsgType
  <2>4. inbox' = Relay(box, c, d, Msg("tun_setup", c, ip, {"more"}))
    BY <2>1, <2>2 DEF addRoutesToExistingTun
  <2>. QED
    BY <2>3, <2>4, RelayType DEF Wire
<1>6. Table'
  <2>1. PICK v : v = [dev[c][d] EXCEPT !.routes = @ \cup {"more"}]
    OBVIOUS
  <2>2. /\ v \in TunDevice /\ v.role = dev[c][d].role
        /\ v.iface = dev[c][d].iface /\ v.ip = dev[c][d].ip
        /\ v.peerIP = dev[c][d].peerIP
    BY <1>3, <1>4, <2>1 DEF TunDevice
  <2>3. dev' = [dev EXCEPT ![c][d] = v] /\ UNCHANGED open /\ Has(c, d)
    BY <2>1 DEF addRoutesToExistingTun
  <2>. QED
    BY <2>2, <2>3, UpdateTable DEF Parts, Has
<1>. QED
  BY <1>1, <1>2, <1>5, <1>6 DEF Parts

(* An answer to d goes on the wire in place of the message taken.          *)
LEMMA AnswerType ==
  ASSUME Wire, NEW c \in Clients, NEW d \in Clients, NEW t, Reads(c, t),
         NEW k \in {"tun_setup", "tun_ack", "tun_teardown"}, NEW ip \in IP,
         inbox' = Relay(Taken(c), c, d, Msg(k, c, ip, {}))
  PROVE  Wire'
<1>1. PICK box \in [Clients -> Seq(Message)] : box = Taken(c)
  BY ReadsType
<1>2. Msg(k, c, ip, {}) \in Message
  BY MsgType, NoIP
<1>. QED
  BY <1>1, <1>2, RelayType DEF Wire

LEMMA HandleTunSetupStep ==
  ASSUME Parts, NEW c \in Clients, handleTunSetup(c)
  PROVE  Parts'
<1>0. Reads(c, "tun_setup") /\ Wire /\ Table
  BY DEF handleTunSetup, Parts
<1>1. RoomTypes'
  BY SameRoom DEF handleTunSetup, Parts
<1>2. StartTypes'
  BY SameStart DEF handleTunSetup, Parts
<1>3. PICK m : m = Head(inbox[c])
  OBVIOUS
<1>4. m.from \in Clients /\ m.ip \in IP /\ m.routes \in SUBSET Routes
  BY <1>0, <1>3, ReadsType
<1>5. PICK d \in Clients, pip \in IP, r \in SUBSET Routes :
        d = m.from /\ pip = m.ip /\ r = m.routes
  BY <1>4
<1>6. Taken(c) \in [Clients -> Seq(Message)]
  BY <1>0, ReadsType
<1>7. \/ /\ inbox' = Relay(Taken(c), c, d, Msg("tun_teardown", c, <<>>, {}))
         /\ UNCHANGED <<dev, open>>
      \/ /\ inbox' = Taken(c)
         /\ UNCHANGED <<dev, open>>
      \/ /\ inbox' = Relay(Taken(c), c, d, Msg("tun_ack", c, dev[c][d].ip, {}))
         /\ UNCHANGED <<dev, open>>
      \/ /\ dev' = [dev EXCEPT ![c][d] =
                      createTunDevice(c, "responder", Responder(c, pip), pip, r)]
         /\ open' = [open EXCEPT ![c] = @ \cup {NewIface(c)}]
         /\ inbox' = Relay(Taken(c), c, d,
                           Msg("tun_ack", c, Responder(c, pip), {}))
  BY <1>3, <1>5 DEF handleTunSetup
<1>8. CASE /\ inbox' = Relay(Taken(c), c, d, Msg("tun_teardown", c, <<>>, {}))
           /\ UNCHANGED <<dev, open>>
  <2>1. Wire'
    BY <1>0, <1>8, NoIP, AnswerType
  <2>. QED
    BY <1>0, <1>1, <1>2, <1>8, <2>1, SameTable DEF Parts
<1>9. CASE inbox' = Taken(c) /\ UNCHANGED <<dev, open>>
  BY <1>0, <1>1, <1>2, <1>6, <1>9, SameTable DEF Parts, Wire
<1>10. CASE /\ inbox' = Relay(Taken(c), c, d, Msg("tun_ack", c, dev[c][d].ip, {}))
            /\ UNCHANGED <<dev, open>>
  <2>1. PICK ip \in IP : ip = dev[c][d].ip
    BY <1>0, DevFields DEF Table
  <2>2. Wire'
    BY <1>0, <1>10, <2>1, AnswerType
  <2>. QED
    BY <1>0, <1>1, <1>2, <1>10, <2>2, SameTable DEF Parts
<1>11. CASE /\ dev' = [dev EXCEPT ![c][d] =
                         createTunDevice(c, "responder", Responder(c, pip), pip, r)]
            /\ open' = [open EXCEPT ![c] = @ \cup {NewIface(c)}]
            /\ inbox' = Relay(Taken(c), c, d,
                              Msg("tun_ack", c, Responder(c, pip), {}))
  <2>1. PICK ip \in IP : /\ ip = Responder(c, pip) /\ ip # pip
                         /\ \A e \in Clients : Has(c, e) => dev[c][e].ip[1] # ip[1]
    BY ResponderIP
  <2>2. Wire'
    BY <1>0, <1>11, <2>1, AnswerType
  <2>3. Table'
    BY <1>0, <1>11, <2>1, CreateTable
  <2>. QED
    BY <1>1, <1>2, <2>2, <2>3 DEF Parts
<1>. QED
  BY <1>7, <1>8, <1>9, <1>10, <1>11

LEMMA HandleTunAckStep ==
  ASSUME Parts, NEW c \in Clients, handleTunAck(c)
  PROVE  Parts'
<1>0. Reads(c, "tun_ack") /\ Wire /\ StartTypes
  BY DEF handleTunAck, Parts
<1>1. RoomTypes'
  BY SameRoom DEF handleTunAck, Parts
<1>2. Wire'
  BY <1>0, ReadsType DEF handleTunAck, Wire
<1>3. PICK m : m = Head(inbox[c])
  OBVIOUS
<1>4. m.from \in Clients /\ m.ip \in IP
  BY <1>0, <1>3, ReadsType
<1>5. PICK d \in Clients, ip \in IP : d = m.from /\ ip = m.ip
  BY <1>4
<1>6. PICK w : w = ackCh[c][d]
  OBVIOUS
<1>7. w \in By \cup {"none"}
  BY <1>0, <1>6 DEF StartTypes
<1>8. start' \in [Clients -> [Clients -> [By -> Start]]]
  <2>1. \/ start' = start
        \/ w \in By /\ start' = [start EXCEPT ![c][d][w].ack = ip]
    BY <1>3, <1>5, <1>6, <1>7 DEF handleTunAck
  <2>2. CASE start' = start
    BY <1>0, <2>2 DEF StartTypes
  <2>3. CASE w \in By /\ start' = [start EXCEPT ![c][d][w].ack = ip]
    <3>1. start[c][d][w] \in Start
      BY <1>0, <2>3, StartFields
    <3>2. PICK s : s = [start[c][d][w] EXCEPT !.ack = ip]
      OBVIOUS
    <3>3. s \in Start
      BY <3>1, <3>2 DEF Start
    <3>4. start' = [start EXCEPT ![c][d][w] = s]
      BY <2>3, <3>2
    <3>5. w \in By
      BY <2>3
    <3>. QED
      BY <1>0, <3>3, <3>4, <3>5, StartUpdate
  <2>. QED
    BY <2>1, <2>2, <2>3
<1>9. UNCHANGED <<saved, dev, open, ackCh>>
  BY DEF handleTunAck
<1>. QED
  BY <1>1, <1>2, <1>8, <1>9, SameTable DEF Parts, StartTypes

LEMMA HandleTunTeardownStep ==
  ASSUME Parts, NEW c \in Clients, handleTunTeardown(c)
  PROVE  Parts'
<1>0. Reads(c, "tun_teardown") /\ Wire /\ Table
  BY DEF handleTunTeardown, Parts
<1>1. RoomTypes' /\ StartTypes'
  BY SameRoom, SameStart DEF handleTunTeardown, Parts
<1>2. Wire'
  BY <1>0, ReadsType DEF handleTunTeardown, Wire
<1>3. PICK d \in Clients : d = Head(inbox[c]).from
  BY <1>0, ReadsType
<1>4. Table'
  BY <1>0, <1>3, CloseTable DEF handleTunTeardown
<1>. QED
  BY <1>1, <1>2, <1>4 DEF Parts

LEMMA HandlePeerListStep ==
  ASSUME Parts, NEW c \in Clients, handlePeerList(c)
  PROVE  Parts'
<1>0. Reads(c, "peer_list") /\ Wire /\ Table /\ StartTypes /\ RoomTypes
  BY DEF handlePeerList, Parts
<1>1. PICK now \in SUBSET Clients : now = Head(inbox[c]).peers
  BY <1>0, ReadsType
<1>2. PICK back : back = {d \in now \ peers[c] : saved[c][d] # {}}
  OBVIOUS
<1>3. /\ peers' = [peers EXCEPT ![c] = now]
      /\ saved' = [saved EXCEPT ![c] = [d \in Clients |->
                     IF d \in back THEN {} ELSE @[d]]]
      /\ start' = [start EXCEPT ![c] = [d \in Clients |->
                     IF d \notin back \/ @[d]["auto"].at # "idle" THEN @[d]
                     ELSE [@[d] EXCEPT !["auto"] =
                             [NoStart EXCEPT !.at = "sleep",
                                             !.routes = saved[c][d]]]]]
      /\ \/ stuck' = stuck \cup {c} /\ UNCHANGED pending
         \/ /\ pending' = [pending EXCEPT ![c] =
                             (@ \ now) \cup ((peers[c] \ now) \ {c})]
            /\ UNCHANGED stuck
      /\ inbox' = Taken(c)
      /\ UNCHANGED <<case, todo, up, over, allow, acting, dev, open, ackCh>>
  BY <1>1, <1>2 DEF handlePeerList
<1>4. RoomTypes'
  <2>1. peers' \in [Clients -> SUBSET Clients]
    BY <1>0, <1>3 DEF RoomTypes
  <2>2. pending' \in [Clients -> SUBSET Clients] /\ stuck' \subseteq Clients
    <3>1. PICK q : q = (pending[c] \ now) \cup ((peers[c] \ now) \ {c})
      OBVIOUS
    <3>2. q \subseteq Clients
      BY <1>0, <3>1 DEF RoomTypes
    <3>3. \/ UNCHANGED pending
          \/ pending' = [pending EXCEPT ![c] = q]
      BY <1>3, <3>1
    <3>. QED
      BY <1>0, <1>3, <3>2, <3>3 DEF RoomTypes
  <2>. QED
    BY <1>0, <1>3, <2>1, <2>2 DEF RoomTypes
<1>5. saved' \in [Clients -> [Clients -> SUBSET Routes]]
  <2>1. PICK s : s = [d \in Clients |-> IF d \in back THEN {} ELSE saved[c][d]]
    OBVIOUS
  <2>2. s \in [Clients -> SUBSET Routes]
    BY <1>0, <2>1 DEF StartTypes
  <2>3. saved' = [saved EXCEPT ![c] = s]
    BY <1>3, <2>1
  <2>. QED
    BY <1>0, <2>2, <2>3 DEF StartTypes
<1>6. start' \in [Clients -> [Clients -> [By -> Start]]]
  <2>1. PICK s : s = [d \in Clients |->
                     IF d \notin back \/ start[c][d]["auto"].at # "idle"
                     THEN start[c][d]
                     ELSE [start[c][d] EXCEPT !["auto"] =
                             [NoStart EXCEPT !.at = "sleep",
                                             !.routes = saved[c][d]]]]
    OBVIOUS
  <2>2. ASSUME NEW d \in Clients PROVE s[d] \in [By -> Start]
    <3>1. start[c][d] \in [By -> Start]
      BY <1>0 DEF StartTypes
    <3>2. PICK r \in SUBSET Routes : r = saved[c][d]
      BY <1>0 DEF StartTypes
    <3>3. PICK v \in Start : v = [NoStart EXCEPT !.at = "sleep", !.routes = r]
      BY StartValues
    <3>4. \/ s[d] = start[c][d]
          \/ s[d] = [start[c][d] EXCEPT !["auto"] = v]
      BY <2>1, <3>2, <3>3
    <3>. QED
      BY <3>1, <3>4
  <2>3. s \in [Clients -> [By -> Start]]
    BY <2>1, <2>2
  <2>4. start' = [start EXCEPT ![c] = s]
    BY <1>3, <2>1
  <2>. QED
    BY <1>0, <2>3, <2>4 DEF StartTypes
<1>7. Wire'
  BY <1>0, <1>3, ReadsType DEF Wire
<1>8. Table'
  BY <1>0, <1>3, SameTable
<1>9. StartTypes'
  BY <1>0, <1>3, <1>5, <1>6 DEF StartTypes
<1>. QED
  BY <1>4, <1>7, <1>8, <1>9 DEF Parts

LEMMA LeaveTimerStep ==
  ASSUME Parts, NEW c \in Clients, NEW d \in Clients, leaveTimer(c, d)
  PROVE  Parts'
<1>1. pending' \in [Clients -> SUBSET Clients]
  BY DEF leaveTimer, Parts, RoomTypes
<1>2. acting' \in [Clients -> SUBSET Clients]
  BY DEF leaveTimer, Parts, RoomTypes
<1>3. UNCHANGED <<case, todo, up, over, allow, peers, stuck, inbox, saved, dev,
                  open, start, ackCh>>
  BY DEF leaveTimer, tunVars
<1>4. RoomTypes'
  BY <1>1, <1>2, <1>3 DEF Parts, RoomTypes
<1>. QED
  BY <1>3, <1>4, SameTable, SameStart DEF Parts, Wire

LEMMA PeerLeftStep ==
  ASSUME Parts, NEW c \in Clients, NEW d \in Clients, peerLeft(c, d)
  PROVE  Parts'
<1>1. acting' \in [Clients -> SUBSET Clients]
  BY DEF peerLeft, Parts, RoomTypes
<1>2. /\ UNCHANGED <<case, todo, up, over, allow, peers, pending, stuck, inbox,
                     start, ackCh>>
      /\ CloseDev(c, d)
  BY DEF peerLeft
<1>3. RoomTypes'
  BY <1>1, <1>2 DEF Parts, RoomTypes
<1>4. saved' \in [Clients -> [Clients -> SUBSET Routes]]
  <2>1. PICK r \in SUBSET Routes : r = dev[c][d].routes
    BY DevFields DEF Parts, Table
  <2>2. saved' = saved \/ saved' = [saved EXCEPT ![c][d] = r]
    BY <2>1 DEF peerLeft
  <2>3. CASE saved' = [saved EXCEPT ![c][d] = r]
    BY <2>3 DEF Parts, StartTypes
  <2>. QED
    BY <2>2, <2>3 DEF Parts, StartTypes
<1>5. Table'
  BY <1>2, CloseTable DEF Parts
<1>. QED
  BY <1>2, <1>3, <1>4, <1>5 DEF Parts, Wire, StartTypes

LEMMA StopTunPeerStep ==
  ASSUME Parts, NEW c \in Clients, NEW d \in Clients, StopTunPeer(c, d)
  PROVE  Parts'
<1>1. RoomTypes' /\ StartTypes'
  BY SameRoom, SameStart DEF StopTunPeer, Parts
<1>2. Wire'
  <2>1. PICK box \in [Clients -> Seq(Message)] : box = inbox
    BY DEF Parts, Wire
  <2>2. Msg("tun_teardown", c, <<>>, {}) \in Message
    BY MsgType, NoIP
  <2>. QED
    BY <2>1, <2>2, RelayType DEF StopTunPeer, Wire
<1>3. Table'
  BY CloseTable DEF StopTunPeer, Parts
<1>. QED
  BY <1>1, <1>2, <1>3 DEF Parts

LEMMA DisconnectStep ==
  ASSUME Parts, NEW c \in Clients, Disconnect(c)
  PROVE  Parts'
<1>1. RoomTypes'
  <2>1. todo' \subseteq todo
    BY DEF Disconnect, Does
  <2>2. up' \in [Clients -> BOOLEAN]
    BY DEF Disconnect, Parts, RoomTypes
  <2>3. over' \in [Clients -> BOOLEAN]
    BY DEF Disconnect, Parts, RoomTypes
  <2>. QED
    BY <2>1, <2>2, <2>3 DEF Disconnect, Parts, RoomTypes
<1>2. StartTypes'
  BY SameStart DEF Disconnect, Parts
<1>3. Wire'
  <2>1. PICK told : told = [d \in Clients |->
                    IF up[d] /\ Has(c, d)
                    THEN Append(inbox[d], Msg("tun_teardown", c, <<>>, {}))
                    ELSE inbox[d]]
    OBVIOUS
  <2>2. Msg("tun_teardown", c, <<>>, {}) \in Message
    BY MsgType, NoIP
  <2>3. \A d \in Clients : /\ inbox[d] \in Seq(Message)
                           /\ Append(inbox[d], Msg("tun_teardown", c, <<>>, {}))
                                \in Seq(Message)
    BY <2>2, AppendSeq DEF Parts, Wire
  <2>4. told \in [Clients -> Seq(Message)]
    BY <2>1, <2>3
  <2>5. PICK ms \in SUBSET Clients : ms = Members \ {c}
    BY DEF Members
  <2>6. inbox' = Broadcast(told, ms)
    BY <2>1, <2>5 DEF Disconnect
  <2>. QED
    BY <2>4, <2>6, BroadcastType DEF Wire
<1>4. Table'
  <2>1. PICK none : none = [d \in Clients |-> NoDev]
    OBVIOUS
  <2>2. none \in [Clients -> TunDevice]
    BY <2>1, NoDevType
  <2>3. dev' = [dev EXCEPT ![c] = none]
    BY <2>1 DEF Disconnect
  <2>4. /\ dev' \in [Clients -> [Clients -> TunDevice]]
        /\ \A a, b \in Clients : dev'[a][b] = IF a = c THEN NoDev ELSE dev[a][b]
    BY <2>1, <2>2, <2>3 DEF Parts, Table, DevTypes
  <2>5. PICK closed : closed = {dev[c][d].iface : d \in Clients}
    OBVIOUS
  <2>6. /\ open' \in [Clients -> SUBSET Iface]
        /\ \A a \in Clients : open'[a] = IF a = c THEN open[c] \ closed ELSE open[a]
    BY <2>5 DEF Disconnect, Parts, Table, DevTypes
  <2>7. Blank'
    <3>1. \A a \in Clients : IsFiniteSet(open'[a])
      <4>1. IsFiniteSet(open[c] \ closed)
        BY FS_Subset DEF Parts, Table, Blank
      <4>. QED
        BY <2>6, <4>1 DEF Parts, Table, Blank
    <3>2. ASSUME NEW a \in Clients, NEW b \in Clients, ~Has(a, b)'
          PROVE  dev'[a][b].iface = 0
      <4>1. dev'[a][b] = NoDev \/ dev'[a][b] = dev[a][b]
        BY <2>4
      <4>. QED
        BY <3>2, <4>1, NoDevType DEF Parts, Table, Blank, Has
    <3>. QED
      BY <3>1, <3>2 DEF Blank
  <2>8. TableIsOpen'
    <3>. SUFFICES ASSUME NEW a \in Clients, NEW b \in Clients, Has(a, b)'
                  PROVE  /\ dev'[a][b].iface \in open'[a]
                         /\ \A e \in Clients \ {b} :
                              dev'[a][e].iface # dev'[a][b].iface
      BY DEF TableIsOpen
    <3>1. a # c
      BY <2>4, NoDevType DEF Has
    <3>2. open'[a] = open[a] /\ \A e \in Clients : dev'[a][e] = dev[a][e]
      BY <2>4, <2>6, <3>1
    <3>3. Has(a, b)
      BY <3>2 DEF Has
    <3>. QED
      BY <3>2, <3>3 DEF Parts, Table, TableIsOpen
  <2>9. IncomingUnique'
    <3>1. \A a, b \in Clients : dev'[a][b].role = "responder" =>
                               dev'[a][b] = dev[a][b]
      BY <2>4, NoDevType
    <3>. QED
      BY <3>1 DEF Parts, Table, IncomingUnique
  <2>. QED
    BY <2>4, <2>6, <2>7, <2>8, <2>9 DEF Table, DevTypes
<1>. QED
  BY <1>1, <1>2, <1>3, <1>4 DEF Parts

LEMMA SetAllowVPNStep ==
  ASSUME Parts, NEW c \in Clients, SetAllowVPN(c)
  PROVE  Parts'
<1>1. todo' \subseteq todo
  BY DEF SetAllowVPN, Does
<1>2. allow' \in [Clients -> BOOLEAN]
  BY DEF SetAllowVPN, Parts, RoomTypes
<1>3. UNCHANGED <<case, up, over, peers, pending, acting, stuck, inbox, saved,
                  dev, open, start, ackCh>>
  BY DEF SetAllowVPN, tunVars
<1>4. RoomTypes'
  BY <1>1, <1>2, <1>3 DEF Parts, RoomTypes
<1>. QED
  BY <1>3, <1>4, SameTable, SameStart DEF Parts, Wire

(* A client leaves or enters the room.                                     *)
LEMMA ConnectionStep ==
  ASSUME Parts, NEW c \in Clients, wsDrop(c) \/ reconnect(c)
  PROVE  Parts'
<1>1. todo' \subseteq todo
  BY DEF wsDrop, reconnect, Does
<1>2. up' \in [Clients -> BOOLEAN]
  BY DEF wsDrop, reconnect, Parts, RoomTypes
<1>3. UNCHANGED <<case, over, allow, peers, pending, acting, stuck, saved,
                  dev, open, start, ackCh>>
  BY DEF wsDrop, reconnect, tunVars
<1>4. RoomTypes'
  BY <1>1, <1>2, <1>3 DEF Parts, RoomTypes
<1>5. Wire'
  <2>1. PICK box \in [Clients -> Seq(Message)] : box = inbox
    BY DEF Parts, Wire
  <2>2. Members \ {c} \in SUBSET Clients /\ Members \cup {c} \in SUBSET Clients
    BY DEF Members
  <2>3. PICK ms \in SUBSET Clients : inbox' = Broadcast(box, ms)
    BY <2>1, <2>2 DEF wsDrop, reconnect
  <2>. QED
    BY <2>3, BroadcastType DEF Wire
<1>. QED
  BY <1>3, <1>4, <1>5, SameTable, SameStart DEF Parts

-----------------------------------------------------------------------------
LEMMA NextStep == IInv /\ [Next]_vars => IInv'
<1>. SUFFICES ASSUME Parts, [Next]_vars PROVE Parts'
  BY InvParts
<1>1. ASSUME NEW c \in Clients, readLoop(c) PROVE Parts'
  BY <1>1, HandleTunSetupStep, HandleTunAckStep, HandleTunTeardownStep,
     HandlePeerListStep, ConnectionStep
  DEF readLoop
<1>2. ASSUME NEW c \in Clients, Disconnect(c) \/ SetAllowVPN(c) \/ wsDrop(c)
      PROVE  Parts'
  BY <1>2, DisconnectStep, SetAllowVPNStep, ConnectionStep
<1>3. ASSUME NEW c \in Clients, NEW d \in Clients, StartGo(c, d) PROVE Parts'
  BY <1>3, AutoRestoreStep, StartTunAckedStep, StartTunRoleStep,
     StartTunTimeoutStep
  DEF StartGo
<1>4. ASSUME NEW c \in Clients, NEW d \in Clients, Timer(c, d) \/ User(c, d)
      PROVE  Parts'
  BY <1>4, LeaveTimerStep, PeerLeftStep, UserStartStep, AddRoutesStep,
     StopTunPeerStep
  DEF Timer, User
<1>5. CASE UNCHANGED vars
  <2>1. RoomTypes'
    BY <1>5, SameRoom DEF vars, Parts
  <2>. QED
    BY <1>5, <2>1, SameTable, SameStart DEF vars, tunVars, Parts, Wire
<1>. QED
  BY <1>1, <1>2, <1>3, <1>4, <1>5 DEF Next

LEMMA InitIInv == Init => IInv
<1>. SUFFICES ASSUME Init PROVE Parts
  BY InvParts
<1>1. case \in Case
  BY TunAssumption DEF Init
<1>2. case.ops \subseteq Op \X Clients \X Clients /\ case.room \subseteq Clients
  BY <1>1 DEF Case
<1>3. RoomTypes
  BY <1>1, <1>2 DEF Init, RoomTypes
<1>4. Wire
  BY DEF Init, Wire
<1>5. StartTypes
  BY StartValues DEF Init, StartTypes, Pairs
<1>6. \A c, d \in Clients : dev[c][d] = NoDev
  BY DEF Init, Pairs
<1>7. DevTypes
  BY NoDevType DEF Init, DevTypes, Pairs
<1>8. Blank
  <2>1. \A c \in Clients : IsFiniteSet(open[c])
    BY FS_EmptySet DEF Init
  <2>. QED
    BY <1>6, <2>1, NoDevType DEF Blank
<1>9. TableIsOpen /\ IncomingUnique
  BY <1>6, NoDevType DEF TableIsOpen, IncomingUnique, Has
<1>. QED
  BY <1>3, <1>4, <1>5, <1>7, <1>8, <1>9 DEF Parts, Table

(* The conjunction of the parts holds in every reachable state.            *)
THEOREM Invariance == Spec => []IInv
  BY InitIInv, NextStep, PTL DEF Spec

(* Every variable stays in its type; in particular nextVPNIndex always     *)
(* finds a free index, so that every address is one of the private range.  *)
THEOREM TypeCorrect == Spec => []TypeOK
<1>1. IInv => TypeOK
  BY DEF IInv
<1>. QED
  BY <1>1, Invariance, PTL

(* A device in tunDevices has a live interface, and one of its own: no     *)
(* order of starts, stops, teardowns, leave timers and disconnects leaves  *)
(* a closed device in the table or closes the interface of another.        *)
THEOREM TableIsOpenHolds == Spec => []TableIsOpen
<1>1. IInv => TableIsOpen
  BY DEF IInv
<1>. QED
  BY <1>1, Invariance, PTL

(* The incoming VPNs of a client are on different subnets and none has the *)
(* initiator's own address, whatever last bytes the clients have.          *)
THEOREM IncomingUniqueHolds == Spec => []IncomingUnique
<1>1. IInv => IncomingUnique
  BY DEF IInv
<1>. QED
  BY <1>1, Invariance, PTL
=============================================================================
