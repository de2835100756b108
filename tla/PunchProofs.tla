---------------------------- MODULE PunchProofs ----------------------------
(***************************************************************************)
(* Proofs about Punch, for any bounds on sockets, keys, failures, retries  *)
(* and packets in flight, and any NATs.                                    *)
(***************************************************************************)
EXTENDS Punch, FiniteSetTheorems, TLAPS

(* A shared key belongs to a key pair.                                     *)
KeyPair == \A c \in Clients : Encrypted(c) => pc[c].own # 0

(* The network holds what the case allows, so that a new key is free.      *)
NetBound == /\ case \in Cases
            /\ IsFiniteSet(net) /\ Cardinality(net) <= case.net

IInv == TypeOK /\ NetBound /\ KeyPair /\ FailsAreHonest

-----------------------------------------------------------------------------
(* The constants.                                                          *)
LEMMA Bounds == /\ MaxKey \in Nat /\ FailLimit \in Nat /\ MaxFails \in Nat
                /\ MaxSock \in Nat /\ 0 < FailLimit /\ FailLimit <= MaxFails
                /\ 2 <= MaxSock /\ Cases \subseteq Case
                /\ \A e \in Cases : e.net \in Nat /\ e.net + 2 <= MaxKey
  BY PunchAssumption DEF Case

(* A client has one peer.                                                  *)
LEMMA OtherType == \A c \in Clients : Other(c) \in Clients /\ Other(c) # c
<1> SUFFICES ASSUME NEW c \in Clients
             PROVE  Other(c) \in Clients /\ Other(c) # c
  OBVIOUS
<1>1. IsFiniteSet(Clients \ {c}) /\ Cardinality(Clients \ {c}) = 1
  BY PunchAssumption, FS_RemoveElement
<1>2. \E d \in Clients : d # c
  BY <1>1, FS_EmptySet
<1>. QED
  BY <1>2 DEF Other

(* One more element.                                                       *)
LEMMA AddOne == ASSUME NEW S, IsFiniteSet(S), NEW x
                PROVE  /\ IsFiniteSet(S \cup {x}) /\ Cardinality(S) \in Nat
                       /\ Cardinality(S \cup {x}) \in Nat
                       /\ Cardinality(S \cup {x}) <= Cardinality(S) + 1
<1>1. /\ IsFiniteSet(S \cup {x}) /\ Cardinality(S) \in Nat
      /\ Cardinality(S \cup {x}) = IF x \in S THEN Cardinality(S)
                                              ELSE Cardinality(S) + 1
  BY FS_AddElement, FS_CardinalityType
<1>. QED
  BY <1>1

(* The keys that somebody holds are fewer than there are.                  *)
LEMMA NewKey ==
  ASSUME IInv, NEW c \in Clients, pc[c].own = 0
  PROVE  NewPeerCrypto(c) \in 1 .. MaxKey
<1> DEFINE O == {q \in net : q.to = Other(c)}
           P == {p.key : p \in O}
           Q == P \cup {pc[Other(c)].peer}
           f == [p \in O |-> p.key]
<1>1. IsFiniteSet(O) /\ Cardinality(O) <= Cardinality(net)
  BY FS_Subset DEF IInv, NetBound
<1>2. f \in Surjection(O, P)
  BY DEF Surjection
<1>3. IsFiniteSet(P) /\ Cardinality(P) <= Cardinality(O)
  BY <1>1, <1>2, FS_Surjection
<1>4. /\ IsFiniteSet(Q) /\ Cardinality(P) \in Nat /\ Cardinality(Q) \in Nat
      /\ Cardinality(Q) <= Cardinality(P) + 1
  BY <1>3, AddOne
<1>5. /\ IsFiniteSet(1 .. MaxKey) /\ Cardinality(1 .. MaxKey) = MaxKey
      /\ MaxKey \in Nat
  BY Bounds, FS_Interval
<1>6. ~(1 .. MaxKey \subseteq Q)
  <2> HIDE DEF O, P, Q
  <2>1. Cardinality(O) \in Nat /\ Cardinality(net) \in Nat
    BY <1>1, FS_CardinalityType DEF IInv, NetBound
  <2>2. case.net \in Nat /\ case.net + 2 <= MaxKey /\ Cardinality(net) <= case.net
    BY Bounds DEF IInv, NetBound
  <2>3. Cardinality(Q) < MaxKey
    BY <1>1, <1>3, <1>4, <1>5, <2>1, <2>2
  <2>4. 1 .. MaxKey \subseteq Q => Cardinality(1 .. MaxKey) <= Cardinality(Q)
    BY <1>4, FS_Subset
  <2>. QED
    BY <1>4, <1>5, <2>3, <2>4
<1>7. KeysOut(c) = Q \cup {0}
  BY DEF KeysOut
<1>8. \E k \in 1 .. MaxKey : k \notin KeysOut(c)
  <2> HIDE DEF Q
  <2>1. PICK k \in 1 .. MaxKey : k \notin Q
    BY <1>6
  <2>2. k # 0
    BY Bounds
  <2>. QED
    BY <1>7, <2>1, <2>2
<1>. QED
  BY <1>8 DEF NewPeerCrypto

LEMMA OwnKeyType == ASSUME IInv, NEW c \in Clients
                    PROVE  OwnKey(c) \in 1 .. MaxKey /\ OwnKey(c) \in Key
<1>1. pc[c].own \in Key /\ MaxKey \in Nat
  BY Bounds DEF IInv, TypeOK, PeerConn
<1>. QED
  BY <1>1, NewKey DEF OwnKey, Key

-----------------------------------------------------------------------------
(* Packets.                                                                *)
LEMMA PktType ==
  ASSUME NEW c \in Clients, NEW src \in Addr, NEW dst \in Addr,
         NEW kind \in {"PUNCH", "PUNCH_ACK", "KEY"}, NEW key \in Key
  PROVE  Pkt(c, kind, src, dst, key) \in Packet
  BY OtherType DEF Pkt, Packet

LEMMA LiveType == ASSUME TypeOK, NEW c \in Clients PROVE Live(c) \in Addr
  BY DEF TypeOK, Live, Addr

LEMMA WriteType ==
  ASSUME TypeOK, NEW c \in Clients, NEW dst \in Addr,
         NEW kind \in {"PUNCH", "PUNCH_ACK", "KEY"}, NEW key \in Key
  PROVE  /\ Write(c, kind, dst, key) \subseteq Packet
         /\ IsFiniteSet(Write(c, kind, dst, key))
<1>1. Pkt(c, kind, Live(c), dst, key) \in Packet
  BY LiveType, PktType
<1>. QED
  BY <1>1, FS_EmptySet, FS_Singleton DEF Write

LEMMA BurstType ==
  ASSUME TypeOK, NEW c \in Clients, NEW r \in PeerConn
  PROVE  Burst(c, r) \subseteq Packet /\ IsFiniteSet(Burst(c, r))
<1> DEFINE hard  == "NAT4" \in {nat[c], r.nat}
           cone  == nat[c] # "NAT4" /\ r.nat = "NAT4"
           guess == [r.addr EXCEPT !.port = "peer"]
           extra == [sock |-> udp[c], port |-> "extra"]
           Fire(s, d) == {Pkt(c, "PUNCH", s, d, 0)}
           X == Fire(Live(c), r.addr)
           Y == IF hard THEN Fire(extra, r.addr) \cup Fire(Live(c), guess) ELSE {}
           Z == IF cone THEN Fire(extra, guess) ELSE {}
<1>1. Live(c) \in Addr /\ r.addr \in Addr /\ guess \in Addr /\ extra \in Addr
  BY LiveType DEF TypeOK, PeerConn, Addr
<1>2. 0 \in Key
  BY Bounds DEF Key
<1> HIDE DEF guess, extra
<1>3. ASSUME NEW s \in Addr, NEW d \in Addr
      PROVE  Fire(s, d) \subseteq Packet /\ IsFiniteSet(Fire(s, d))
  <2>1. Pkt(c, "PUNCH", s, d, 0) \in Packet
    BY <1>2, PktType
  <2>. QED
    BY <2>1, FS_Singleton
<1> HIDE DEF Fire
<1>4. Fire(extra, r.addr) \cup Fire(Live(c), guess) \subseteq Packet
      /\ IsFiniteSet(Fire(extra, r.addr) \cup Fire(Live(c), guess))
  BY <1>1, <1>3, FS_Union
<1>5. X \subseteq Packet /\ IsFiniteSet(X)
  BY <1>1, <1>3
<1>6. Y \subseteq Packet /\ IsFiniteSet(Y)
  BY <1>4, FS_EmptySet
<1>7. Z \subseteq Packet /\ IsFiniteSet(Z)
  BY <1>1, <1>3, FS_EmptySet
<1>8. Burst(c, r) = X \cup Y \cup Z
  BY DEF Burst, guess, extra, Fire
<1> HIDE DEF X, Y, Z
<1>9. X \cup Y \subseteq Packet /\ IsFiniteSet(X \cup Y)
  BY <1>5, <1>6, FS_Union
<1>10. X \cup Y \cup Z \subseteq Packet /\ IsFiniteSet(X \cup Y \cup Z)
  BY <1>7, <1>9, FS_Union
<1>. QED
  BY <1>8, <1>10

(* What Send leaves on the network.                                        *)
LEMMA SendType ==
  ASSUME IInv, NEW old \in SUBSET net, NEW new \in SUBSET Packet,
         IsFiniteSet(new), Send(old, new), UNCHANGED case
  PROVE  net' \subseteq Packet /\ NetBound'
<1>1. PICK some \in SUBSET new :
        Cardinality(old \cup some) <= case.net /\ net' = old \cup some
  BY DEF Send
<1>2. IsFiniteSet(some) /\ IsFiniteSet(old)
  BY FS_Subset DEF IInv, NetBound
<1>3. IsFiniteSet(old \cup some)
  BY <1>2, FS_Union
<1>. QED
  BY <1>1, <1>3 DEF IInv, TypeOK, NetBound

-----------------------------------------------------------------------------
(* What a step may do to a PeerConn.                                       *)
Honest(r) == /\ r.mode = "direct" => r.fails = 0
             /\ r.mode = "relay" => r.fails >= FailLimit
Paired(r) == r.peer # 0 => r.own # 0

Evolves(r, s) ==
  /\ s \in PeerConn
  /\ Honest(r) => Honest(s)
  /\ Paired(r) => Paired(s)
  /\ r.peer # 0 /\ r.own # 0 => \/ s.own = r.own /\ s.peer = r.peer
                                \/ s.own = 0

Stable == \A c \in Clients : Encrypted(c) =>
            \/ pc'[c].own = pc[c].own /\ pc'[c].peer = pc[c].peer
            \/ pc'[c].own = 0

(* A step that changes the PeerConn of one client, or none.                *)
LEMMA PcFrame ==
  ASSUME IInv, NEW c \in Clients,
         \/ UNCHANGED pc
         \/ \E s : pc' = [pc EXCEPT ![c] = s] /\ Evolves(pc[c], s)
  PROVE  pc' \in [Clients -> PeerConn] /\ KeyPair' /\ FailsAreHonest' /\ Stable
<1>0. pc \in [Clients -> PeerConn] /\ KeyPair /\ FailsAreHonest
  BY DEF IInv, TypeOK
<1>1. CASE UNCHANGED pc
  BY <1>0, <1>1 DEF KeyPair, FailsAreHonest, Stable, Encrypted
<1>2. ASSUME NEW s, pc' = [pc EXCEPT ![c] = s], Evolves(pc[c], s)
      PROVE  pc' \in [Clients -> PeerConn] /\ KeyPair' /\ FailsAreHonest' /\ Stable
  <2>1. /\ pc' \in [Clients -> PeerConn]
        /\ \A d \in Clients : pc'[d] = IF d = c THEN s ELSE pc[d]
    BY <1>0, <1>2 DEF Evolves
  <2>2. Honest(pc[c]) /\ Paired(pc[c])
    BY <1>0 DEF KeyPair, FailsAreHonest, Honest, Paired, Encrypted
  <2>3. /\ Honest(s) /\ Paired(s)
        /\ pc[c].peer # 0 => \/ s.own = pc[c].own /\ s.peer = pc[c].peer
                             \/ s.own = 0
    BY <1>2, <2>2 DEF Evolves, Paired
  <2>4. KeyPair'
    BY <1>0, <2>1, <2>3 DEF KeyPair, Paired, Encrypted
  <2>5. FailsAreHonest'
    BY <1>0, <2>1, <2>3 DEF FailsAreHonest, Honest
  <2>6. Stable
    BY <2>1, <2>3 DEF Stable, Encrypted
  <2>. QED
    BY <2>1, <2>4, <2>5, <2>6
<1>. QED
  BY <1>1, <1>2

(* An attempt fixes the own key and sends its packets.                     *)
LEMMA AttemptOK ==
  ASSUME IInv, NEW c \in Clients, NEW r, Evolves(pc[c], r),
         r.own = pc[c].own, attemptHolePunch(c, r), UNCHANGED case
  PROVE  /\ \E s : pc' = [pc EXCEPT ![c] = s] /\ Evolves(pc[c], s)
         /\ net' \subseteq Packet /\ NetBound'
<1>0. r \in PeerConn /\ MaxKey \in Nat
  BY Bounds DEF Evolves
<1>1. CASE pc' = [pc EXCEPT ![c] = r] /\ UNCHANGED net
  BY <1>1 DEF IInv, TypeOK, NetBound
<1>2. CASE /\ pc' = [pc EXCEPT ![c] = [r EXCEPT !.own =
                       IF r.own = 0 THEN NewPeerCrypto(c) ELSE r.own]]
           /\ Send(net, Burst(c, r))
  <2>1. PICK k : k = IF r.own = 0 THEN NewPeerCrypto(c) ELSE r.own
    OBVIOUS
  <2>2. r.own # 0 => k = r.own
    BY <2>1
  <2>3. k \in Key /\ k # 0
    <3>1. r.own \in Key
      BY <1>0 DEF PeerConn
    <3>2. CASE r.own = 0
      <4>1. k \in 1 .. MaxKey
        BY <2>1, <3>2, NewKey
      <4>. QED
        BY <4>1, <1>0 DEF Key
    <3>. QED
      BY <2>2, <3>1, <3>2
  <2> DEFINE s == [r EXCEPT !.own = k]
  <2>4. s \in PeerConn /\ s.own = k /\ s.peer = r.peer /\ s.mode = r.mode
        /\ s.fails = r.fails
    BY <1>0, <2>3 DEF PeerConn
  <2>5. pc' = [pc EXCEPT ![c] = s]
    BY <1>2, <2>1
  <2> HIDE DEF s
  <2>6. Evolves(pc[c], s)
    BY <2>2, <2>3, <2>4 DEF Evolves, Honest, Paired
  <2>7. Burst(c, r) \in SUBSET Packet /\ IsFiniteSet(Burst(c, r))
    BY <1>0, BurstType DEF IInv
  <2>8. net' \subseteq Packet /\ NetBound'
    BY <1>2, <2>7, SendType
  <2>. QED
    BY <2>5, <2>6, <2>8
<1>. QED
  BY <1>1, <1>2 DEF attemptHolePunch

-----------------------------------------------------------------------------
(* Signalling messages.                                                    *)
SigMsg == [addr : Addr, nat : NAT]

LEMMA EnqueueType ==
  ASSUME TypeOK, NEW c \in Clients, NEW m \in SigMsg
  PROVE  Enqueue(c, m) \in Seq(SigMsg)
<1>1. sig[c] \in Seq(SigMsg)
  BY DEF TypeOK, SigMsg
<1>2. Append(sig[c], m) \in Seq(SigMsg)
  BY <1>1
<1>. QED
  BY <1>1, <1>2 DEF Enqueue

LEMMA StunInfoType ==
  ASSUME TypeOK, NEW c \in Clients PROVE sendStunInfo(c) \in Seq(SigMsg)
<1>1. [addr |-> [sock |-> pub[c], port |-> "stun"], nat |-> nat[c]] \in SigMsg
  BY DEF TypeOK, SigMsg, Addr
<1>2. Other(c) \in Clients
  BY OtherType
<1>3. sig[Other(c)] \in Seq(SigMsg)
  BY <1>2 DEF TypeOK, SigMsg
<1>4. Enqueue(Other(c), [addr |-> [sock |-> pub[c], port |-> "stun"],
                         nat |-> nat[c]]) \in Seq(SigMsg)
  BY <1>1, <1>2, EnqueueType
<1>. QED
  BY <1>3, <1>4 DEF sendStunInfo

(* The rest of the state keeps its type.                                   *)
RestOK == /\ case \in Case /\ drops \subseteq Clients
          /\ up \in [Clients -> BOOLEAN] /\ news \in [Clients -> BOOLEAN]
          /\ reset \in [Clients -> BOOLEAN] /\ disc \in [Clients -> BOOLEAN]
          /\ udp \in [Clients -> Sock] /\ pub \in [Clients -> Sock]
          /\ socks \in Sock /\ nat \in [Clients -> NAT]
          /\ mid \in [Clients -> Addr] /\ retry \in [Clients -> Nat]

LEMMA Together ==
  ASSUME IInv, NEW c \in Clients, RestOK', sig' \in [Clients -> Seq(SigMsg)],
         net' \subseteq Packet, NetBound',
         \/ UNCHANGED pc
         \/ \E s : pc' = [pc EXCEPT ![c] = s] /\ Evolves(pc[c], s)
  PROVE  IInv' /\ Stable
<1>1. pc' \in [Clients -> PeerConn] /\ KeyPair' /\ FailsAreHonest' /\ Stable
  BY PcFrame
<1>2. TypeOK'
  BY <1>1 DEF RestOK, TypeOK, SigMsg
<1>. QED
  BY <1>1, <1>2 DEF IInv

LEMMA Parts == ASSUME IInv
               PROVE  /\ RestOK /\ sig \in [Clients -> Seq(SigMsg)]
                      /\ net \subseteq Packet /\ NetBound
                      /\ pc \in [Clients -> PeerConn]
  BY DEF IInv, TypeOK, RestOK, SigMsg

LEMMA SigTail ==
  ASSUME NEW s \in Seq(SigMsg), s # <<>>
  PROVE  Tail(s) \in Seq(SigMsg) /\ Head(s) \in SigMsg
  OBVIOUS

-----------------------------------------------------------------------------
(* One lemma per action.                                                   *)
LEMMA handlePeerListInv ==
  ASSUME IInv, NEW c \in Clients, handlePeerList(c) PROVE IInv' /\ Stable
<1>0. /\ RestOK /\ sig \in [Clients -> Seq(SigMsg)] /\ net \subseteq Packet
      /\ NetBound /\ pc \in [Clients -> PeerConn]
  BY Parts
<1>1. RestOK'
  BY <1>0 DEF handlePeerList, sockVars, RestOK
<1>2. sig' \in [Clients -> Seq(SigMsg)]
  BY <1>0, StunInfoType DEF handlePeerList, IInv
<1>3. net' \subseteq Packet /\ NetBound'
  BY <1>0 DEF handlePeerList, NetBound
<1>4. \/ UNCHANGED pc
      \/ \E s : pc' = [pc EXCEPT ![c] = s] /\ Evolves(pc[c], s)
  <2>1. CASE UNCHANGED pc
    BY <2>1
  <2>2. CASE pc' = [pc EXCEPT ![c].mode = "connecting"]
    <3> DEFINE s == [pc[c] EXCEPT !.mode = "connecting"]
    <3>1. s \in PeerConn /\ s.own = pc[c].own /\ s.peer = pc[c].peer
          /\ s.mode = "connecting"
      BY <1>0 DEF PeerConn
    <3>2. pc' = [pc EXCEPT ![c] = s]
      BY <2>2
    <3> HIDE DEF s
    <3>3. Evolves(pc[c], s)
      BY <3>1 DEF Evolves, Honest, Paired
    <3>. QED
      BY <3>2, <3>3
  <2>. QED
    BY <2>1, <2>2 DEF handlePeerList
<1>. QED
  BY <1>1, <1>2, <1>3, <1>4, Together

LEMMA NoConnOK == ASSUME NEW r PROVE Evolves(r, NoConn)
  BY Bounds DEF Evolves, NoConn, PeerConn, NoAddr, Addr, Sock, NAT, Key,
                Honest, Paired

LEMMA peerLeftInv ==
  ASSUME IInv, NEW c \in Clients, peerLeft(c) PROVE IInv' /\ Stable
<1>0. /\ RestOK /\ sig \in [Clients -> Seq(SigMsg)] /\ net \subseteq Packet
      /\ NetBound
  BY Parts
<1>1. RestOK' /\ sig' \in [Clients -> Seq(SigMsg)] /\ net' \subseteq Packet
      /\ NetBound'
  BY <1>0 DEF peerLeft, wsVars, sockVars, RestOK, NetBound
<1>2. pc' = [pc EXCEPT ![c] = NoConn] /\ Evolves(pc[c], NoConn)
  BY NoConnOK DEF peerLeft
<1>. QED
  BY <1>1, <1>2, Together

(* The end of handleStunInfo.                                              *)
LEMMA AnswerInv ==
  ASSUME IInv, NEW c \in Clients, NEW r, Evolves(pc[c], r),
         r.own = pc[c].own, r.peer = pc[c].peer,
         NEW addr \in Addr, Answer(c, r, addr),
         mid[c].sock = 0 => sig[c] # <<>>,
         mid' \in [Clients -> Addr]
  PROVE  IInv' /\ Stable
<1>0. /\ RestOK /\ sig \in [Clients -> Seq(SigMsg)] /\ net \subseteq Packet
      /\ NetBound /\ pc \in [Clients -> PeerConn] /\ r \in PeerConn
  BY Parts DEF Evolves
<1>1. UNCHANGED <<case, up, drops, news, reset, udp, pub, disc, socks, nat,
                  retry>>
  BY DEF Answer, wsVars, sockVars
<1>2. RestOK'
  BY <1>0, <1>1 DEF RestOK
<1>3. sig' \in [Clients -> Seq(SigMsg)]
  <2>1. sendStunInfo(c) \in Seq(SigMsg)
    BY StunInfoType DEF IInv
  <2>2. (IF mid[c].sock = 0 THEN Tail(sig[c]) ELSE sig[c]) \in Seq(SigMsg)
    BY <1>0, SigTail
  <2>3. sig' = [sig EXCEPT ![c] = IF mid[c].sock = 0 THEN Tail(sig[c]) ELSE sig[c],
                           ![Other(c)] = sendStunInfo(c)]
    BY DEF Answer
  <2>. QED
    BY <1>0, <2>1, <2>2, <2>3
<1> DEFINE s == [r EXCEPT !.addr = addr]
<1>4. s \in PeerConn /\ s.own = r.own /\ s.peer = r.peer /\ s.mode = r.mode
      /\ s.fails = r.fails
  BY <1>0 DEF PeerConn
<1>5. \/ pc' = [pc EXCEPT ![c] = s] /\ UNCHANGED net
      \/ attemptHolePunch(c, s)
  BY DEF Answer
<1> HIDE DEF s
<1>6. Evolves(pc[c], s)
  BY <1>4 DEF Evolves, Honest, Paired
<1>7. /\ \E x : pc' = [pc EXCEPT ![c] = x] /\ Evolves(pc[c], x)
      /\ net' \subseteq Packet /\ NetBound'
  <2>1. CASE pc' = [pc EXCEPT ![c] = s] /\ UNCHANGED net
    BY <1>0, <1>1, <1>6, <2>1 DEF NetBound
  <2>2. CASE attemptHolePunch(c, s)
    BY <1>1, <1>4, <1>6, <2>2, AttemptOK
  <2>. QED
    BY <1>5, <2>1, <2>2
<1>. QED
  BY <1>2, <1>3, <1>7, Together

LEMMA handleStunInfoInv ==
  ASSUME IInv, NEW c \in Clients, handleStunInfo(c) PROVE IInv' /\ Stable
<1> DEFINE m == Head(sig[c])
           r == [pc[c] EXCEPT !.mode = IF @ = "none" THEN "connecting" ELSE @,
                              !.nat  = IF m.nat # "" THEN m.nat ELSE @]
<1>0. /\ RestOK /\ sig \in [Clients -> Seq(SigMsg)] /\ net \subseteq Packet
      /\ NetBound /\ pc \in [Clients -> PeerConn] /\ sig[c] # <<>>
  BY Parts DEF handleStunInfo
<1>1. m \in SigMsg /\ Tail(sig[c]) \in Seq(SigMsg)
  BY <1>0, SigTail
<1>2. m.addr \in Addr /\ m.nat \in NAT
  BY <1>1 DEF SigMsg
<1>3. \/ r.mode # "direct" /\ Answer(c, r, m.addr) /\ UNCHANGED mid
      \/ /\ r.mode = "direct"
         /\ sig' = [sig EXCEPT ![c] = Tail(sig[c])]
         /\ \/ pc' = [pc EXCEPT ![c] = r] /\ UNCHANGED mid
            \/ /\ pc' = [pc EXCEPT ![c] = [r EXCEPT !.mode = "connecting",
                                                    !.own = 0, !.peer = 0]]
               /\ mid' = [mid EXCEPT ![c] = m.addr]
         /\ UNCHANGED <<case, wsVars, sockVars, retry, net>>
  BY DEF handleStunInfo
<1> HIDE DEF m
<1>4. /\ r \in PeerConn /\ r.own = pc[c].own /\ r.peer = pc[c].peer
      /\ r.fails = pc[c].fails
      /\ r.mode = IF pc[c].mode = "none" THEN "connecting" ELSE pc[c].mode
  BY <1>0, <1>2 DEF PeerConn
<1> HIDE DEF r
<1>5. Evolves(pc[c], r)
  BY <1>4 DEF Evolves, Honest, Paired
<1>6. CASE Answer(c, r, m.addr) /\ UNCHANGED mid
  <2>1. PICK a, q : a = m.addr /\ a \in Addr /\ q = r
    BY <1>2
  <2>2. mid' \in [Clients -> Addr]
    BY <1>0, <1>6 DEF RestOK
  <2>. QED
    BY <1>0, <1>4, <1>5, <1>6, <2>1, <2>2, AnswerInv
<1>7. CASE /\ sig' = [sig EXCEPT ![c] = Tail(sig[c])]
           /\ \/ pc' = [pc EXCEPT ![c] = r] /\ UNCHANGED mid
              \/ /\ pc' = [pc EXCEPT ![c] = [r EXCEPT !.mode = "connecting",
                                                      !.own = 0, !.peer = 0]]
                 /\ mid' = [mid EXCEPT ![c] = m.addr]
           /\ UNCHANGED <<case, wsVars, sockVars, retry, net>>
  <2>1. RestOK'
    BY <1>0, <1>2, <1>7 DEF RestOK, wsVars, sockVars
  <2>2. sig' \in [Clients -> Seq(SigMsg)] /\ net' \subseteq Packet /\ NetBound'
    BY <1>0, <1>1, <1>7 DEF NetBound
  <2> DEFINE s == [r EXCEPT !.mode = "connecting", !.own = 0, !.peer = 0]
  <2>3. s \in PeerConn /\ s.own = 0 /\ s.peer = 0 /\ s.mode = "connecting"
    <3>1. 0 \in Key /\ r \in PeerConn
      BY <1>4, Bounds DEF Key
    <3>. QED
      BY <3>1 DEF PeerConn
  <2>4. pc' = [pc EXCEPT ![c] = r] \/ pc' = [pc EXCEPT ![c] = s]
    BY <1>7
  <2> HIDE DEF s
  <2>5. Evolves(pc[c], s)
    BY <2>3 DEF Evolves, Honest, Paired
  <2>. QED
    BY <1>5, <2>1, <2>2, <2>4, <2>5, Together
<1>. QED
  BY <1>3, <1>6, <1>7

LEMMA handleStunInfoMovedInv ==
  ASSUME IInv, NEW c \in Clients, handleStunInfoMoved(c) PROVE IInv' /\ Stable
<1>0. RestOK /\ pc \in [Clients -> PeerConn]
  BY Parts
<1>1. /\ mid[c].sock # 0 /\ Answer(c, pc[c], mid[c])
      /\ mid' = [mid EXCEPT ![c] = NoAddr]
  BY DEF handleStunInfoMoved
<1>2. mid[c] \in Addr /\ mid' \in [Clients -> Addr]
  BY <1>0, <1>1, Bounds DEF RestOK, NoAddr, Addr, Sock
<1>3. Evolves(pc[c], pc[c])
  BY <1>0 DEF Evolves
<1>4. PICK a, r : a = mid[c] /\ a \in Addr /\ r = pc[c]
  BY <1>2
<1>. QED
  BY <1>1, <1>2, <1>3, <1>4, AnswerInv

LEMMA DiscoverSTUNInv ==
  ASSUME IInv, NEW c \in Clients, DiscoverSTUN(c) PROVE IInv' /\ Stable
<1>0. RestOK /\ sig \in [Clients -> Seq(SigMsg)] /\ NetBound
  BY Parts
<1>1. socks + 1 \in Sock
  BY <1>0, Bounds DEF DiscoverSTUN, RestOK, Sock
<1>2. RestOK'
  BY <1>0, <1>1 DEF DiscoverSTUN, wsVars, RestOK
<1>3. sig' \in [Clients -> Seq(SigMsg)]
  <2> DEFINE m == [addr |-> [sock |-> socks + 1, port |-> "stun"], nat |-> nat[c]]
  <2>1. m \in SigMsg
    BY <1>0, <1>1 DEF RestOK, SigMsg, Addr
  <2>2. \/ UNCHANGED sig
        \/ sig' = [sig EXCEPT ![Other(c)] = Enqueue(Other(c), m)]
    BY DEF DiscoverSTUN
  <2> HIDE DEF m
  <2>3. Enqueue(Other(c), m) \in Seq(SigMsg)
    BY <2>1, EnqueueType, OtherType DEF IInv
  <2>. QED
    BY <1>0, <2>2, <2>3
<1>4. net' \subseteq Packet /\ NetBound'
  <2>1. case' = case /\ net' = {}
    BY DEF DiscoverSTUN
  <2>2. case.net \in Nat
    BY <1>0, Bounds DEF NetBound
  <2>. QED
    BY <1>0, <2>1, <2>2, FS_EmptySet DEF NetBound
<1>. QED
  BY <1>2, <1>3, <1>4, Together DEF DiscoverSTUN

LEMMA retryTickInv ==
  ASSUME IInv, NEW c \in Clients, retryTick(c) PROVE IInv' /\ Stable
<1> DEFINE giveUp == pc[c].mode = "connecting" /\ pc[c].fails >= FailLimit
           r == [pc[c] EXCEPT !.mode = IF giveUp THEN "relay" ELSE @]
<1>0. RestOK /\ sig \in [Clients -> Seq(SigMsg)] /\ pc \in [Clients -> PeerConn]
  BY Parts
<1>1. /\ UNCHANGED <<case, up, drops, news, reset, udp, pub, disc, socks, nat,
                     sig, mid>>
      /\ retry' = [retry EXCEPT ![c] = retry[c] + 1]
      /\ attemptHolePunch(c, r)
  BY DEF retryTick, wsVars, sockVars
<1>2. RestOK'
  BY <1>0, <1>1 DEF RestOK
<1>3. r \in PeerConn /\ r.own = pc[c].own /\ r.peer = pc[c].peer
      /\ r.fails = pc[c].fails
      /\ r.mode = IF giveUp THEN "relay" ELSE pc[c].mode
  BY <1>0 DEF PeerConn
<1> HIDE DEF r
<1>4. Evolves(pc[c], r)
  BY <1>3 DEF Evolves, Honest, Paired
<1>5. PICK q : q = r
  OBVIOUS
<1>6. /\ \E s : pc' = [pc EXCEPT ![c] = s] /\ Evolves(pc[c], s)
      /\ net' \subseteq Packet /\ NetBound'
  BY <1>1, <1>3, <1>4, <1>5, AttemptOK
<1>. QED
  BY <1>0, <1>1, <1>2, <1>6, Together

LEMMA retryFailedInv ==
  ASSUME IInv, NEW c \in Clients, retryFailed(c) PROVE IInv' /\ Stable
<1>0. /\ RestOK /\ sig \in [Clients -> Seq(SigMsg)] /\ net \subseteq Packet
      /\ NetBound /\ pc \in [Clients -> PeerConn]
  BY Parts
<1>1. RestOK'
  BY <1>0 DEF retryFailed, wsVars, sockVars, RestOK
<1>2. /\ sig' \in [Clients -> Seq(SigMsg)] /\ net' \subseteq Packet /\ NetBound'
  BY <1>0 DEF retryFailed, NetBound
<1>3. \/ UNCHANGED pc
      \/ \E s : pc' = [pc EXCEPT ![c] = s] /\ Evolves(pc[c], s)
  <2>1. CASE /\ pc[c].mode # "direct" /\ pc[c].fails # MaxFails
             /\ pc' = [pc EXCEPT ![c].fails = pc[c].fails + 1]
    <3> DEFINE s == [pc[c] EXCEPT !.fails = pc[c].fails + 1]
    <3>0. pc[c].fails \in 0 .. MaxFails /\ pc[c] \in PeerConn
      BY <1>0 DEF PeerConn
    <3>1. pc[c].fails + 1 \in 0 .. MaxFails
      BY <2>1, <3>0, Bounds
    <3>2. s \in PeerConn /\ s.own = pc[c].own /\ s.peer = pc[c].peer
          /\ s.mode = pc[c].mode /\ s.fails = pc[c].fails + 1
      BY <3>0, <3>1 DEF PeerConn
    <3>3. pc' = [pc EXCEPT ![c] = s]
      BY <2>1
    <3> HIDE DEF s
    <3>4. pc[c].fails >= FailLimit => pc[c].fails + 1 >= FailLimit
      BY <3>0, Bounds
    <3>5. Evolves(pc[c], s)
      BY <2>1, <3>2, <3>4 DEF Evolves, Honest, Paired
    <3>. QED
      BY <3>3, <3>5
  <2>. QED
    BY <2>1 DEF retryFailed
<1>. QED
  BY <1>1, <1>2, <1>3, Together

(* The packets the UDP read loop answers with.                             *)
LEMMA ReplyOK ==
  ASSUME IInv, NEW p \in net, NEW X, NEW Y, X \subseteq Packet, IsFiniteSet(X),
         Y \subseteq Packet, IsFiniteSet(Y), Reply(p, X \cup Y), UNCHANGED case
  PROVE  net' \subseteq Packet /\ NetBound'
<1>1. X \cup Y \in SUBSET Packet /\ IsFiniteSet(X \cup Y)
  BY FS_Union
<1>2. net \ {p} \in SUBSET net
  OBVIOUS
<1>. QED
  BY <1>1, <1>2, SendType DEF Reply

LEMMA recvPunchInv ==
  ASSUME IInv, NEW c \in Clients, NEW p \in net, recvPunch(c, p)
  PROVE  IInv' /\ Stable
<1> DEFINE X == sendKeyExchange(c, p.src)
           Y == IF p.kind = "PUNCH" THEN Write(c, "PUNCH_ACK", p.src, 0) ELSE {}
<1>0. /\ RestOK /\ sig \in [Clients -> Seq(SigMsg)] /\ pc \in [Clients -> PeerConn]
      /\ p \in Packet /\ p.src \in Addr /\ 0 \in Key /\ TypeOK
  BY Parts, Bounds DEF Packet, Key, IInv
<1>1. OwnKey(c) \in 1 .. MaxKey /\ OwnKey(c) \in Key
  BY OwnKeyType
<1>2. /\ UNCHANGED <<case, up, drops, news, reset, udp, pub, disc, socks, nat,
                     sig, mid, retry>>
      /\ pc' = [pc EXCEPT ![c] = Succeeded(c, p.src)]
      /\ Reply(p, X \cup Y)
  BY DEF recvPunch, wsVars, sockVars
<1>3. RestOK' /\ sig' \in [Clients -> Seq(SigMsg)]
  BY <1>0, <1>2 DEF RestOK
<1>4. X \subseteq Packet /\ IsFiniteSet(X)
  BY <1>0, <1>1, WriteType, FS_EmptySet DEF sendKeyExchange
<1>5. Y \subseteq Packet /\ IsFiniteSet(Y)
  BY <1>0, WriteType, FS_EmptySet
<1> HIDE DEF X, Y
<1>6. net' \subseteq Packet /\ NetBound'
  <2>1. PICK A, B : A = X /\ B = Y
    OBVIOUS
  <2>. QED
    BY <1>2, <1>4, <1>5, <2>1, ReplyOK
<1>7. Evolves(pc[c], Succeeded(c, p.src))
  <2>1. CASE pc[c].mode = "direct"
    BY <1>0, <2>1 DEF Succeeded, Evolves
  <2>2. CASE pc[c].mode # "direct"
    <3>1. PICK k \in Key : k = OwnKey(c)
      BY <1>1
    <3>2. k # 0 /\ (pc[c].own # 0 => k = pc[c].own)
      BY <1>1, <3>1, Bounds DEF OwnKey
    <3> DEFINE s == [pc[c] EXCEPT !.mode = "direct", !.addr = p.src,
                                  !.fails = 0, !.own = k]
    <3>3. 0 \in 0 .. MaxFails /\ pc[c] \in PeerConn
      BY <1>0, Bounds
    <3>4. s \in PeerConn /\ s.own = k /\ s.peer = pc[c].peer
          /\ s.mode = "direct" /\ s.fails = 0
      BY <1>0, <3>3 DEF PeerConn
    <3>5. Succeeded(c, p.src) = s
      BY <2>2, <3>1 DEF Succeeded
    <3> HIDE DEF s
    <3>6. Evolves(pc[c], s)
      BY <3>2, <3>4 DEF Evolves, Honest, Paired
    <3>. QED
      BY <3>5, <3>6
  <2>. QED
    BY <2>1, <2>2
<1>. QED
  BY <1>2, <1>3, <1>6, <1>7, Together

LEMMA handleKeyExchangeInv ==
  ASSUME IInv, NEW c \in Clients, NEW p \in net, handleKeyExchange(c, p)
  PROVE  IInv' /\ Stable
<1> DEFINE X == Write(c, "KEY", p.src, OwnKey(c))
<1>0. /\ RestOK /\ sig \in [Clients -> Seq(SigMsg)] /\ pc \in [Clients -> PeerConn]
      /\ p \in Packet /\ p.src \in Addr /\ p.key \in Key /\ TypeOK
  BY Parts DEF Packet, IInv
<1>1. PICK k \in Key : k = OwnKey(c) /\ k # 0
  BY OwnKeyType, Bounds DEF Key
<1>2. /\ UNCHANGED <<case, up, drops, news, reset, udp, pub, disc, socks, nat,
                     sig, mid, retry>>
      /\ pc' = DeriveKey(c, p.key) /\ ~Encrypted(c)
      /\ Reply(p, X)
  BY DEF handleKeyExchange, wsVars, sockVars
<1>3. RestOK' /\ sig' \in [Clients -> Seq(SigMsg)]
  BY <1>0, <1>2 DEF RestOK
<1>4. X \subseteq Packet /\ IsFiniteSet(X)
  BY <1>0, <1>1, WriteType
<1> HIDE DEF X
<1>5. net' \subseteq Packet /\ NetBound'
  <2>1. PICK A : A = X
    OBVIOUS
  <2>2. Reply(p, A \cup A) /\ A \subseteq Packet /\ IsFiniteSet(A)
    <3>1. A \cup A = A
      OBVIOUS
    <3>. QED
      BY <1>2, <1>4, <2>1, <3>1
  <2>. QED
    BY <1>2, <2>2, ReplyOK
<1> DEFINE s == [pc[c] EXCEPT !.own = k, !.peer = p.key]
<1>6. s \in PeerConn /\ s.own = k /\ s.peer = p.key /\ s.mode = pc[c].mode
      /\ s.fails = pc[c].fails
  BY <1>0 DEF PeerConn
<1>7. pc' = [pc EXCEPT ![c] = s]
  BY <1>0, <1>1, <1>2 DEF DeriveKey
<1> HIDE DEF s
<1>8. Evolves(pc[c], s)
  BY <1>1, <1>2, <1>6 DEF Evolves, Honest, Paired, Encrypted
<1>. QED
  BY <1>3, <1>5, <1>7, <1>8, Together

LEMMA resetInv ==
  ASSUME IInv, NEW c \in Clients, resetP2PState(c) PROVE IInv' /\ Stable
<1>0. /\ RestOK /\ sig \in [Clients -> Seq(SigMsg)] /\ net \subseteq Packet
      /\ NetBound /\ pc \in [Clients -> PeerConn]
  BY Parts
<1>1. RestOK' /\ sig' \in [Clients -> Seq(SigMsg)] /\ net' \subseteq Packet
      /\ NetBound'
  BY <1>0 DEF resetP2PState, RestOK, NetBound
<1> DEFINE s == [pc[c] EXCEPT !.mode = "connecting", !.addr = NoAddr,
                              !.own = 0, !.peer = 0]
<1>2. s \in PeerConn /\ s.own = 0 /\ s.peer = 0 /\ s.mode = "connecting"
  <2>1. 0 \in Key /\ NoAddr \in Addr /\ pc[c] \in PeerConn
    BY <1>0, Bounds DEF Key, NoAddr, Addr, Sock
  <2>. QED
    BY <2>1 DEF PeerConn
<1>3. UNCHANGED pc \/ pc' = [pc EXCEPT ![c] = s]
  BY <1>0 DEF resetP2PState
<1> HIDE DEF s
<1>4. Evolves(pc[c], s)
  BY <1>2 DEF Evolves, Honest, Paired
<1>. QED
  BY <1>1, <1>3, <1>4, Together

LEMMA QuietInv ==
  ASSUME IInv, NEW c \in Clients,
         \/ reconnect(c) \/ wsDrop(c) \/ detectNATType(c)
         \/ \E p \in net : Lose(p)
  PROVE  IInv' /\ Stable
<1>0. /\ RestOK /\ sig \in [Clients -> Seq(SigMsg)] /\ net \subseteq Packet
      /\ NetBound /\ pc \in [Clients -> PeerConn]
  BY Parts
<1>1. UNCHANGED pc
  BY DEF reconnect, wsDrop, detectNATType, Lose
<1>2. CASE reconnect(c)
  <2>1. 0 \in Sock
    BY Bounds DEF Sock
  <2>2. RestOK'
    BY <1>0, <1>2, <2>1 DEF reconnect, RestOK
  <2>. QED
    BY <1>0, <1>1, <1>2, <2>2, Together DEF reconnect, NetBound
<1>3. CASE wsDrop(c)
  <2>1. RestOK'
    BY <1>0, <1>3 DEF wsDrop, sockVars, RestOK
  <2>2. sig' \in [Clients -> Seq(SigMsg)]
    <3>1. <<>> \in Seq(SigMsg)
      OBVIOUS
    <3>. QED
      BY <1>0, <1>3, <3>1 DEF wsDrop
  <2>. QED
    BY <1>0, <1>1, <1>3, <2>1, <2>2, Together DEF wsDrop, NetBound
<1>4. CASE detectNATType(c)
  <2>1. RestOK'
    BY <1>0, <1>4 DEF detectNATType, wsVars, RestOK, NAT
  <2>. QED
    BY <1>0, <1>1, <1>4, <2>1, Together DEF detectNATType, NetBound
<1>5. ASSUME NEW p \in net, Lose(p) PROVE IInv' /\ Stable
  <2>1. RestOK' /\ sig' \in [Clients -> Seq(SigMsg)]
    BY <1>0, <1>5 DEF Lose, wsVars, sockVars, RestOK
  <2>2. /\ IsFiniteSet(net \ {p}) /\ Cardinality(net \ {p}) <= Cardinality(net)
        /\ Cardinality(net \ {p}) \in Nat /\ Cardinality(net) \in Nat
    BY <1>0, FS_Subset, FS_CardinalityType DEF NetBound
  <2>3. case.net \in Nat
    BY <1>0, Bounds DEF NetBound
  <2>4. net' \subseteq Packet /\ NetBound'
    BY <1>0, <1>5, <2>2, <2>3 DEF Lose, NetBound
  <2>. QED
    BY <1>1, <2>1, <2>4, Together
<1>. QED
  BY <1>2, <1>3, <1>4, <1>5

-----------------------------------------------------------------------------
LEMMA InitInv == Init => IInv
<1> SUFFICES ASSUME Init PROVE IInv
  OBVIOUS
<1>1. \A c \in Clients : First(c) \in Sock
  BY Bounds DEF First, Sock
<1>2. 0 \in Sock /\ 2 \in Sock /\ 0 \in Key /\ 0 \in 0 .. MaxFails
  BY Bounds DEF Sock, Key
<1>3. NoAddr \in Addr /\ case \in Cases /\ case \in Case
  BY <1>2, Bounds DEF NoAddr, Addr, Init
<1>4. RestOK
  <2>1. drops \subseteq Clients
    BY <1>3 DEF Init, Case
  <2>2. udp \in [Clients -> Sock] /\ pub \in [Clients -> Sock]
    BY <1>1 DEF Init
  <2>3. mid \in [Clients -> Addr] /\ retry \in [Clients -> Nat]
    BY <1>3 DEF Init
  <2>4. nat \in [Clients -> NAT]
    BY DEF Init, NAT
  <2>. QED
    BY <1>2, <1>3, <2>1, <2>2, <2>3, <2>4 DEF Init, RestOK
<1>5. sig \in [Clients -> Seq(SigMsg)]
  <2> DEFINE m(c) == [addr |-> [sock |-> First(Other(c)), port |-> "stun"],
                      nat |-> ""]
  <2>1. ASSUME NEW c \in Clients PROVE m(c) \in SigMsg
    BY <1>1, OtherType DEF SigMsg, Addr, NAT
  <2>2. sig = [c \in Clients |-> <<m(c)>>]
    BY DEF Init
  <2> HIDE DEF m
  <2>3. ASSUME NEW c \in Clients PROVE <<m(c)>> \in Seq(SigMsg)
    BY <2>1
  <2>. QED
    BY <2>2, <2>3
<1> DEFINE r == [NoConn EXCEPT !.mode = "connecting"]
<1>6. /\ pc = [c \in Clients |-> r] /\ r \in PeerConn /\ r.mode = "connecting"
      /\ r.peer = 0
  BY <1>2, <1>3 DEF Init, NoConn, PeerConn, NAT
<1> HIDE DEF r
<1>7. pc \in [Clients -> PeerConn] /\ KeyPair /\ FailsAreHonest
  BY <1>6 DEF KeyPair, Encrypted, FailsAreHonest
<1>8. net \subseteq Packet /\ NetBound
  <2>1. case.net \in Nat /\ net = {}
    BY <1>3, Bounds DEF Init
  <2>. QED
    BY <1>3, <2>1, FS_EmptySet DEF NetBound
<1>9. TypeOK
  BY <1>4, <1>5, <1>7, <1>8 DEF TypeOK, RestOK, SigMsg
<1>. QED
  BY <1>7, <1>8, <1>9 DEF IInv

LEMMA NextInv == IInv /\ [Next]_vars => IInv' /\ Stable
<1> SUFFICES ASSUME IInv, [Next]_vars PROVE IInv' /\ Stable
  OBVIOUS
<1>1. CASE UNCHANGED vars
  <2>1. UNCHANGED <<case, up, drops, news, reset, udp, pub, disc, socks, nat,
                    pc, sig, mid, retry, net>>
    BY <1>1 DEF vars, wsVars, sockVars
  <2>. QED
    BY <2>1 DEF IInv, TypeOK, NetBound, KeyPair, Encrypted, FailsAreHonest,
                Stable
<1>2. ASSUME NEW c \in Clients,
             \/ readLoop(c) \/ startRetryLoop(c) \/ udpReadLoop(c)
             \/ DiscoverSTUN(c) \/ detectNATType(c) \/ wsDrop(c) \/ peerLeft(c)
      PROVE  IInv' /\ Stable
  BY <1>2, handlePeerListInv, handleStunInfoInv, handleStunInfoMovedInv,
     resetInv, retryTickInv, retryFailedInv, recvPunchInv,
     handleKeyExchangeInv, DiscoverSTUNInv, peerLeftInv, QuietInv
  DEF readLoop, startRetryLoop, udpReadLoop
<1>3. ASSUME \E p \in net : Lose(p) PROVE IInv' /\ Stable
  <2>1. PICK c : c \in Clients
    BY PunchAssumption, FS_EmptySet
  <2>. QED
    BY <1>3, <2>1, QuietInv
<1>. QED
  BY <1>1, <1>2, <1>3 DEF Next

(* The inductive invariant holds in every reachable state.                 *)
THEOREM Invariance == Spec => []IInv
<1>1. IInv /\ [Next]_vars => IInv'
  BY NextInv
<1>. QED
  BY <1>1, InitInv, PTL DEF Spec

(* Every variable keeps its type, PeerConn included: the keys it holds are *)
(* keys of a pair that NewPeerCrypto (crypto.go:50) made.                  *)
THEOREM TypeCorrect == Spec => []TypeOK
<1>1. IInv => TypeOK
  BY DEF IInv
<1>. QED
  BY <1>1, Invariance, PTL

(* The count of failed punches belongs to the present attempt: zero while  *)
(* direct, and at the limit when a peer is given up to the relay, however  *)
(* the retry goroutines interleave with successes and reconnections        *)
(* (startRetryLoop, stun.go:1369; onHolePunchSuccess, stun.go:835).        *)
THEOREM FailsAreHonestHolds == Spec => []FailsAreHonest
<1>1. IInv => FailsAreHonest
  BY DEF IInv
<1>. QED
  BY <1>1, Invariance, PTL

(* A derived shared key stays what it is until its PeerCrypto is dropped,  *)
(* whatever KEY packets arrive, repeated or late (stun.go:891).            *)
THEOREM KeyStableHolds == Spec => KeyStable
<1>1. IInv /\ [Next]_vars => [\A c \in Clients : Encrypted(c) =>
        \/ pc'[c].own = pc[c].own /\ pc'[c].peer = pc[c].peer
        \/ pc'[c].own = 0]_vars
  BY NextInv DEF Stable
<1>. QED
  BY <1>1, Invariance, PTL DEF Spec, KeyStable
=============================================================================
