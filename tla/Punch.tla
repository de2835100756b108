------------------------------- MODULE Punch -------------------------------
(***************************************************************************)
(* UDP hole punching and key agreement between two clients                 *)
(* (client/core/stun.go, crypto.go and the reconnection of client.go).     *)
(*                                                                         *)
(* A client finds its public address with STUN and tells its peer through  *)
(* the server (stun_info).  Both then send PUNCH packets; whoever hears    *)
(* one goes to mode "direct", answers, and sends its public key once.  A   *)
(* retry loop punches again every 15 s while the peer is not direct and    *)
(* gives the peer up to the relay after FailLimit failures.  When the      *)
(* websocket breaks, a client reconnects, forgets all P2P state and runs   *)
(* STUN again on a new socket.                                             *)
(*                                                                         *)
(* An address is a socket and the NAT's port for it: "stun", what the STUN *)
(* server saw; "peer", the other port a symmetric NAT uses towards the     *)
(* peer; "extra", the port of a birthday socket, which nobody reads.  UDP  *)
(* packets may be lost, repeated and reordered, but do not outlive the     *)
(* backoff and the STUN query between two sockets of a client.             *)
(***************************************************************************)
EXTENDS Integers, Sequences, FiniteSets

CONSTANTS Clients,      \* the two clients
          Cases,        \* environments (see Case)
          MaxKey,       \* bound: key pairs of a client in use at a time
          FailLimit,    \* 5 failed punches
          MaxFails,     \* bound: where PunchFails stops counting
          MaxSock       \* bound: sockets of all clients together

(* Who is behind a symmetric NAT, who may lose the websocket, and bounds   *)
(* on the UDP packets in flight (0: UDP is blocked) and on a client's      *)
(* retry goroutines.                                                       *)
Case == [sym : SUBSET Clients, drops : SUBSET Clients, net : Nat,
         retries : Nat]

ASSUME PunchAssumption ==
  /\ IsFiniteSet(Clients) /\ Cardinality(Clients) = 2
  /\ Cases \subseteq Case
  /\ {MaxKey, FailLimit, MaxFails, MaxSock} \subseteq Nat
  /\ 0 < FailLimit /\ FailLimit <= MaxFails /\ 2 <= MaxSock
  /\ \A e \in Cases : e.net + 2 <= MaxKey  \* a new key is always to be had

Sock  == 0 .. MaxSock            \* 0: no socket
Key   == 0 .. MaxKey             \* 0: no key
Addr  == [sock : Sock, port : {"stun", "peer", "extra"}]
NoAddr == [sock |-> 0, port |-> "stun"]
NAT   == {"", "NAT4"}          \* "": unknown, or a cone NAT

(* KEY and KEY_ACK are handled alike.                                      *)
Packet == [kind : {"PUNCH", "PUNCH_ACK", "KEY"}, to : Clients,
           src : Addr, dst : Addr, key : Key]

(* PeerConn; mode "none": there is no entry for the peer.  A PeerCrypto is *)
(* its own public key and the one it derived the shared key from.          *)
PeerConn == [mode : {"none", "connecting", "direct", "relay"}, addr : Addr,
             fails : 0 .. MaxFails, nat : NAT, own : Key, peer : Key]

NoConn == [mode |-> "none", addr |-> NoAddr, fails |-> 0, nat |-> "",
           own |-> 0, peer |-> 0]

VARIABLES
  case,      \* the case of this behaviour
  up,        \* the websocket is connected and the client is in the room
  drops,     \* clients that may still lose the websocket
  udp,       \* c.udpConn
  pub,       \* c.publicAddr
  disc,      \* DiscoverSTUN is running
  socks,     \* sockets opened so far
  nat,       \* c.natType
  pc,        \* c.peerConns[peer]
  sig,       \* stun_info messages on their way to the client
  news,      \* a peer_list that shows the peer as new is on its way
  mid,       \* handleStunInfo between its two critical sections
  reset,     \* resetP2PState between its two critical sections
  retry,     \* retry goroutines that wait for their punch to fail
  net        \* UDP packets

wsVars   == <<up, drops, news, reset>>
sockVars == <<udp, pub, disc, socks, nat>>
vars     == <<case, wsVars, sockVars, pc, sig, mid, retry, net>>

Other(c) == CHOOSE d \in Clients : d # c

(* The socket of a client that has just started.                           *)
First(c) == IF c = CHOOSE d \in Clients : TRUE THEN 1 ELSE 2

(* Both clients have run DiscoverSTUN and seen each other in the list, and *)
(* their first stun_info is on its way.                                    *)
Init ==
  /\ case \in Cases
  /\ up = [c \in Clients |-> TRUE]
  /\ drops = case.drops
  /\ udp = [c \in Clients |-> First(c)]
  /\ pub = udp
  /\ disc = [c \in Clients |-> FALSE]
  /\ socks = 2
  /\ nat = [c \in Clients |-> ""]
  /\ pc = [c \in Clients |-> [NoConn EXCEPT !.mode = "connecting"]]
  /\ sig = [c \in Clients |->
              <<[addr |-> [sock |-> First(Other(c)), port |-> "stun"],
                 nat |-> ""]>>]
  /\ news = [c \in Clients |-> FALSE]
  /\ mid = [c \in Clients |-> NoAddr]
  /\ reset = [c \in Clients |-> FALSE]
  /\ retry = [c \in Clients |-> 0]
  /\ net = {}

-----------------------------------------------------------------------------
(* The network.                                                            *)

(* Where packets from c's socket come from, and where c can be reached.    *)
Live(c) == [sock |-> udp[c],
            port |-> IF c \in case.sym THEN "peer" ELSE "stun"]

Pkt(c, kind, src, dst, key) ==
  [kind |-> kind, to |-> Other(c), src |-> src, dst |-> dst, key |-> key]

(* WriteToUDP from the main socket, when there is one.                     *)
Write(c, kind, dst, key) ==
  IF udp[c] = 0 \/ dst.sock = 0 THEN {}
  ELSE {Pkt(c, kind, Live(c), dst, key)}

(* The network, old packets and new, holds no more than case.net.          *)
Send(old, new) ==
  \E some \in SUBSET new :
    /\ \/ some = new
       \/ Cardinality(old \cup some) = case.net
    /\ Cardinality(old \cup some) <= case.net
    /\ net' = old \cup some

Reply(p, new) == Send(net \ {p}, new)

Lose(p) ==
  /\ net' = net \ {p}
  /\ UNCHANGED <<case, wsVars, sockVars, pc, sig, mid, retry>>

-----------------------------------------------------------------------------
(* Keys.                                                                   *)

Encrypted(c) == pc[c].peer # 0

(* Public keys of c that somebody still holds: a new one differs.          *)
KeysOut(c) == {pc[c].own, pc[Other(c)].peer}
              \cup {p.key : p \in {q \in net : q.to = Other(c)}}

NewPeerCrypto(c) == CHOOSE k \in 1 .. MaxKey : k \notin KeysOut(c)

OwnKey(c) == IF pc[c].own = 0 THEN NewPeerCrypto(c) ELSE pc[c].own

-----------------------------------------------------------------------------
(* One punch.                                                              *)

(* The PUNCH packets of an attempt on the peer r: from the main socket to  *)
(* the known address; with a symmetric NAT on either side also from the    *)
(* birthday sockets, and to guessed ports, one of which may be right.      *)
Burst(c, r) ==
  LET hard  == "NAT4" \in {nat[c], r.nat}
      cone  == nat[c] # "NAT4" /\ r.nat = "NAT4"
      guess == [r.addr EXCEPT !.port = "peer"]
      extra == [sock |-> udp[c], port |-> "extra"]
      Fire(s, d) == {Pkt(c, "PUNCH", s, d, 0)}
  IN  Fire(Live(c), r.addr)
      \cup (IF hard THEN Fire(extra, r.addr) \cup Fire(Live(c), guess) ELSE {})
      \cup (IF cone THEN Fire(extra, guess) ELSE {})

(* attemptHolePunch starts at once; its packets travel as long as they do. *)
attemptHolePunch(c, r) ==
  IF r.addr.sock = 0 \/ udp[c] = 0
  THEN pc' = [pc EXCEPT ![c] = r] /\ UNCHANGED net
  ELSE pc' = [pc EXCEPT ![c] = [r EXCEPT !.own = IF @ = 0 THEN NewPeerCrypto(c)
                                                 ELSE @]]
       /\ Send(net, Burst(c, r))

-----------------------------------------------------------------------------
(* Signalling.                                                             *)

(* The server queues for a client in the room.  Two equal messages in a    *)
(* row are one: the second would only be answered once more.               *)
Enqueue(c, m) == IF ~up[c] \/ (sig[c] # <<>> /\ sig[c][Len(sig[c])] = m)
                 THEN sig[c] ELSE Append(sig[c], m)

sendStunInfo(c) ==
  IF pub[c] = 0 \/ ~up[c] THEN sig[Other(c)]
  ELSE Enqueue(Other(c), [addr |-> [sock |-> pub[c], port |-> "stun"],
                          nat |-> nat[c]])

(* The read loop handles one message at a time.                            *)
Reading(c) == up[c] /\ ~reset[c] /\ mid[c].sock = 0

(* The peer is new in the list.                                            *)
handlePeerList(c) ==
  /\ Reading(c) /\ news[c]
  /\ news' = [news EXCEPT ![c] = FALSE]
  /\ pc' = IF pc[c].mode # "none" THEN pc
           ELSE [pc EXCEPT ![c].mode = "connecting"]
  /\ sig' = [sig EXCEPT ![Other(c)] = sendStunInfo(c)]
  /\ UNCHANGED <<case, up, drops, reset, sockVars, mid, retry, net>>

(* The peer has been away for 5 s: handlePeerList's timer forgets it.      *)
peerLeft(c) ==
  /\ ~up[Other(c)] /\ pc[c].mode # "none"
  /\ pc' = [pc EXCEPT ![c] = NoConn]
  /\ UNCHANGED <<case, wsVars, sockVars, sig, mid, retry, net>>

(* Mutant: a stun_info while connecting starts the count of failures anew. *)
MutAnswer(c, r, addr) ==
  /\ IF r.mode = "direct"
     THEN pc' = [pc EXCEPT ![c] = [r EXCEPT !.addr = addr]] /\ UNCHANGED net
     ELSE attemptHolePunch(c, [r EXCEPT !.addr = addr,
                                        !.fails = IF r.mode = "relay" THEN @
                                                  ELSE 0])
  /\ sig' = [sig EXCEPT ![c] = IF mid[c].sock = 0 THEN Tail(@) ELSE @,
                        ![Other(c)] = sendStunInfo(c)]
  /\ UNCHANGED <<case, wsVars, sockVars, retry>>

(* The end of handleStunInfo: store the address, answer.            *)
Answer(c, r, addr) ==
  /\ IF r.mode = "direct"
     THEN pc' = [pc EXCEPT ![c] = [r EXCEPT !.addr = addr]] /\ UNCHANGED net
     ELSE attemptHolePunch(c, [r EXCEPT !.addr = addr])
  /\ sig' = [sig EXCEPT ![c] = IF mid[c].sock = 0 THEN Tail(@) ELSE @,
                        ![Other(c)] = sendStunInfo(c)]
  /\ UNCHANGED <<case, wsVars, sockVars, retry>>

handleStunInfo(c) ==
  /\ Reading(c) /\ sig[c] # <<>>
  /\ LET m == Head(sig[c])
         r == [pc[c] EXCEPT !.mode = IF @ = "none" THEN "connecting" ELSE @,
                            !.nat  = IF m.nat # "" THEN m.nat ELSE @]
     IN  \/ /\ r.mode # "direct"
            /\ Answer(c, r, m.addr)
            /\ UNCHANGED mid
         \/ /\ r.mode = "direct"
            /\ sig' = [sig EXCEPT ![c] = Tail(@)]
            /\ \/ /\ r.addr = m.addr
                  /\ pc' = [pc EXCEPT ![c] = r]
                  /\ UNCHANGED mid
               \/ /\ r.addr # m.addr
                  /\ pc' = [pc EXCEPT ![c] =
                              [r EXCEPT !.mode = "connecting", !.own = 0,
                                        !.peer = 0]]
                  /\ mid' = [mid EXCEPT ![c] = m.addr]
            /\ UNCHANGED <<case, wsVars, sockVars, retry, net>>

(* ... after a peer in mode "direct" was found to have moved.              *)
handleStunInfoMoved(c) ==
  /\ mid[c].sock # 0
  /\ Answer(c, pc[c], mid[c])
  /\ mid' = [mid EXCEPT ![c] = NoAddr]

(* DiscoverSTUN when a server answers.                                     *)
DiscoverSTUN(c) ==
  /\ disc[c] /\ socks < MaxSock
  /\ socks' = socks + 1
  /\ udp' = [udp EXCEPT ![c] = socks + 1]
  /\ pub' = [pub EXCEPT ![c] = socks + 1]
  /\ disc' = [disc EXCEPT ![c] = FALSE]
  /\ sig' = IF ~up[c] THEN sig
            ELSE [sig EXCEPT ![Other(c)] =
                    Enqueue(Other(c),
                            [addr |-> [sock |-> socks + 1, port |-> "stun"],
                             nat |-> nat[c]])]
  /\ net' = {}
  /\ UNCHANGED <<case, wsVars, nat, pc, mid, retry>>

(* Two servers that see different ports reveal a symmetric NAT; with fewer *)
(* than two answers the client takes itself for a cone NAT.  The answer of *)
(* the first discovery is kept for the later ones.                         *)
detectNATType(c) ==
  /\ udp[c] # 0 /\ c \in case.sym /\ nat[c] = ""
  /\ nat' = [nat EXCEPT ![c] = "NAT4"]
  /\ UNCHANGED <<case, wsVars, udp, pub, disc, socks, pc, sig, mid,
                 retry, net>>

-----------------------------------------------------------------------------
(* Punching.                                                               *)

(* Mutant: peers on the relay are not tried again.                         *)
MutRetryTick(c) ==
  /\ retry[c] < case.retries
  /\ pc[c].mode = "connecting" /\ pc[c].addr.sock # 0
  /\ LET giveUp == pc[c].fails >= FailLimit
     IN  attemptHolePunch(c, [pc[c] EXCEPT !.mode = IF giveUp THEN "relay"
                                                    ELSE @])
  /\ retry' = [retry EXCEPT ![c] = @ + 1]
  /\ UNCHANGED <<case, wsVars, sockVars, sig, mid>>

(* A tick of startRetryLoop, which every DiscoverSTUN starts.              *)
retryTick(c) ==
  /\ retry[c] < case.retries
  /\ pc[c].mode \in {"connecting", "relay"} /\ pc[c].addr.sock # 0
  /\ LET giveUp == pc[c].mode = "connecting" /\ pc[c].fails >= FailLimit
     IN  attemptHolePunch(c, [pc[c] EXCEPT !.mode = IF giveUp THEN "relay"
                                                    ELSE @])
  /\ retry' = [retry EXCEPT ![c] = @ + 1]
  /\ UNCHANGED <<case, wsVars, sockVars, sig, mid>>

(* Mutant: the mode is not looked at again after the burst.                *)
MutRetryFailed(c) ==
  /\ retry[c] > 0
  /\ retry' = [retry EXCEPT ![c] = @ - 1]
  /\ pc' = IF pc[c].mode = "none" \/ pc[c].fails = MaxFails
           THEN pc ELSE [pc EXCEPT ![c].fails = @ + 1]
  /\ UNCHANGED <<case, wsVars, sockVars, sig, mid, net>>

(* Mutant: a failure is counted down.                                      *)
MutRetryDown(c) ==
  /\ retry[c] > 0
  /\ retry' = [retry EXCEPT ![c] = @ - 1]
  /\ pc' = IF pc[c].mode \in {"none", "direct"}
           THEN pc ELSE [pc EXCEPT ![c].fails = @ - 1]
  /\ UNCHANGED <<case, wsVars, sockVars, sig, mid, net>>

(* The goroutine of a tick when its burst is over.                         *)
retryFailed(c) ==
  /\ retry[c] > 0
  /\ retry' = [retry EXCEPT ![c] = @ - 1]
  /\ pc' = IF pc[c].mode \in {"none", "direct"} \/ pc[c].fails = MaxFails
           THEN pc ELSE [pc EXCEPT ![c].fails = @ + 1]
  /\ UNCHANGED <<case, wsVars, sockVars, sig, mid, net>>

-----------------------------------------------------------------------------
(* The UDP read loop.                                                      *)

Arrives(c, p, kinds) ==
  /\ udp[c] # 0
  /\ p \in net /\ p.to = c /\ p.dst = Live(c) /\ p.kind \in kinds

(* onHolePunchSuccess; its key goes out before the PUNCH_ACK.              *)
Succeeded(c, addr) ==
  IF pc[c].mode = "direct" THEN pc[c]
  ELSE [pc[c] EXCEPT !.mode = "direct", !.addr = addr, !.fails = 0,
                     !.own = OwnKey(c)]

sendKeyExchange(c, addr) ==
  IF pc[c].mode = "direct" THEN {} ELSE Write(c, "KEY", addr, OwnKey(c))

recvPunch(c, p) ==
  /\ Arrives(c, p, {"PUNCH", "PUNCH_ACK"})
  /\ pc' = [pc EXCEPT ![c] = Succeeded(c, p.src)]
  /\ Reply(p, sendKeyExchange(c, p.src)
              \cup (IF p.kind = "PUNCH" THEN Write(c, "PUNCH_ACK", p.src, 0) ELSE {}))
  /\ UNCHANGED <<case, wsVars, sockVars, sig, mid, retry>>

(* The shared key is named by the two public keys it comes from.           *)
DeriveKey(c, k) == [pc EXCEPT ![c].own = OwnKey(c), ![c].peer = k]

(* Mutant: a key is derived although one is established.                   *)
MutHandleKeyExchange(c, p) ==
  /\ Arrives(c, p, {"KEY"})
  /\ pc[c].mode # "none"
  /\ pc' = DeriveKey(c, p.key)
  /\ Reply(p, Write(c, "KEY", p.src, OwnKey(c)))
  /\ UNCHANGED <<case, wsVars, sockVars, sig, mid, retry>>

(* handleKeyExchange, for KEY and KEY_ACK.                                 *)
handleKeyExchange(c, p) ==
  /\ Arrives(c, p, {"KEY"})
  /\ pc[c].mode # "none" /\ ~Encrypted(c)
  /\ pc' = DeriveKey(c, p.key)
  /\ Reply(p, Write(c, "KEY", p.src, OwnKey(c)))
  /\ UNCHANGED <<case, wsVars, sockVars, sig, mid, retry>>

-----------------------------------------------------------------------------
(* Reconnection.                                                           *)

wsDrop(c) ==
  /\ up[c] /\ c \in drops /\ ~reset[c] /\ mid[c].sock = 0 /\ ~disc[c]
  /\ up' = [up EXCEPT ![c] = FALSE]
  /\ drops' = drops \ {c}
  /\ sig' = [sig EXCEPT ![c] = <<>>]
  /\ UNCHANGED <<case, news, reset, sockVars, pc, mid, retry, net>>

(* reconnect: dial, join, and the first half of resetP2PState.  The peer   *)
(* takes the client for new when it had forgotten it; after a shorter      *)
(* absence it would only send one stun_info more.                          *)
reconnect(c) ==
  /\ ~up[c]
  /\ up' = [up EXCEPT ![c] = TRUE]
  /\ news' = [news EXCEPT ![Other(c)] = @ \/ pc[Other(c)].mode = "none"]
  /\ udp' = [udp EXCEPT ![c] = 0]
  /\ pub' = [pub EXCEPT ![c] = 0]
  /\ reset' = [reset EXCEPT ![c] = TRUE]
  /\ UNCHANGED <<case, drops, disc, socks, nat, pc, sig, mid, retry, net>>

(* The second half, and a new STUN discovery.                              *)
resetP2PState(c) ==
  /\ reset[c]
  /\ reset' = [reset EXCEPT ![c] = FALSE]
  /\ pc' = IF pc[c].mode = "none" THEN pc
           ELSE [pc EXCEPT ![c].mode = "connecting", ![c].addr = NoAddr,
                           ![c].own = 0, ![c].peer = 0]
  /\ disc' = [disc EXCEPT ![c] = TRUE]
  /\ UNCHANGED <<case, up, drops, news, udp, pub, socks, nat, sig, mid,
                 retry, net>>

(* The goroutines of a client: the websocket's read loop, the retry loop   *)
(* with its punches, and those they start.                                 *)
readLoop(c) ==
  \/ handlePeerList(c) \/ handleStunInfo(c) \/ handleStunInfoMoved(c)
  \/ reconnect(c) \/ resetP2PState(c)

startRetryLoop(c) == retryTick(c) \/ retryFailed(c)

udpReadLoop(c) == \E p \in net : recvPunch(c, p) \/ handleKeyExchange(c, p)

Next ==
  \/ \E c \in Clients : \/ readLoop(c) \/ startRetryLoop(c) \/ udpReadLoop(c)
                        \/ DiscoverSTUN(c) \/ detectNATType(c)
                        \/ wsDrop(c) \/ peerLeft(c)
  \/ \E p \in net : Lose(p)

Spec == Init /\ [][Next]_vars

(* Goroutines run, the websocket comes back, packets leave the network,    *)
(* and a PUNCH that is sent over and over gets through; a key, sent once,  *)
(* need not.                                                               *)
Run(c) == /\ WF_vars(readLoop(c)) /\ WF_vars(startRetryLoop(c))
          /\ WF_vars(DiscoverSTUN(c))
          /\ SF_vars(\E p \in net : recvPunch(c, p))

FairSpec == /\ Spec
            /\ WF_vars(\E p \in net : Lose(p))
            /\ \A c \in Clients : Run(c)

-----------------------------------------------------------------------------
(* Properties.                                                             *)

TypeOK ==
  /\ case \in Case /\ drops \subseteq Clients
  /\ up \in [Clients -> BOOLEAN] /\ news \in [Clients -> BOOLEAN]
  /\ reset \in [Clients -> BOOLEAN]
  /\ disc \in [Clients -> BOOLEAN]
  /\ udp \in [Clients -> Sock] /\ pub \in [Clients -> Sock] /\ socks \in Sock
  /\ nat \in [Clients -> NAT]
  /\ pc \in [Clients -> PeerConn]
  /\ sig \in [Clients -> Seq([addr : Addr, nat : NAT])]
  /\ mid \in [Clients -> Addr]
  /\ retry \in [Clients -> Nat]
  /\ net \subseteq Packet

(* PunchFails counts failures of the present attempt: a retry goroutine    *)
(* that ends after the punch has succeeded adds nothing, and a peer is     *)
(* given up to the relay only with FailLimit failures on record.           *)
FailsAreHonest ==
  \A c \in Clients : /\ pc[c].mode = "direct" => pc[c].fails = 0
                     /\ pc[c].mode = "relay" => pc[c].fails >= FailLimit

(* The shared key of a PeerCrypto never changes once it is derived, however *)
(* often KEY and KEY_ACK packets arrive: data sealed with it can be opened  *)
(* for as long as the object lives.                                         *)
KeyStable ==
  [][\A c \in Clients : Encrypted(c) =>
        \/ pc'[c].own = pc[c].own /\ pc'[c].peer = pc[c].peer
        \/ pc'[c].own = 0]_vars

(* A peer whose address is known does not stay "connecting": the punch     *)
(* succeeds or the retry loop falls back to the relay.                     *)
FallsBack ==
  \A c \in Clients :
    (pc[c].mode = "connecting" /\ pc[c].addr.sock # 0 /\ case.retries > 0)
      ~> (pc[c].mode # "connecting" \/ pc[c].addr.sock = 0)

(* Without symmetric NATs, and when PUNCH packets get through at times,    *)
(* both clients end in mode "direct", each at the address the other reads, *)
(* from the relay as well and after reconnections.                         *)
UpgradesToP2P ==
  (case.sym = {} /\ case.net > 0) =>
    <>[](\A c \in Clients : pc[c].mode = "direct"
                            /\ pc[c].addr = Live(Other(c)))
=============================================================================
