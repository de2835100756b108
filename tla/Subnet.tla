------------------------------- MODULE Subnet -------------------------------
(***************************************************************************)
(* The packets of a VPN whose responder routes a subnet: the data path of  *)
(* client/core/tun.go, tun_proxy.go and tun_netstack.go.                   *)
(*                                                                         *)
(* The responder acknowledges a VPN at once and prepares the way into the  *)
(* subnet in a goroutine: the routes, the SNAT address, the ICMP proxy and *)
(* the userspace stack.  A packet takes the best way that is ready when it *)
(* arrives, so a flow can change its way.  A device serves one peer, whose *)
(* packets carry its virtual address.                                      *)
(*                                                                         *)
(* A packet has the fields the code reads or writes.  A word of the        *)
(* checksum has Word values, an address counts as the sum of its words.    *)
(***************************************************************************)
EXTENDS Integers, FiniteSets

CONSTANTS Hosts,      \* machines of the routed subnet
          Me,         \* the responder's own virtual address
          Ports,
          Word,       \* 65536 in the code
          VipSum,     \* words of the peer's virtual address
          SnatSum,    \* words of the SNAT address
          tunMSS,
          Life,       \* minutes a NAT entry lives unused (5 in the code)
          None,
          Cases       \* what happens in a behaviour (see Case)

(* rest: the sum of the words the code leaves alone.  The ports of an echo *)
(* are its ID.                                                             *)
Flow == {f \in [proto : {"tcp", "udp", "icmp"}, dst : Hosts \cup {Me},
                sport : Ports, dport : Ports, rest : 0 .. Word - 1,
                mss : 0 .. Word - 1] : f.proto = "icmp" => f.dport = f.sport}

(* live: hosts that answer; masq: the kernel's NAT works; snat, raw, ns:   *)
(* an address is found, the ICMP socket opens, the stack is created;       *)
(* ticks: minutes pass.                                                    *)
Op   == {<<"lose">>, <<"stop">>} \cup ({"stray"} \X Hosts \X Flow)
Case == [flows : SUBSET Flow, live : SUBSET Hosts, ops : SUBSET Op,
         masq : BOOLEAN, snat : BOOLEAN, raw : BOOLEAN, ns : BOOLEAN,
         ticks : BOOLEAN]

ASSUME SubnetAssumption ==
  /\ Word \in Nat /\ Word > 1 /\ Life \in Nat \ {0}
  /\ VipSum \in 0 .. 2 * (Word - 1) /\ SnatSum \in 0 .. 2 * (Word - 1)
  /\ tunMSS \in 0 .. Word - 1 /\ Me \notin Hosts
  /\ Cases \subseteq Case

Addr   == {"vip", "snat", Me} \cup Hosts
Packet == [proto : {"tcp", "udp", "icmp"}, src : Addr, dst : Addr, sport : Ports,
           dport : Ports, kind : {"syn", "synack", "data", "fin", "rst"},
           mss : 0 .. Word - 1, rest : 0 .. Word - 1, ck : 0 .. Word - 1]

VARIABLES
  case, todo,
  conn,      \* the peer's application: a flow's connection
  asked,     \* flows with a packet sent
  net, back, \* packets to the responder, and to the peer
  open,      \* the device is in c.tunDevices
  setup,     \* the goroutine of handleTunSetup: what it does next
  snatIP,    \* is there one?
  proxy, ns, \* dev.proxy and dev.nsProxy
  nat,       \* natTable: minutes since an entry was used
  storing,   \* the key handleICMP is about to store
  echo,      \* replies on their way to the ICMP socket
  bridge,    \* the stack's end of a flow
  lan,       \* packets on their way to the device
  known,     \* flows and addresses hosts have a connection with
  idle       \* minutes since a flow's packet passed the SNAT

aVars   == <<conn, asked>>
setVars == <<setup, snatIP, proxy, ns>>
nsVars  == <<bridge>>
vars    == <<case, todo, aVars, net, back, open, setVars, nat, storing, echo,
             nsVars, lan, known, idle>>

Init ==
  /\ case \in Cases /\ todo = case.ops
  /\ conn = [f \in case.flows |-> "idle"] /\ asked = {}
  /\ net = {} /\ back = {}
  /\ open = TRUE /\ setup = "routes" /\ snatIP = FALSE
  /\ proxy = "none" /\ ns = "none"
  /\ nat = [k \in {} |-> 0] /\ storing = None /\ echo = {}
  /\ bridge = [f \in case.flows |-> [at |-> "none", want |-> FALSE]]
  /\ lan = {} /\ known = {}
  /\ idle = [f \in case.flows |-> Life + 1]

Does(op) == op \in todo /\ todo' = todo \ {op}

-----------------------------------------------------------------------------
(* Checksums.  Kernels compute them as RFC 1071 says.                      *)

AddrSum(a) == IF a = "vip" THEN VipSum ELSE IF a = "snat" THEN SnatSum ELSE 0
WordSum(p) == AddrSum(p.src) + AddrSum(p.dst) + p.rest + p.mss
Seal(p)    == [p EXCEPT !.ck = (-WordSum(p)) % (Word - 1)]
Valid(p)   == \/ p.proto = "icmp" \/ (p.proto = "udp" /\ p.ck = 0)
              \/ (WordSum(p) + p.ck) % (Word - 1) = 0

(* for sum > 0xffff { ... }: three rounds are enough for a few words.      *)
Fold(s)  == (s \div Word) + (s % Word)
Folded(s) == Fold(Fold(Fold(s)))

tcpChecksumCalc(p) == Word - 1 - Folded(WordSum(p))

(* The words of the old address are subtracted on a uint32, which may wrap *)
(* below zero; folding then counts one too many.                           *)
Adjusted(p, old, new) == (Word - 1 - p.ck) - AddrSum(old) + AddrSum(new)

(* Mutant: the addresses the wrong way round.                              *)
MutFixTransportChecksum(p, old, new) ==
  IF p.proto = "icmp" \/ (p.proto = "udp" /\ p.ck = 0) THEN p
  ELSE [p EXCEPT !.ck = Word - 1 - Folded(Adjusted(p, new, old) % (Word * Word))]

fixTransportChecksum(p, old, new) ==
  IF p.proto = "icmp" \/ (p.proto = "udp" /\ p.ck = 0) THEN p
  ELSE [p EXCEPT !.ck = Word - 1 - Folded(Adjusted(p, old, new) % (Word * Word))]

(* Mutant: only the flags SYN and ACK together.                            *)
MutClampMSS(p) ==
  IF p.kind = "synack" /\ p.mss > tunMSS
  THEN LET q == [p EXCEPT !.mss = tunMSS] IN [q EXCEPT !.ck = tcpChecksumCalc(q)]
  ELSE p

clampMSS(p) ==
  IF p.kind \in {"syn", "synack"} /\ p.mss > tunMSS
  THEN LET q == [p EXCEPT !.mss = tunMSS] IN [q EXCEPT !.ck = tcpChecksumCalc(q)]
  ELSE p

-----------------------------------------------------------------------------
(* Packets and flows.                                                      *)

Ask(f, kind) == [proto |-> f.proto, src |-> "vip", dst |-> f.dst,
                 sport |-> f.sport, dport |-> f.dport, kind |-> kind,
                 mss |-> IF kind = "syn" THEN f.mss ELSE 0,
                 rest |-> f.rest, ck |-> 0]

(* What a host sends to the address it knows the peer by.                  *)
Answer(f, kind, to) == Seal([proto |-> f.proto, src |-> f.dst, dst |-> to,
                             sport |-> f.dport, dport |-> f.sport,
                             kind |-> kind,
                             mss |-> IF kind = "synack" THEN f.mss ELSE 0,
                             rest |-> f.rest, ck |-> 0])

Asks(p, f)    == /\ p.proto = f.proto /\ p.dst = f.dst
                 /\ p.sport = f.sport /\ p.dport = f.dport
Answers(r, f) == /\ r.proto = f.proto /\ r.src = f.dst
                 /\ r.sport = f.dport /\ r.dport = f.sport
FlowOf(p)     == CHOOSE f \in case.flows : Asks(p, f)

InRoute(p) == setup # "routes" /\ p.dst \in Hosts

(* Nothing of the flow is under way: a retry or a minute outlasts it.      *)
Quiet(f) == /\ ~\E p \in net : Asks(p, f)
            /\ ~\E r \in back \cup lan : Answers(r, f)
            /\ <<f.dst, f.sport>> \notin echo /\ storing = None
            /\ bridge[f].at # "dial" /\ ~bridge[f].want

-----------------------------------------------------------------------------
(* The SNAT table.                                                         *)

natKey(p) == IF p.proto = "icmp" THEN <<"icmp", p.dst, p.sport, p.sport>>
             ELSE <<p.proto, p.dst, p.dport, p.sport>>
replyKey(r) == IF r.proto = "icmp" THEN <<"icmp", r.src, r.dport, r.dport>>
               ELSE <<r.proto, r.src, r.sport, r.dport>>

Store(k) == [x \in DOMAIN nat \cup {k} |-> IF x = k THEN 0 ELSE nat[x]]

applySNAT(p) ==
  fixTransportChecksum([p EXCEPT !.src = "snat"], p.src, "snat")

(* Mutants: the entry is looked up by its ports alone, and its age is not  *)
(* renewed by replies.                                                     *)
MutHits(r) == \E k \in DOMAIN nat : [k EXCEPT ![2] = r.src] = replyKey(r)
MutRenew(k) == nat

Hits(r)   == replyKey(r) \in DOMAIN nat
Renew(k)  == Store(k)

applyReverseSNAT(r) ==
  fixTransportChecksum([r EXCEPT !.dst = "vip"], "snat", "vip")

(* A packet is written to the device: the kernel has it, and a host that   *)
(* is reached answers.  hc is what hosts know after that.                  *)
Reached(p) == /\ Valid(p)
              /\ \/ p.dst = Me
                 \/ p.dst \in case.live /\ p.src = "snat"
                 \/ p.dst \in case.live /\ case.masq /\ InRoute(p)

write(p) ==
  LET f == FlowOf(p)
      kind == IF p.kind = "syn" THEN "synack"
              ELSE IF p.proto # "tcp" \/ <<f, p.src>> \in known
              THEN "data" ELSE "rst"
  IN  IF ~Reached(p) THEN UNCHANGED <<lan, known>>
      ELSE /\ lan' = lan \cup {Answer(f, kind, p.src)}
           /\ known' = IF kind = "rst" THEN known ELSE known \cup {<<f, p.src>>}

-----------------------------------------------------------------------------
(* The peer.                                                               *)

(* Its tunReadLoop; the application repeats what is not answered.          *)
send(f) ==
  /\ open /\ conn[f] # "served" /\ Quiet(f)
  /\ net' = net \cup {clampMSS(Seal(Ask(f,
       IF f.proto = "tcp" /\ conn[f] = "idle" THEN "syn" ELSE "data")))}
  /\ asked' = asked \cup {f}
  /\ UNCHANGED <<case, todo, conn, back, open, setVars, nat, storing, echo,
                 nsVars, lan, known, idle>>

(* Its handleTunData; the kernel takes what is for it and intact.          *)
recv ==
  \E r \in back :
    /\ back' = back \ {r}
    /\ conn' = [f \in case.flows |->
         IF r.dst # "vip" \/ ~Valid(clampMSS(r)) \/ ~Answers(r, f) THEN conn[f]
         ELSE CASE r.kind = "synack" /\ conn[f] = "idle" -> "open"
                [] r.kind = "data" -> "served"
                [] r.kind \in {"rst", "fin"} /\ conn[f] = "open" -> "idle"
                [] OTHER -> conn[f]]
    /\ UNCHANGED <<case, todo, asked, net, open, setVars, nat, storing, echo,
                   nsVars, lan, known, idle>>

(* UDP between the clients loses a packet.                                 *)
lose ==
  /\ Does(<<"lose">>)
  /\ \/ (\E p \in net : net' = net \ {p}) /\ UNCHANGED back
     \/ (\E r \in back : back' = back \ {r}) /\ UNCHANGED net
  /\ UNCHANGED <<case, aVars, open, setVars, nat, storing, echo, nsVars, lan,
                 known, idle>>

-----------------------------------------------------------------------------
(* The responder.                                                          *)

bRest == <<case, todo, aVars, open>>

(* Both start goroutines that live until Close.                            *)
newSubnetProxy   == proxy' = "open"
newNetstackProxy == ns' = IF case.ns THEN "open" ELSE "none"

(* The goroutine of handleTunSetup.  It does not look at dev.done.         *)
setUp ==
  /\ \/ /\ setup = "routes" /\ setup' = "snat"
        /\ UNCHANGED <<snatIP, proxy, ns>>
     \/ /\ setup = "snat" /\ setup' = "proxy" /\ snatIP' = case.snat
        /\ UNCHANGED <<proxy, ns>>
     \/ /\ setup = "proxy" /\ setup' = "netstack" /\ newSubnetProxy
        /\ UNCHANGED <<snatIP, ns>>
     \/ /\ setup = "netstack" /\ setup' = "end"
        /\ newNetstackProxy /\ UNCHANGED <<snatIP, proxy>>
  /\ UNCHANGED <<bRest, net, back, nat, storing, echo, nsVars, lan, known, idle>>

(* What the stack sends leaves as a packet of the host's address.          *)
outboundLoop(f, kind) == back \cup {Answer(f, kind, "vip")}

(* netstackProxy.handlePacket: gVisor's handshake comes before the dial of *)
(* handleTCPConn, a UDP flow is dialled at once, and echo requests are     *)
(* answered by the stack itself.                                           *)
InjectInbound(p) ==
  LET f == FlowOf(p)
      b == bridge[f]
  IN  \/ /\ p.kind = "syn" /\ back' = outboundLoop(f, "synack")
         /\ bridge' = [bridge EXCEPT ![f].at = IF @ = "none" THEN "dial" ELSE @]
      \/ /\ p.proto = "tcp" /\ p.kind = "data" /\ b.at = "none"
         /\ back' = outboundLoop(f, "rst") /\ UNCHANGED bridge
      \/ /\ p.kind = "data" /\ (p.proto = "udp" \/ (p.proto = "tcp" /\ b.at # "none"))
         /\ bridge' = [bridge EXCEPT ![f] =
              [at |-> IF @.at = "none" THEN "open" ELSE @.at, want |-> TRUE]]
         /\ UNCHANGED back
      \/ /\ p.proto = "icmp" /\ back' = outboundLoop(f, "data") /\ UNCHANGED bridge

(* subnetProxy.handleICMP: first the echo, then the entry for its reply.   *)
handleICMP(p) ==
  /\ echo' = IF p.dst \in case.live THEN echo \cup {<<p.dst, p.sport>>} ELSE echo
  /\ storing' = natKey(p)

StoreICMP ==
  /\ storing # None
  /\ nat' = Store(storing) /\ storing' = None
  /\ UNCHANGED <<bRest, net, back, setVars, echo, nsVars, lan, known, idle>>

(* handleTunData and handleTunDataDirect: the first way that is ready.     *)
handleTunData ==
  /\ storing = None
  /\ \E q \in net :
       LET p == clampMSS(q)
       IN  /\ net' = net \ {q}
           /\ \/ /\ ~open
                 /\ UNCHANGED <<back, nat, storing, echo, nsVars, lan, known, idle>>
              \/ /\ open /\ ns = "open" /\ InRoute(p)
                 /\ InjectInbound(p)
                 /\ UNCHANGED <<nat, storing, echo, lan, known, idle>>
              \/ /\ open /\ ~(ns = "open" /\ InRoute(p))
                 /\ proxy # "none" /\ case.raw /\ InRoute(p) /\ p.proto = "icmp"
                 /\ handleICMP(p)
                 /\ UNCHANGED <<back, nat, nsVars, lan, known, idle>>
              \/ /\ open /\ ~(ns = "open" /\ InRoute(p))
                 /\ ~(proxy # "none" /\ case.raw /\ InRoute(p) /\ p.proto = "icmp")
                 /\ IF snatIP /\ InRoute(p)
                    THEN /\ nat' = Store(natKey(p)) /\ write(applySNAT(p))
                         /\ idle' = [idle EXCEPT ![FlowOf(p)] = 0]
                    ELSE write(p) /\ UNCHANGED <<nat, idle>>
                 /\ UNCHANGED <<back, storing, echo, nsVars>>
  /\ UNCHANGED <<bRest, setVars>>

(* icmpReadLoop: a reply without an entry is dropped.                      *)
icmpReadLoop ==
  /\ proxy = "open"
  /\ \E x \in echo :
       /\ echo' = echo \ {x}
       /\ LET k == <<"icmp", x[1], x[2], x[2]>>
              f == CHOOSE g \in case.flows : natKey(Ask(g, "data")) = k
          IN  back' = IF k \in DOMAIN nat
                      THEN back \cup {Answer(f, "data", "vip")} ELSE back
  /\ UNCHANGED <<bRest, net, setVars, nat, storing, nsVars, lan, known, idle>>

(* tunReadLoop: a packet for the SNAT address goes back to who asked; one  *)
(* without an entry goes on as it is.                                      *)
tunReadLoop ==
  /\ open
  /\ \E q \in lan :
       LET r    == clampMSS(q)
           mine == snatIP /\ r.dst = "snat" /\ Hits(r)
       IN  /\ lan' = lan \ {q}
           /\ back' = back \cup {IF mine THEN applyReverseSNAT(r) ELSE r}
           /\ nat' = IF mine THEN Renew(replyKey(r)) ELSE nat
           /\ idle' = [f \in case.flows |->
                         IF mine /\ Answers(r, f) THEN 0 ELSE idle[f]]
  /\ UNCHANGED <<bRest, net, setVars, storing, echo, nsVars, known>>

(* bridgeTCP and bridgeUDP: a dead host ends the former.                   *)
bridgeConn(f) ==
  /\ LET b == bridge[f]
     IN  \/ /\ b.at = "dial" /\ f.dst \in case.live
            /\ bridge' = [bridge EXCEPT ![f].at = "open"] /\ UNCHANGED back
         \/ /\ b.at = "dial" /\ f.dst \notin case.live
            /\ bridge' = [bridge EXCEPT ![f] = [at |-> "none", want |-> FALSE]]
            /\ back' = outboundLoop(f, "fin")
         \/ /\ b.at = "open" /\ b.want
            /\ bridge' = [bridge EXCEPT ![f].want = FALSE]
            /\ back' = IF f.dst \in case.live
                       THEN outboundLoop(f, "data") ELSE back
  /\ UNCHANGED <<bRest, net, setVars, nat, storing, echo, lan, known, idle>>

(* A minute passes (applications repeat their questions more often):       *)
(* cleanupNATTable, once the ICMP proxy runs its cleanupLoop, and perhaps  *)
(* the deadlines of bridgeUDP (two minutes in either direction).           *)
cleanupNATTable ==
  /\ case.ticks /\ \A f \in case.flows : Quiet(f)
  /\ \A f \in asked : conn[f] = "served"
  /\ nat' = [k \in {x \in DOMAIN nat : proxy # "open" \/ nat[x] < Life} |->
               IF nat[k] = Life THEN Life ELSE nat[k] + 1]
  /\ idle' = [f \in case.flows |-> IF idle[f] > Life THEN idle[f] ELSE idle[f] + 1]
  /\ \/ UNCHANGED bridge
     \/ bridge' = [f \in case.flows |->
                     IF f.proto = "udp" THEN [bridge[f] EXCEPT !.at = "none"]
                     ELSE bridge[f]]
  /\ UNCHANGED <<bRest, net, back, setVars, storing, echo, lan, known>>

(* The device is closed, and with it what the goroutine has made so far.   *)
stopTunDevice ==
  /\ open /\ Does(<<"stop">>)
  /\ open' = FALSE
  /\ proxy' = IF proxy = "open" THEN "closed" ELSE proxy
  /\ ns' = IF ns = "open" THEN "closed" ELSE ns
  /\ bridge' = [f \in case.flows |-> [at |-> "none", want |-> FALSE]]
  /\ echo' = {} /\ lan' = {}
  /\ UNCHANGED <<case, aVars, net, back, setup, snatIP, nat, storing, known, idle>>

-----------------------------------------------------------------------------
(* Hosts of the subnet send what nobody asked for, or more than one answer.*)

stray ==
  /\ snatIP /\ open
  /\ \E op \in todo :
       /\ op[1] = "stray" /\ Does(op)
       /\ lan' = lan \cup {[Answer(op[3], "data", "snat") EXCEPT !.src = op[2]]}
  /\ UNCHANGED <<case, aVars, net, back, open, setVars, nat, storing, echo,
                 nsVars, known, idle>>

push(f) ==
  /\ open /\ f.proto # "icmp" /\ conn[f] = "served" /\ Quiet(f)
  /\ \E x \in known : x[1] = f /\ lan' = lan \cup {Answer(f, "data", x[2])}
  /\ UNCHANGED <<bRest, net, back, setVars, nat, storing, echo, nsVars, known,
                 idle>>

Next ==
  \/ recv \/ lose \/ setUp \/ StoreICMP \/ handleTunData \/ icmpReadLoop
  \/ tunReadLoop \/ cleanupNATTable \/ stopTunDevice \/ stray
  \/ \E f \in case.flows : send(f) \/ bridgeConn(f) \/ push(f)

Spec == Init /\ [][Next]_vars

(* Goroutines and kernels run, and applications repeat their questions.    *)
(* Queues are first in, first out: no protocol waits for another for ever. *)
Protos == {"tcp", "udp", "icmp"}
Of(pr, Q, rest) == \E p \in Q \ rest : p.proto = pr
FairSpec ==
  /\ Spec /\ WF_vars(setUp) /\ WF_vars(StoreICMP) /\ WF_vars(icmpReadLoop)
  /\ \A pr \in Protos :
       /\ WF_vars(\E f \in case.flows : f.proto = pr /\ send(f))
       /\ WF_vars(\E f \in case.flows : f.proto = pr /\ bridgeConn(f))
       /\ WF_vars(handleTunData /\ Of(pr, net, net'))
       /\ WF_vars(tunReadLoop /\ Of(pr, lan, lan'))
       /\ WF_vars(recv /\ Of(pr, back, back'))

-----------------------------------------------------------------------------
(* Properties.                                                             *)

TypeOK ==
  /\ case \in Case /\ todo \subseteq case.ops
  /\ conn \in [case.flows -> {"idle", "open", "served"}]
  /\ asked \subseteq case.flows
  /\ net \subseteq Packet /\ back \subseteq Packet /\ lan \subseteq Packet
  /\ \A p \in net : p.mss <= tunMSS
  /\ setup \in {"routes", "snat", "proxy", "netstack", "end"}
  /\ {open, snatIP} \subseteq BOOLEAN
  /\ {proxy, ns} \subseteq {"none", "open", "closed"}
  /\ \A k \in DOMAIN nat : nat[k] \in 0 .. Life
  /\ bridge \in [case.flows -> [at : {"none", "dial", "open"}, want : BOOLEAN]]
  /\ idle \in [case.flows -> 0 .. Life + 1]

(* The subnet reaches the peer only in answer: whatever way the flows      *)
(* take, a packet that the responder sends on to the peer's address comes  *)
(* from a host, a port or an echo that the peer has asked.                 *)
Solicited ==
  \A r \in back : r.dst = "vip" => \E f \in asked : Answers(r, f)

(* An exchange that goes on is not cut: a reply is handed on untranslated  *)
(* only if neither side has sent anything for more than Life minutes.      *)
KeptAlive ==
  [][\A r \in back' \ back : \A f \in case.flows :
       (r.dst = "snat" /\ Answers(r, f)) => idle[f] > Life]_vars

(* The checksum of the reply survives its translation: the adjustment does *)
(* not wrap.                                                               *)
Survives(f) ==
  \A kind \in {"syn", "data"} :
    LET p == clampMSS(Seal(Ask(f, kind)))
        r == clampMSS(Answer(f, IF kind = "syn" THEN "synack" ELSE "data", "snat"))
    IN  Adjusted(p, "vip", "snat") >= 0 /\ Adjusted(r, "snat", "vip") >= 0

(* There is a way to the host in the end.                                  *)
Way(f) == \/ f.dst = Me
          \/ /\ f.dst \in case.live
             /\ \/ case.ns \/ (f.proto = "icmp" /\ case.raw)
                \/ (case.snat /\ (f.proto = "icmp" \/ Survives(f)))
                \/ (~case.snat /\ case.masq)

(* Who keeps asking is answered, although the way changes under a running  *)
(* connection (the stack resets what it has not seen begin), packets are   *)
(* lost and the reply to an echo can overtake its entry.                   *)
Answered ==
  \A pr \in Protos :
    LET Asking(f) == f.proto = pr /\ f \in asked /\ Way(f)
    IN  (\E f \in case.flows : Asking(f))
        ~> (~open \/ \A f \in case.flows : Asking(f) => conn[f] = "served")
=============================================================================
