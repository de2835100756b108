---------------------------- MODULE SubnetProofs ----------------------------
(***************************************************************************)
(* Proofs that the responder's data path of Subnet lets the subnet reach   *)
(* the peer only in answer, and translates the replies of an exchange that *)
(* goes on, for any flows, hosts and ports, whatever word size the         *)
(* checksums have.                                                         *)
(***************************************************************************)
EXTENDS Subnet, TLAPS

-----------------------------------------------------------------------------
(* Checksums are words.                                                    *)

LEMMA DivType ==
  ASSUME NEW s \in Nat, NEW w \in Nat, w > 0
  PROVE  s \div w \in Int /\ s \div w >= 0
<1>1. s \div w \in Int
  OBVIOUS
<1>2. s \div w >= 0
  OBVIOUS
<1>. QED
  BY <1>1, <1>2

LEMMA DivLess ==
  ASSUME NEW s \in Nat, NEW w \in Nat, w > 0, s < w * w
  PROVE  s \div w < w
  OBVIOUS

LEMMA Mod ==
  ASSUME NEW s \in Int, NEW w \in Nat, w > 0
  PROVE  s % w \in 0 .. w - 1
  OBVIOUS

(* Folding keeps a number that is a word already ...                       *)
LEMMA FoldWord ==
  ASSUME NEW s \in 0 .. Word - 1
  PROVE  Fold(s) = s
<1>1. Word \in Nat /\ Word > 1
  BY SubnetAssumption
<1>2. s \div Word = 0 /\ s % Word = s
  BY <1>1
<1>. QED
  BY <1>2 DEF Fold

(* ... and makes one of what exceeds it by less than a word ...            *)
LEMMA FoldOnce ==
  ASSUME NEW s \in 0 .. 2 * Word - 2
  PROVE  Fold(s) \in 0 .. Word - 1
<1>1. Word \in Nat /\ Word > 1
  BY SubnetAssumption
<1>2. CASE s < Word
  BY <1>1, <1>2, FoldWord
<1>3. CASE s >= Word
  <2>1. s \div Word = 1 /\ s % Word = s - Word
    BY <1>1, <1>3
  <2>. QED
    BY <1>1, <1>3, <2>1 DEF Fold
<1>. QED
  BY <1>1, <1>2, <1>3

LEMMA FoldedTwoWords ==
  ASSUME NEW s \in 0 .. Word * Word - 1
  PROVE  Folded(s) \in 0 .. Word - 1
<1>1. Word \in Nat /\ Word > 0 /\ Word * Word \in Nat
  BY SubnetAssumption
<1>2. s \in Nat /\ s < Word * Word
  BY <1>1
<1>3. /\ s \div Word \in Int /\ s \div Word >= 0 /\ s \div Word < Word
      /\ s % Word \in 0 .. Word - 1
  BY <1>1, <1>2, DivType, DivLess, Mod
<1>4. Fold(s) \in 0 .. 2 * Word - 2
  BY <1>1, <1>3 DEF Fold
<1>5. Fold(Fold(s)) \in 0 .. Word - 1
  BY <1>4, FoldOnce
<1>. QED
  BY <1>5, FoldWord DEF Folded

(* A sum of six words, in the three rounds of tcpChecksumCalc.             *)
LEMMA FoldedSixWords ==
  ASSUME NEW s \in 0 .. 6 * (Word - 1)
  PROVE  Folded(s) \in 0 .. Word - 1
<1>1. Word \in Nat /\ Word > 1
  BY SubnetAssumption
<1>2. CASE Word >= 5
  <2>1. 6 * (Word - 1) <= Word * Word - 1 /\ Word * Word \in Nat
    BY <1>1, <1>2
  <2>2. s \in 0 .. Word * Word - 1
    BY <1>1, <2>1
  <2>. QED
    BY <2>2, FoldedTwoWords
<1>3. CASE Word = 2
  <2>1. s \in 0 .. 6
    BY <1>3
  <2>. QED
    BY <1>3, <2>1 DEF Folded, Fold
<1>4. CASE Word = 3
  <2>1. s \in 0 .. 12
    BY <1>4
  <2>. QED
    BY <1>4, <2>1 DEF Folded, Fold
<1>5. CASE Word = 4
  <2>1. s \in 0 .. 18
    BY <1>5
  <2>. QED
    BY <1>5, <2>1 DEF Folded, Fold
<1>. QED
  BY <1>1, <1>2, <1>3, <1>4, <1>5

LEMMA Sums ==
  /\ Word \in Nat /\ Word > 1
  /\ \A a : AddrSum(a) \in 0 .. 2 * (Word - 1)
  /\ \A p \in Packet : WordSum(p) \in 0 .. 6 * (Word - 1)
<1>1. Word \in Nat /\ Word > 1
  BY SubnetAssumption
<1>2. ASSUME NEW a PROVE AddrSum(a) \in 0 .. 2 * (Word - 1)
  BY SubnetAssumption DEF AddrSum
<1>3. ASSUME NEW p \in Packet PROVE WordSum(p) \in 0 .. 6 * (Word - 1)
  <2>1. p.rest \in 0 .. Word - 1 /\ p.mss \in 0 .. Word - 1
    BY DEF Packet
  <2>2. /\ AddrSum(p.src) \in 0 .. 2 * (Word - 1)
        /\ AddrSum(p.dst) \in 0 .. 2 * (Word - 1)
    BY <1>2
  <2>. QED
    BY <1>1, <2>1, <2>2 DEF WordSum
<1>. QED
  BY <1>1, <1>2, <1>3

-----------------------------------------------------------------------------
(* Packets: what each translation leaves as it is.                         *)

SameEnds(p, q) == /\ p.proto = q.proto /\ p.dst = q.dst
                  /\ p.sport = q.sport /\ p.dport = q.dport

LEMMA PacketFields ==
  ASSUME NEW p \in Packet
  PROVE  /\ p.proto \in {"tcp", "udp", "icmp"} /\ p.src \in Addr /\ p.dst \in Addr
         /\ p.sport \in Ports /\ p.dport \in Ports
         /\ p.kind \in {"syn", "synack", "data", "fin", "rst"}
         /\ p.mss \in 0 .. Word - 1 /\ p.rest \in 0 .. Word - 1
         /\ p.ck \in 0 .. Word - 1
  BY DEF Packet

(* Only the checksum changes.                                              *)
LEMMA SetCk ==
  ASSUME NEW p \in Packet, NEW n \in 0 .. Word - 1
  PROVE  LET q == [p EXCEPT !.ck = n]
         IN  /\ q \in Packet /\ q.proto = p.proto /\ q.src = p.src
             /\ q.dst = p.dst /\ q.sport = p.sport /\ q.dport = p.dport
             /\ q.kind = p.kind /\ q.mss = p.mss
  BY DEF Packet

LEMMA SealType ==
  ASSUME NEW p \in Packet
  PROVE  /\ Seal(p) \in Packet /\ SameEnds(Seal(p), p)
         /\ Seal(p).src = p.src /\ Seal(p).kind = p.kind /\ Seal(p).mss = p.mss
<1>1. PICK n : n = (-WordSum(p)) % (Word - 1)
  OBVIOUS
<1>2. n \in 0 .. Word - 1
  <2>1. PICK w \in Int : w = -WordSum(p)
    BY Sums
  <2>2. PICK m \in Nat : m = Word - 1 /\ m > 0
    BY Sums
  <2>3. w % m \in 0 .. m - 1
    BY <2>2, Mod
  <2>. QED
    BY <1>1, <2>1, <2>2, <2>3, Sums
<1>3. Seal(p) = [p EXCEPT !.ck = n]
  BY <1>1 DEF Seal
<1>. QED
  BY <1>2, <1>3, SetCk DEF SameEnds

LEMMA ClampType ==
  ASSUME NEW p \in Packet
  PROVE  /\ clampMSS(p) \in Packet /\ SameEnds(clampMSS(p), p)
         /\ clampMSS(p).src = p.src /\ clampMSS(p).kind = p.kind
         /\ (p.kind = "syn" \/ p.mss = 0) => clampMSS(p).mss <= tunMSS
<1>0. tunMSS \in 0 .. Word - 1 /\ Word \in Nat /\ p.mss \in 0 .. Word - 1
  BY SubnetAssumption, PacketFields
<1>1. CASE p.kind \in {"syn", "synack"} /\ p.mss > tunMSS
  <2>1. PICK q : q = [p EXCEPT !.mss = tunMSS]
    OBVIOUS
  <2>2. /\ q \in Packet /\ q.proto = p.proto /\ q.src = p.src
        /\ q.dst = p.dst /\ q.sport = p.sport /\ q.dport = p.dport
        /\ q.kind = p.kind /\ q.mss = tunMSS
    BY <1>0, <2>1 DEF Packet
  <2>3. PICK n : n = tcpChecksumCalc(q)
    OBVIOUS
  <2>4. n \in 0 .. Word - 1
    <3>1. Folded(WordSum(q)) \in 0 .. Word - 1
      BY <2>2, Sums, FoldedSixWords
    <3>. QED
      BY <1>0, <2>3, <3>1 DEF tcpChecksumCalc
  <2>5. clampMSS(p) = [q EXCEPT !.ck = n]
    BY <1>1, <2>1, <2>3 DEF clampMSS
  <2>6. /\ clampMSS(p) \in Packet /\ clampMSS(p).proto = q.proto
        /\ clampMSS(p).src = q.src /\ clampMSS(p).dst = q.dst
        /\ clampMSS(p).sport = q.sport /\ clampMSS(p).dport = q.dport
        /\ clampMSS(p).kind = q.kind /\ clampMSS(p).mss = q.mss
    BY <2>2, <2>4, <2>5, SetCk
  <2>. QED
    BY <1>0, <2>2, <2>6 DEF SameEnds
<1>2. CASE ~(p.kind \in {"syn", "synack"} /\ p.mss > tunMSS)
  <2>1. clampMSS(p) = p
    BY <1>2 DEF clampMSS
  <2>. QED
    BY <1>0, <1>2, <2>1 DEF SameEnds
<1>. QED
  BY <1>1, <1>2

LEMMA FixType ==
  ASSUME NEW p \in Packet, NEW old, NEW new
  PROVE  LET q == fixTransportChecksum(p, old, new)
         IN  q \in Packet /\ SameEnds(q, p) /\ q.src = p.src /\ q.kind = p.kind
<1>1. CASE p.proto = "icmp" \/ (p.proto = "udp" /\ p.ck = 0)
  BY <1>1 DEF fixTransportChecksum, SameEnds
<1>2. CASE ~(p.proto = "icmp" \/ (p.proto = "udp" /\ p.ck = 0))
  <2>1. PICK s : s = Adjusted(p, old, new)
    OBVIOUS
  <2>2. s \in Int /\ Word \in Nat
    BY <2>1, Sums, PacketFields DEF Adjusted
  <2>3. PICK m \in Nat : m = Word * Word /\ m > 0
    BY Sums
  <2>4. s % m \in 0 .. m - 1
    BY <2>2, <2>3, Mod
  <2>5. PICK n : n = Word - 1 - Folded(s % m)
    OBVIOUS
  <2>6. n \in 0 .. Word - 1
    <3>1. Folded(s % m) \in 0 .. Word - 1
      BY <2>3, <2>4, FoldedTwoWords
    <3>. QED
      BY <2>2, <2>5, <3>1
  <2>7. fixTransportChecksum(p, old, new) = [p EXCEPT !.ck = n]
    BY <1>2, <2>1, <2>3, <2>5 DEF fixTransportChecksum
  <2>. QED
    BY <2>6, <2>7, SetCk DEF SameEnds
<1>. QED
  BY <1>1, <1>2

LEMMA SnatType ==
  ASSUME NEW p \in Packet
  PROVE  applySNAT(p) \in Packet /\ SameEnds(applySNAT(p), p)
<1>1. PICK q : q = [p EXCEPT !.src = "snat"]
  OBVIOUS
<1>2. q \in Packet /\ SameEnds(q, p)
  BY <1>1 DEF Packet, SameEnds, Addr
<1>3. applySNAT(p) = fixTransportChecksum(q, p.src, "snat")
  BY <1>1 DEF applySNAT
<1>. QED
  BY <1>2, <1>3, FixType DEF SameEnds

LEMMA ReverseType ==
  ASSUME NEW r \in Packet
  PROVE  LET q == applyReverseSNAT(r)
         IN  /\ q \in Packet /\ q.proto = r.proto /\ q.src = r.src
             /\ q.sport = r.sport /\ q.dport = r.dport /\ q.dst = "vip"
<1>1. PICK q : q = [r EXCEPT !.dst = "vip"]
  OBVIOUS
<1>2. /\ q \in Packet /\ q.proto = r.proto /\ q.src = r.src
      /\ q.sport = r.sport /\ q.dport = r.dport /\ q.dst = "vip"
  BY <1>1 DEF Packet, Addr
<1>3. applyReverseSNAT(r) = fixTransportChecksum(q, "snat", "vip")
  BY <1>1 DEF applyReverseSNAT
<1>. QED
  BY <1>2, <1>3, FixType DEF SameEnds

LEMMA FlowFields ==
  ASSUME NEW f \in Flow
  PROVE  /\ f.proto \in {"tcp", "udp", "icmp"} /\ f.dst \in Addr
         /\ f.sport \in Ports /\ f.dport \in Ports
         /\ f.mss \in 0 .. Word - 1 /\ f.rest \in 0 .. Word - 1
         /\ f.proto = "icmp" => f.dport = f.sport
  BY DEF Flow, Addr

(* What the peer sends for a flow.                                         *)
LEMMA AskType ==
  ASSUME NEW f \in Flow, NEW kind \in {"syn", "data"}
  PROVE  LET p == clampMSS(Seal(Ask(f, kind)))
         IN  /\ p \in Packet /\ p.mss <= tunMSS /\ p.src = "vip"
             /\ SameEnds(p, f)
<1>0. Word \in Nat /\ Word > 1
  BY Sums
<1>1. PICK a : a = Ask(f, kind)
  OBVIOUS
<1>2. /\ a \in Packet /\ a.src = "vip" /\ SameEnds(a, f)
      /\ a.kind = "syn" \/ a.mss = 0
  <2>1. "vip" \in Addr /\ 0 \in 0 .. Word - 1
    BY <1>0 DEF Addr
  <2>. QED
    BY <1>1, <2>1, FlowFields DEF Ask, Packet, SameEnds
<1>3. PICK s \in Packet : /\ s = Seal(a) /\ s.src = "vip" /\ SameEnds(s, f)
                          /\ s.kind = "syn" \/ s.mss = 0
  BY <1>2, SealType DEF SameEnds
<1>. QED
  BY <1>1, <1>3, ClampType DEF SameEnds

(* What a host or the stack sends for it.                                  *)
LEMMA AnswerType ==
  ASSUME NEW f \in Flow, NEW kind \in {"synack", "data", "fin", "rst"},
         NEW to \in Addr
  PROVE  LET r == Answer(f, kind, to)
         IN  /\ r \in Packet /\ r.dst = to /\ Answers(r, f)
             /\ r.proto = "icmp" => r.sport = r.dport
<1>0. Word \in Nat /\ Word > 1
  BY Sums
<1>1. PICK a : a = [proto |-> f.proto, src |-> f.dst, dst |-> to,
                    sport |-> f.dport, dport |-> f.sport, kind |-> kind,
                    mss |-> IF kind = "synack" THEN f.mss ELSE 0,
                    rest |-> f.rest, ck |-> 0]
  OBVIOUS
<1>2. /\ a \in Packet /\ a.dst = to /\ a.src = f.dst /\ a.proto = f.proto
      /\ a.sport = f.dport /\ a.dport = f.sport
  <2>1. 0 \in 0 .. Word - 1
    BY <1>0
  <2>. QED
    BY <1>1, <2>1, FlowFields DEF Packet
<1>3. Answer(f, kind, to) = Seal(a)
  BY <1>1 DEF Answer
<1>. QED
  BY <1>2, <1>3, SealType, FlowFields DEF SameEnds, Answers

-----------------------------------------------------------------------------
(* The invariant: everything on the responder's side (packets, entries,    *)
(* pending echoes, connections of the stack and of hosts) belongs to a     *)
(* flow with the ends of one the peer has asked for, and an exchange that  *)
(* goes on has an entry that is no older than its last packet.             *)

OfAsked(p) == \E g \in asked : SameEnds(p, g)

Flows ==
  /\ case \in Case /\ todo \subseteq case.ops
  /\ conn \in [case.flows -> {"idle", "open", "served"}]
  /\ asked \subseteq case.flows

NetOK ==
  /\ net \subseteq Packet
  /\ \A p \in net : p.mss <= tunMSS /\ p.src = "vip" /\ OfAsked(p)

BackOK == back \subseteq Packet /\ Solicited

LanOK ==
  /\ lan \subseteq Packet
  /\ \A r \in lan : /\ r.proto = "icmp" => r.sport = r.dport
                    /\ r.dst = "vip" => \E g \in asked : Answers(r, g)

SetupOK ==
  /\ setup \in {"routes", "snat", "proxy", "netstack", "end"}
  /\ open \in BOOLEAN /\ snatIP \in BOOLEAN
  /\ proxy \in {"none", "open", "closed"} /\ ns \in {"none", "open", "closed"}
  /\ setup \in {"routes", "snat"} => ~snatIP

NatOK ==
  /\ \A k \in DOMAIN nat : nat[k] \in 0 .. Life /\ \E g \in asked : k = natKey(g)
  /\ storing # None => \E g \in asked : storing = natKey(g)

EchoOK ==
  \A x \in echo : \E g \in asked : g.proto = "icmp" /\ x = <<g.dst, g.sport>>

BridgeOK ==
  /\ bridge \in [case.flows -> [at : {"none", "dial", "open"}, want : BOOLEAN]]
  /\ \A f \in case.flows : bridge[f].at # "none" \/ bridge[f].want => OfAsked(f)

KnownOK ==
  \A x \in known : x[1] \in Flow /\ x[2] \in Addr /\ OfAsked(x[1])

IdleOK ==
  /\ idle \in [case.flows -> 0 .. Life + 1]
  /\ \A f \in case.flows : idle[f] <= Life =>
       snatIP /\ natKey(f) \in DOMAIN nat /\ nat[natKey(f)] <= idle[f]

IInv == /\ Flows /\ NetOK /\ BackOK /\ LanOK /\ SetupOK
        /\ NatOK /\ EchoOK /\ BridgeOK /\ KnownOK /\ IdleOK

-----------------------------------------------------------------------------
(* Parts that a step leaves alone.                                         *)

LEMMA SameFlows == Flows /\ UNCHANGED <<case, todo, conn, asked>> => Flows'
  BY DEF Flows

LEMMA SameNet == NetOK /\ UNCHANGED <<asked, net>> => NetOK'
  BY DEF NetOK, OfAsked

LEMMA SameBack == BackOK /\ UNCHANGED <<asked, back>> => BackOK'
  BY DEF BackOK, Solicited

LEMMA SameLan == LanOK /\ UNCHANGED <<asked, lan>> => LanOK'
  BY DEF LanOK

LEMMA SameSetup == SetupOK /\ UNCHANGED <<open, setVars>> => SetupOK'
  BY DEF SetupOK, setVars

LEMMA SameNat == NatOK /\ UNCHANGED <<asked, nat, storing>> => NatOK'
  BY DEF NatOK

LEMMA SameEcho == EchoOK /\ UNCHANGED <<asked, echo>> => EchoOK'
  BY DEF EchoOK

LEMMA SameBridge == BridgeOK /\ UNCHANGED <<case, asked, bridge>> => BridgeOK'
  BY DEF BridgeOK, OfAsked

LEMMA SameKnown == KnownOK /\ UNCHANGED <<asked, known>> => KnownOK'
  BY DEF KnownOK, OfAsked

LEMMA SameIdle == IdleOK /\ UNCHANGED <<case, snatIP, nat, idle>> => IdleOK'
  BY DEF IdleOK

-----------------------------------------------------------------------------
(* Flows, keys and packets.                                                *)

LEMMA CaseFields ==
  ASSUME Flows
  PROVE  /\ case.flows \subseteq Flow /\ case.ops \subseteq Op
         /\ case.snat \in BOOLEAN /\ case.live \subseteq Hosts
  BY DEF Flows, Case

LEMMA AskedFlows ==
  ASSUME Flows
  PROVE  asked \subseteq Flow
  BY CaseFields DEF Flows

LEMMA SameKey ==
  ASSUME NEW p, NEW q, SameEnds(p, q)
  PROVE  natKey(p) = natKey(q)
  BY DEF SameEnds, natKey

(* A reply to a flow has the key of its entry, and nothing else has.       *)
LEMMA ReplyKey ==
  ASSUME NEW r, NEW f, Answers(r, f)
  PROVE  replyKey(r) = natKey(f)
  BY DEF Answers, replyKey, natKey

LEMMA KeyReply ==
  ASSUME NEW r, NEW g \in Flow, replyKey(r) = natKey(g),
         r.proto = "icmp" => r.sport = r.dport
  PROVE  Answers(r, g)
<1>1. g.proto = "icmp" => g.dport = g.sport
  BY FlowFields
<1>2. r.proto = g.proto
  BY DEF replyKey, natKey
<1>3. CASE r.proto = "icmp"
  BY <1>1, <1>2, <1>3 DEF replyKey, natKey, Answers
<1>4. CASE r.proto # "icmp"
  BY <1>2, <1>4 DEF replyKey, natKey, Answers
<1>. QED
  BY <1>3, <1>4

LEMMA AnswersEnds ==
  ASSUME NEW r, NEW f, NEW g, Answers(r, f), SameEnds(f, g)
  PROVE  Answers(r, g)
  BY DEF Answers, SameEnds

(* FlowOf finds a flow for every packet of the peer.                       *)
LEMMA FlowOfType ==
  ASSUME Flows, NEW p, OfAsked(p)
  PROVE  /\ FlowOf(p) \in case.flows /\ FlowOf(p) \in Flow
         /\ SameEnds(p, FlowOf(p)) /\ OfAsked(FlowOf(p))
<1>1. \E f \in case.flows : Asks(p, f)
  BY DEF Flows, OfAsked, SameEnds, Asks
<1>2. FlowOf(p) \in case.flows /\ Asks(p, FlowOf(p))
  BY <1>1 DEF FlowOf
<1>. QED
  BY <1>2, CaseFields DEF OfAsked, SameEnds, Asks

(* What is added to the packets on their way to the peer answers a flow    *)
(* with the ends of one it asked for.                                      *)
LEMMA BackAdd ==
  ASSUME Flows, BackOK, UNCHANGED asked, NEW f \in Flow, OfAsked(f),
         NEW kind \in {"synack", "data", "fin", "rst"},
         back' = back \cup {Answer(f, kind, "vip")}
  PROVE  BackOK'
<1>1. PICK r \in Packet : r = Answer(f, kind, "vip") /\ Answers(r, f)
  <2>1. "vip" \in Addr
    BY DEF Addr
  <2>. QED
    BY <2>1, AnswerType
<1>2. PICK g \in asked : SameEnds(f, g)
  BY DEF OfAsked
<1>3. Answers(r, g)
  BY <1>1, <1>2, AnswersEnds
<1>. QED
  BY <1>1, <1>3 DEF BackOK, Solicited

(* The kernel gets a packet of the peer: what comes back of it.            *)
LEMMA WriteStep ==
  ASSUME Flows, LanOK, KnownOK, UNCHANGED <<case, asked>>,
         NEW p \in Packet, OfAsked(p), write(p)
  PROVE  LanOK' /\ KnownOK'
<1>1. CASE UNCHANGED <<lan, known>>
  BY <1>1, SameLan, SameKnown
<1>2. PICK f \in Flow : f = FlowOf(p) /\ OfAsked(f)
  BY FlowOfType
<1>3. PICK src \in Addr : src = p.src
  BY PacketFields
<1>4. ASSUME NEW kind \in {"synack", "data", "rst"},
             lan' = lan \cup {Answer(f, kind, src)},
             known' = known \/ known' = known \cup {<<f, src>>}
      PROVE  LanOK' /\ KnownOK'
  <2>1. PICK r \in Packet : /\ r = Answer(f, kind, src) /\ Answers(r, f)
                            /\ r.proto = "icmp" => r.sport = r.dport
    BY AnswerType
  <2>2. PICK g \in asked : SameEnds(f, g)
    BY <1>2 DEF OfAsked
  <2>3. Answers(r, g)
    BY <2>1, <2>2, AnswersEnds
  <2>4. LanOK'
    BY <1>4, <2>1, <2>3 DEF LanOK
  <2>5. OfAsked(f)'
    BY <1>2 DEF OfAsked
  <2>6. ASSUME NEW x \in known' PROVE x[1] \in Flow /\ x[2] \in Addr /\ OfAsked(x[1])'
    <3>1. CASE x \in known
      BY <3>1 DEF KnownOK, OfAsked
    <3>2. CASE x = <<f, src>>
      BY <2>5, <3>2
    <3>. QED
      BY <1>4, <3>1, <3>2
  <2>. QED
    BY <2>4, <2>6 DEF KnownOK
<1>5. \/ UNCHANGED <<lan, known>>
      \/ \E kind \in {"synack", "data", "rst"} :
           /\ lan' = lan \cup {Answer(f, kind, src)}
           /\ known' = known \/ known' = known \cup {<<f, src>>}
  BY <1>2, <1>3 DEF write
<1>. QED
  BY <1>1, <1>4, <1>5

-----------------------------------------------------------------------------
(* The peer.                                                               *)

LEMMA SendStep ==
  ASSUME IInv, NEW f \in case.flows, send(f)
  PROVE  IInv'
<1>0. /\ f \in Flow /\ asked' = asked \cup {f}
      /\ UNCHANGED <<case, todo, conn, back, open, setVars, nat, storing, echo,
                     bridge, lan, known, idle>>
  BY CaseFields DEF IInv, send, nsVars
<1>1. \A p : OfAsked(p) => OfAsked(p)'
  BY <1>0 DEF OfAsked
<1>2. Flows'
  BY <1>0 DEF IInv, Flows
<1>3. NetOK'
  <2>1. PICK kind \in {"syn", "data"} :
          net' = net \cup {clampMSS(Seal(Ask(f, kind)))}
    BY DEF send
  <2>2. PICK p \in Packet : /\ p = clampMSS(Seal(Ask(f, kind)))
                            /\ p.mss <= tunMSS /\ p.src = "vip" /\ SameEnds(p, f)
    BY <1>0, AskType
  <2>3. OfAsked(p)'
    BY <1>0, <2>2 DEF OfAsked
  <2>. QED
    BY <1>1, <2>1, <2>2, <2>3 DEF IInv, NetOK
<1>4. BackOK' /\ LanOK'
  BY <1>0 DEF IInv, BackOK, Solicited, LanOK
<1>5. NatOK' /\ EchoOK'
  BY <1>0 DEF IInv, NatOK, EchoOK
<1>6. BridgeOK' /\ KnownOK'
  BY <1>0, <1>1 DEF IInv, BridgeOK, KnownOK
<1>7. SetupOK' /\ IdleOK'
  BY <1>0, SameSetup, SameIdle DEF IInv, setVars
<1>. QED
  BY <1>2, <1>3, <1>4, <1>5, <1>6, <1>7 DEF IInv

LEMMA RecvStep ==
  ASSUME IInv, recv
  PROVE  IInv'
<1>0. UNCHANGED <<case, todo, asked, net, open, setVars, nat, storing, echo,
                  bridge, lan, known, idle>>
  BY DEF recv, nsVars
<1>1. BackOK'
  <2>1. back' \subseteq back
    BY DEF recv
  <2>. QED
    BY <1>0, <2>1 DEF IInv, BackOK, Solicited
<1>2. Flows'
  <2>1. PICK r \in back :
          conn' = [f \in case.flows |->
            IF r.dst # "vip" \/ ~Valid(clampMSS(r)) \/ ~Answers(r, f) THEN conn[f]
            ELSE CASE r.kind = "synack" /\ conn[f] = "idle" -> "open"
                   [] r.kind = "data" -> "served"
                   [] r.kind \in {"rst", "fin"} /\ conn[f] = "open" -> "idle"
                   [] OTHER -> conn[f]]
    BY DEF recv
  <2>2. \A f \in case.flows : conn'[f] \in {conn[f], "open", "served", "idle"}
    BY <2>1
  <2>3. conn' \in [case.flows -> {"idle", "open", "served"}]
    BY <2>1, <2>2 DEF IInv, Flows
  <2>. QED
    BY <1>0, <2>3 DEF IInv, Flows
<1>. QED
  BY <1>0, <1>1, <1>2, SameNet, SameLan, SameSetup, SameNat, SameEcho,
     SameBridge, SameKnown, SameIdle
  DEF IInv, setVars

LEMMA LoseStep ==
  ASSUME IInv, lose
  PROVE  IInv'
<1>0. UNCHANGED <<case, conn, asked, open, setVars, nat, storing, echo, bridge,
                  lan, known, idle>>
  BY DEF lose, aVars, nsVars
<1>1. todo' \subseteq todo /\ back' \subseteq back /\ net' \subseteq net
  BY DEF lose, Does
<1>2. Flows' /\ BackOK' /\ NetOK'
  BY <1>0, <1>1 DEF IInv, Flows, BackOK, Solicited, NetOK, OfAsked
<1>. QED
  BY <1>0, <1>2, SameLan, SameSetup, SameNat, SameEcho, SameBridge, SameKnown,
     SameIdle
  DEF IInv, setVars

-----------------------------------------------------------------------------
(* The responder.                                                          *)

LEMMA SetUpStep ==
  ASSUME IInv, setUp
  PROVE  IInv'
<1>0. UNCHANGED <<case, todo, conn, asked, open, net, back, nat, storing, echo,
                  bridge, lan, known, idle>>
  BY DEF setUp, bRest, aVars, nsVars
<1>1. SetupOK'
  BY <1>0, CaseFields DEF IInv, SetupOK, setUp, newSubnetProxy, newNetstackProxy
<1>2. IdleOK'
  <2>1. snatIP => snatIP'
    BY DEF IInv, SetupOK, setUp
  <2>. QED
    BY <1>0, <2>1 DEF IInv, IdleOK
<1>. QED
  BY <1>0, <1>1, <1>2, SameFlows, SameNet, SameBack, SameLan, SameNat, SameEcho,
     SameBridge, SameKnown
  DEF IInv

(* An entry is stored or renewed.                                          *)
LEMMA StoreNat ==
  ASSUME IInv, UNCHANGED <<case, asked>>, storing' = None \/ UNCHANGED storing,
         NEW k, NEW g \in asked, k = natKey(g), nat' = Store(k)
  PROVE  /\ NatOK'
         /\ \A x \in DOMAIN nat : x \in DOMAIN nat' /\ nat'[x] <= nat[x]
         /\ k \in DOMAIN nat' /\ nat'[k] = 0
<1>0. Life \in Nat
  BY SubnetAssumption
<1>1. /\ DOMAIN nat' = DOMAIN nat \cup {k}
      /\ \A x \in DOMAIN nat' : nat'[x] = IF x = k THEN 0 ELSE nat[x]
  BY DEF Store
<1>2. NatOK'
  BY <1>0, <1>1 DEF IInv, NatOK
<1>3. \A x \in DOMAIN nat : nat[x] \in 0 .. Life
  BY DEF IInv, NatOK
<1>. QED
  BY <1>0, <1>1, <1>2, <1>3

(* Entries that are not older than before keep what is kept alive.         *)
LEMMA YoungerIdle ==
  ASSUME IInv, UNCHANGED <<case, snatIP, idle>>,
         \A x \in DOMAIN nat : /\ x \in DOMAIN nat' /\ nat'[x] <= nat[x]
                               /\ nat'[x] \in 0 .. Life
  PROVE  IdleOK'
<1>0. Life \in Nat /\ \A x \in DOMAIN nat : nat[x] \in 0 .. Life
  BY SubnetAssumption DEF IInv, NatOK
<1>1. \A f \in case.flows : idle[f] \in 0 .. Life + 1
  BY DEF IInv, IdleOK
<1>2. ASSUME NEW f \in case.flows, idle[f] <= Life
      PROVE  /\ snatIP /\ natKey(f) \in DOMAIN nat'
             /\ nat'[natKey(f)] <= idle[f]
  <2>1. snatIP /\ natKey(f) \in DOMAIN nat /\ nat[natKey(f)] <= idle[f]
    BY <1>2 DEF IInv, IdleOK
  <2>2. PICK k \in DOMAIN nat : k = natKey(f)
    BY <2>1
  <2>3. nat[k] <= idle[f] /\ nat'[k] <= nat[k] /\ nat'[k] \in 0 .. Life
        /\ nat[k] \in 0 .. Life /\ k \in DOMAIN nat' /\ idle[f] \in 0 .. Life + 1
    BY <1>0, <1>1, <2>1, <2>2
  <2>4. nat'[k] <= idle[f]
    BY <1>0, <2>3
  <2>. QED
    BY <2>1, <2>2, <2>3, <2>4
<1>3. idle' \in [case'.flows -> 0 .. Life + 1]
  BY DEF IInv, IdleOK
<1>. QED
  BY <1>2, <1>3 DEF IdleOK

LEMMA StoreICMPStep ==
  ASSUME IInv, StoreICMP
  PROVE  IInv'
<1>0. UNCHANGED <<case, todo, conn, asked, open, net, back, setVars, echo,
                  bridge, lan, known, idle>>
  BY DEF StoreICMP, bRest, aVars, nsVars
<1>1. PICK g \in asked : storing = natKey(g)
  BY DEF StoreICMP, IInv, NatOK
<1>2. PICK k : k = natKey(g)
  OBVIOUS
<1>3. nat' = Store(k) /\ storing' = None
  BY <1>1, <1>2 DEF StoreICMP
<1>4. /\ NatOK'
      /\ \A x \in DOMAIN nat : x \in DOMAIN nat' /\ nat'[x] <= nat[x]
  BY <1>0, <1>2, <1>3, StoreNat
<1>5. \A x \in DOMAIN nat : nat'[x] \in 0 .. Life
  BY <1>4 DEF NatOK
<1>6. IdleOK'
  BY <1>0, <1>4, <1>5, YoungerIdle DEF setVars
<1>. QED
  BY <1>0, <1>4, <1>6, SameFlows, SameNet, SameBack, SameLan, SameSetup,
     SameEcho, SameBridge, SameKnown
  DEF IInv

(* A packet of a flow passes the SNAT, and its entry is as young as it.    *)
LEMMA RenewIdle ==
  ASSUME IInv, UNCHANGED <<case, snatIP>>, snatIP,
         NEW k, k \in DOMAIN nat', nat'[k] = 0,
         \A x \in DOMAIN nat : /\ x \in DOMAIN nat' /\ nat'[x] <= nat[x]
                               /\ nat'[x] \in 0 .. Life,
         idle' \in [case.flows -> 0 .. Life + 1],
         \A f \in case.flows : idle'[f] = idle[f] \/ (idle'[f] = 0 /\ natKey(f) = k)
  PROVE  IdleOK'
<1>0. Life \in Nat /\ \A x \in DOMAIN nat : nat[x] \in 0 .. Life
  BY SubnetAssumption DEF IInv, NatOK
<1>1. \A f \in case.flows : idle[f] \in 0 .. Life + 1
  BY DEF IInv, IdleOK
<1>2. ASSUME NEW f \in case.flows, idle'[f] <= Life
      PROVE  natKey(f) \in DOMAIN nat' /\ nat'[natKey(f)] <= idle'[f]
  <2>1. CASE idle'[f] = 0 /\ natKey(f) = k
    BY <2>1
  <2>2. CASE idle'[f] = idle[f]
    <3>1. natKey(f) \in DOMAIN nat /\ nat[natKey(f)] <= idle[f]
      BY <1>2, <2>2 DEF IInv, IdleOK
    <3>2. PICK x \in DOMAIN nat : x = natKey(f)
      BY <3>1
    <3>3. nat[x] <= idle[f] /\ nat'[x] <= nat[x] /\ nat'[x] \in 0 .. Life
          /\ nat[x] \in 0 .. Life /\ x \in DOMAIN nat' /\ idle[f] \in 0 .. Life + 1
      BY <1>0, <1>1, <3>1, <3>2
    <3>4. nat'[x] <= idle[f]
      BY <1>0, <3>3
    <3>. QED
      BY <2>2, <3>2, <3>3, <3>4
  <2>. QED
    BY <2>1, <2>2
<1>. QED
  BY <1>2 DEF IdleOK

(* The four ways of a packet that arrives.                                 *)
LEMMA InjectStep ==
  ASSUME IInv, UNCHANGED <<case, asked>>, NEW p \in Packet, OfAsked(p),
         InjectInbound(p)
  PROVE  BackOK' /\ BridgeOK'
<1>1. PICK f \in case.flows : f = FlowOf(p) /\ f \in Flow /\ OfAsked(f)
  BY FlowOfType DEF IInv
<1>2. ASSUME NEW kind \in {"synack", "rst", "data"},
             back' = outboundLoop(f, kind)
      PROVE  BackOK'
  BY <1>1, <1>2, BackAdd DEF IInv, outboundLoop
<1>3. ASSUME NEW b \in [at : {"none", "dial", "open"}, want : BOOLEAN],
             bridge' = [bridge EXCEPT ![f] = b]
      PROVE  BridgeOK'
  <2>1. OfAsked(f)' /\ \A g : OfAsked(g) => OfAsked(g)'
    BY <1>1 DEF OfAsked
  <2>2. bridge \in [case.flows -> [at : {"none", "dial", "open"}, want : BOOLEAN]]
    BY DEF IInv, BridgeOK
  <2>3. bridge' \in [case.flows -> [at : {"none", "dial", "open"}, want : BOOLEAN]]
    BY <1>3, <2>2
  <2>4. \A g \in case.flows : g # f => bridge'[g] = bridge[g]
    BY <1>3, <2>2
  <2>. QED
    BY <2>1, <2>3, <2>4 DEF IInv, BridgeOK
<1>4. PICK b \in [at : {"none", "dial", "open"}, want : BOOLEAN] : b = bridge[f]
  BY <1>1 DEF IInv, BridgeOK
<1>5. CASE p.kind = "syn" /\ back' = outboundLoop(f, "synack")
           /\ bridge' = [bridge EXCEPT ![f].at = IF @ = "none" THEN "dial" ELSE @]
  <2>1. PICK c : c = [b EXCEPT !.at = IF @ = "none" THEN "dial" ELSE @]
    OBVIOUS
  <2>2. c \in [at : {"none", "dial", "open"}, want : BOOLEAN]
    BY <2>1
  <2>3. bridge' = [bridge EXCEPT ![f] = c]
    BY <1>4, <1>5, <2>1
  <2>. QED
    BY <1>2, <1>3, <1>5, <2>2, <2>3
<1>6. CASE back' = outboundLoop(f, "rst") /\ UNCHANGED bridge
  BY <1>2, <1>6, SameBridge DEF IInv
<1>7. CASE /\ bridge' = [bridge EXCEPT ![f] =
                [at |-> IF @.at = "none" THEN "open" ELSE @.at, want |-> TRUE]]
           /\ UNCHANGED back
  <2>1. PICK c : c = [at |-> IF b.at = "none" THEN "open" ELSE b.at, want |-> TRUE]
    OBVIOUS
  <2>2. c \in [at : {"none", "dial", "open"}, want : BOOLEAN]
    BY <2>1
  <2>3. bridge' = [bridge EXCEPT ![f] = c]
    BY <1>4, <1>7, <2>1
  <2>. QED
    BY <1>3, <1>7, <2>2, <2>3, SameBack DEF IInv
<1>8. CASE back' = outboundLoop(f, "data") /\ UNCHANGED bridge
  BY <1>2, <1>8, SameBridge DEF IInv
<1>. QED
  BY <1>1, <1>5, <1>6, <1>7, <1>8 DEF InjectInbound

LEMMA IcmpStep ==
  ASSUME IInv, UNCHANGED <<case, asked, nat>>, NEW p \in Packet, OfAsked(p),
         p.proto = "icmp", handleICMP(p)
  PROVE  NatOK' /\ EchoOK'
<1>1. PICK g \in asked : SameEnds(p, g)
  BY DEF OfAsked
<1>2. natKey(p) = natKey(g)
  BY <1>1, SameKey
<1>3. NatOK'
  BY <1>2 DEF handleICMP, IInv, NatOK
<1>4. g.proto = "icmp" /\ <<p.dst, p.sport>> = <<g.dst, g.sport>>
  BY <1>1 DEF SameEnds
<1>5. EchoOK'
  BY <1>4 DEF handleICMP, IInv, EchoOK
<1>. QED
  BY <1>3, <1>5

LEMMA SnatStep ==
  ASSUME IInv, UNCHANGED <<case, asked, snatIP, storing>>, snatIP,
         NEW p \in Packet, OfAsked(p),
         nat' = Store(natKey(p)), write(applySNAT(p)),
         idle' = [idle EXCEPT ![FlowOf(p)] = 0]
  PROVE  NatOK' /\ LanOK' /\ KnownOK' /\ IdleOK'
<1>1. PICK g \in asked : SameEnds(p, g)
  BY DEF OfAsked
<1>2. PICK k : k = natKey(p)
  OBVIOUS
<1>3. k = natKey(g)
  BY <1>1, <1>2, SameKey
<1>4. /\ NatOK'
      /\ \A x \in DOMAIN nat : x \in DOMAIN nat' /\ nat'[x] <= nat[x]
      /\ k \in DOMAIN nat' /\ nat'[k] = 0
  BY <1>2, <1>3, StoreNat
<1>5. LanOK' /\ KnownOK'
  <2>1. PICK q \in Packet : q = applySNAT(p) /\ SameEnds(q, p)
    BY SnatType
  <2>2. OfAsked(q)
    BY <1>1, <2>1 DEF OfAsked, SameEnds
  <2>. QED
    BY <2>1, <2>2, WriteStep DEF IInv
<1>6. IdleOK'
  <2>1. PICK f \in case.flows : f = FlowOf(p) /\ SameEnds(p, f)
    BY FlowOfType DEF IInv
  <2>2. natKey(f) = k
    BY <1>2, <2>1, SameKey
  <2>3. \A x \in DOMAIN nat : nat'[x] \in 0 .. Life
    BY <1>4 DEF NatOK
  <2>4. idle \in [case.flows -> 0 .. Life + 1] /\ Life \in Nat
    BY SubnetAssumption DEF IInv, IdleOK
  <2>5. idle' \in [case.flows -> 0 .. Life + 1]
    BY <2>1, <2>4
  <2>6. \A h \in case.flows : idle'[h] = idle[h] \/ (idle'[h] = 0 /\ natKey(h) = k)
    BY <2>1, <2>2, <2>4
  <2>. QED
    BY <1>4, <2>3, <2>5, <2>6, RenewIdle
<1>. QED
  BY <1>4, <1>5, <1>6

LEMMA HandleTunDataStep ==
  ASSUME IInv, handleTunData
  PROVE  IInv'
<1>0. UNCHANGED <<case, todo, conn, asked, open, setup, snatIP, proxy, ns>>
  BY DEF handleTunData, bRest, aVars, setVars
<1>1. PICK q \in net :
        LET p == clampMSS(q)
        IN  /\ net' = net \ {q}
            /\ \/ UNCHANGED <<back, nat, storing, echo, bridge, lan, known, idle>>
               \/ /\ InjectInbound(p)
                  /\ UNCHANGED <<nat, storing, echo, lan, known, idle>>
               \/ /\ p.proto = "icmp" /\ handleICMP(p)
                  /\ UNCHANGED <<back, nat, bridge, lan, known, idle>>
               \/ /\ IF snatIP /\ InRoute(p)
                     THEN /\ nat' = Store(natKey(p)) /\ write(applySNAT(p))
                          /\ idle' = [idle EXCEPT ![FlowOf(p)] = 0]
                     ELSE write(p) /\ UNCHANGED <<nat, idle>>
                  /\ UNCHANGED <<back, storing, echo, bridge>>
  BY DEF handleTunData, nsVars
<1>2. PICK p \in Packet : p = clampMSS(q) /\ OfAsked(p)
  <2>1. q \in Packet /\ OfAsked(q)
    BY DEF IInv, NetOK
  <2>2. clampMSS(q) \in Packet /\ SameEnds(clampMSS(q), q)
    BY <2>1, ClampType
  <2>. QED
    BY <2>1, <2>2 DEF OfAsked, SameEnds
<1>3. Flows' /\ SetupOK'
  BY <1>0, SameFlows, SameSetup DEF IInv, setVars
<1>4. NetOK'
  BY <1>0, <1>1 DEF IInv, NetOK, OfAsked
<1>5. CASE UNCHANGED <<back, nat, storing, echo, bridge, lan, known, idle>>
  BY <1>0, <1>3, <1>4, <1>5, SameBack, SameLan, SameNat, SameEcho, SameBridge,
     SameKnown, SameIdle
  DEF IInv
<1>6. CASE InjectInbound(p) /\ UNCHANGED <<nat, storing, echo, lan, known, idle>>
  <2>1. BackOK' /\ BridgeOK'
    BY <1>0, <1>2, <1>6, InjectStep
  <2>. QED
    BY <1>0, <1>3, <1>4, <1>6, <2>1, SameLan, SameNat, SameEcho, SameKnown, SameIdle
    DEF IInv
<1>7. CASE /\ p.proto = "icmp" /\ handleICMP(p)
           /\ UNCHANGED <<back, nat, bridge, lan, known, idle>>
  <2>1. NatOK' /\ EchoOK'
    BY <1>0, <1>2, <1>7, IcmpStep
  <2>. QED
    BY <1>0, <1>3, <1>4, <1>7, <2>1, SameBack, SameLan, SameBridge, SameKnown,
       SameIdle
    DEF IInv
<1>8. CASE /\ snatIP /\ nat' = Store(natKey(p)) /\ write(applySNAT(p))
           /\ idle' = [idle EXCEPT ![FlowOf(p)] = 0]
           /\ UNCHANGED <<back, storing, echo, bridge>>
  <2>1. NatOK' /\ LanOK' /\ KnownOK' /\ IdleOK'
    BY <1>0, <1>2, <1>8, SnatStep
  <2>. QED
    BY <1>0, <1>3, <1>4, <1>8, <2>1, SameBack, SameEcho, SameBridge DEF IInv
<1>9. CASE write(p) /\ UNCHANGED <<nat, idle, back, storing, echo, bridge>>
  <2>1. LanOK' /\ KnownOK'
    BY <1>0, <1>2, <1>9, WriteStep DEF IInv
  <2>. QED
    BY <1>0, <1>3, <1>4, <1>9, <2>1, SameBack, SameNat, SameEcho, SameBridge,
       SameIdle
    DEF IInv
<1>. QED
  BY <1>1, <1>2, <1>5, <1>6, <1>7, <1>8, <1>9

LEMMA IcmpReadLoopStep ==
  ASSUME IInv, icmpReadLoop
  PROVE  IInv'
<1>0. UNCHANGED <<case, todo, conn, asked, open, net, setVars, nat, storing,
                  bridge, lan, known, idle>>
  BY DEF icmpReadLoop, bRest, aVars, nsVars
<1>1. PICK x \in echo :
        /\ echo' = echo \ {x}
        /\ LET k == <<"icmp", x[1], x[2], x[2]>>
               f == CHOOSE g \in case.flows : natKey(Ask(g, "data")) = k
           IN  back' = IF k \in DOMAIN nat
                       THEN back \cup {Answer(f, "data", "vip")} ELSE back
  BY DEF icmpReadLoop
<1>2. EchoOK'
  BY <1>0, <1>1 DEF IInv, EchoOK
<1>3. PICK g \in asked : g.proto = "icmp" /\ x = <<g.dst, g.sport>>
  BY DEF IInv, EchoOK
<1>4. PICK k : k = <<"icmp", x[1], x[2], x[2]>>
  OBVIOUS
<1>5. PICK f : f = CHOOSE h \in case.flows : natKey(Ask(h, "data")) = k
  OBVIOUS
<1>6. f \in case.flows /\ natKey(Ask(f, "data")) = k
  <2>1. g \in case.flows
    BY DEF IInv, Flows
  <2>2. natKey(Ask(g, "data")) = k
    BY <1>3, <1>4 DEF natKey, Ask
  <2>. QED
    BY <1>5, <2>1, <2>2
<1>7. f \in Flow /\ g \in Flow
  BY <1>6, CaseFields, AskedFlows DEF IInv
<1>8. SameEnds(f, g)
  <2>1. natKey(f) = k
    BY <1>6 DEF natKey, Ask
  <2>2. f.proto = "icmp"
    BY <1>4, <1>7, <2>1, FlowFields DEF natKey
  <2>3. f.dst = x[1] /\ f.sport = x[2]
    BY <1>4, <2>1, <2>2 DEF natKey
  <2>4. f.dport = f.sport /\ g.dport = g.sport
    BY <1>3, <1>7, <2>2, FlowFields
  <2>. QED
    BY <1>3, <2>2, <2>3, <2>4 DEF SameEnds
<1>9. OfAsked(f)
  BY <1>8 DEF OfAsked
<1>10. back' = back \/ back' = back \cup {Answer(f, "data", "vip")}
  BY <1>1, <1>4, <1>5
<1>11. BackOK'
  BY <1>0, <1>7, <1>9, <1>10, BackAdd, SameBack DEF IInv
<1>. QED
  BY <1>0, <1>2, <1>11, SameFlows, SameNet, SameLan, SameSetup, SameNat,
     SameBridge, SameKnown, SameIdle
  DEF IInv, setVars

LEMMA TunReadLoopStep ==
  ASSUME IInv, tunReadLoop
  PROVE  IInv'
<1>0. UNCHANGED <<case, todo, conn, asked, open, net, setup, snatIP, proxy, ns,
                  storing, echo, bridge, known>>
  BY DEF tunReadLoop, bRest, aVars, nsVars, setVars
<1>1. PICK q \in lan :
        LET r    == clampMSS(q)
            mine == snatIP /\ r.dst = "snat" /\ Hits(r)
        IN  /\ lan' = lan \ {q}
            /\ back' = back \cup {IF mine THEN applyReverseSNAT(r) ELSE r}
            /\ nat' = IF mine THEN Renew(replyKey(r)) ELSE nat
            /\ idle' = [f \in case.flows |->
                          IF mine /\ Answers(r, f) THEN 0 ELSE idle[f]]
  BY DEF tunReadLoop
<1>2. LanOK'
  BY <1>0, <1>1 DEF IInv, LanOK
<1>3. PICK r \in Packet :
        /\ r = clampMSS(q)
        /\ r.proto = "icmp" => r.sport = r.dport
        /\ r.dst = "vip" => \E g \in asked : Answers(r, g)
  <2>1. /\ q \in Packet
        /\ q.proto = "icmp" => q.sport = q.dport
        /\ q.dst = "vip" => \E g \in asked : Answers(q, g)
    BY DEF IInv, LanOK
  <2>2. /\ clampMSS(q) \in Packet /\ SameEnds(clampMSS(q), q)
        /\ clampMSS(q).src = q.src
    BY <2>1, ClampType
  <2>. QED
    BY <2>1, <2>2 DEF SameEnds, Answers
<1>4. Flows' /\ NetOK' /\ SetupOK' /\ EchoOK' /\ BridgeOK' /\ KnownOK'
  BY <1>0, SameFlows, SameNet, SameSetup, SameEcho, SameBridge, SameKnown
  DEF IInv, setVars
<1>5. CASE ~(snatIP /\ r.dst = "snat" /\ Hits(r))
  <2>1. back' = back \cup {r} /\ nat' = nat
    BY <1>1, <1>3, <1>5
  <2>2. idle' = idle
    <3>1. idle' = [f \in case.flows |-> idle[f]]
      BY <1>1, <1>3, <1>5
    <3>. QED
      BY <3>1 DEF IInv, IdleOK
  <2>3. BackOK'
    BY <1>0, <1>3, <2>1 DEF IInv, BackOK, Solicited
  <2>. QED
    BY <1>0, <1>2, <1>4, <2>1, <2>2, <2>3, SameNat, SameIdle DEF IInv
<1>6. CASE snatIP /\ r.dst = "snat" /\ Hits(r)
  <2>1. PICK k : k = replyKey(r)
    OBVIOUS
  <2>2. PICK g \in asked : k = natKey(g)
    BY <1>6, <2>1 DEF Hits, IInv, NatOK
  <2>3. Answers(r, g)
    <3>1. g \in Flow
      BY AskedFlows DEF IInv
    <3>. QED
      BY <1>3, <2>1, <2>2, <3>1, KeyReply
  <2>4. BackOK'
    <3>1. PICK s \in Packet :
            /\ s = applyReverseSNAT(r) /\ s.proto = r.proto /\ s.src = r.src
            /\ s.sport = r.sport /\ s.dport = r.dport
      BY <1>3, ReverseType
    <3>2. Answers(s, g)
      BY <2>3, <3>1 DEF Answers
    <3>3. back' = back \cup {s}
      BY <1>1, <1>3, <1>6, <3>1
    <3>. QED
      BY <1>0, <3>2, <3>3 DEF IInv, BackOK, Solicited
  <2>5. nat' = Store(k)
    BY <1>1, <1>3, <1>6, <2>1 DEF Renew
  <2>6. /\ NatOK'
        /\ \A x \in DOMAIN nat : x \in DOMAIN nat' /\ nat'[x] <= nat[x]
        /\ k \in DOMAIN nat' /\ nat'[k] = 0
    BY <1>0, <2>2, <2>5, StoreNat
  <2>7. IdleOK'
    <3>1. \A x \in DOMAIN nat : nat'[x] \in 0 .. Life
      BY <2>6 DEF NatOK
    <3>2. idle' = [f \in case.flows |-> IF Answers(r, f) THEN 0 ELSE idle[f]]
      BY <1>1, <1>3, <1>6
    <3>3. idle \in [case.flows -> 0 .. Life + 1] /\ Life \in Nat
      BY SubnetAssumption DEF IInv, IdleOK
    <3>4. idle' \in [case.flows -> 0 .. Life + 1]
      BY <3>2, <3>3
    <3>5. \A f \in case.flows :
            idle'[f] = idle[f] \/ (idle'[f] = 0 /\ natKey(f) = k)
      BY <2>1, <3>2, ReplyKey
    <3>. QED
      BY <1>0, <1>6, <2>6, <3>1, <3>4, <3>5, RenewIdle
  <2>. QED
    BY <1>2, <1>4, <2>4, <2>6, <2>7 DEF IInv
<1>. QED
  BY <1>5, <1>6

LEMMA BridgeConnStep ==
  ASSUME IInv, NEW f \in case.flows, bridgeConn(f)
  PROVE  IInv'
<1>0. UNCHANGED <<case, todo, conn, asked, open, net, setVars, nat, storing, echo,
                  lan, known, idle>>
  BY DEF bridgeConn, bRest, aVars
<1>1. PICK b \in [at : {"none", "dial", "open"}, want : BOOLEAN] : b = bridge[f]
  BY DEF IInv, BridgeOK
<1>2. b.at = "dial" \/ (b.at = "open" /\ b.want)
  BY <1>1 DEF bridgeConn
<1>3. f \in Flow /\ OfAsked(f)
  BY <1>1, <1>2, CaseFields DEF IInv, BridgeOK
<1>4. PICK c : /\ c \in {[b EXCEPT !.at = "open"], [at |-> "none", want |-> FALSE],
                         [b EXCEPT !.want = FALSE]}
               /\ bridge' = [bridge EXCEPT ![f] = c]
  <2>1. \/ bridge' = [bridge EXCEPT ![f].at = "open"]
        \/ bridge' = [bridge EXCEPT ![f] = [at |-> "none", want |-> FALSE]]
        \/ bridge' = [bridge EXCEPT ![f].want = FALSE]
    BY DEF bridgeConn
  <2>. QED
    BY <1>1, <2>1
<1>5. c \in [at : {"none", "dial", "open"}, want : BOOLEAN]
  <2>1. /\ [b EXCEPT !.at = "open"] \in [at : {"none", "dial", "open"}, want : BOOLEAN]
        /\ [b EXCEPT !.want = FALSE] \in [at : {"none", "dial", "open"}, want : BOOLEAN]
    OBVIOUS
  <2>2. [at |-> "none", want |-> FALSE]
          \in [at : {"none", "dial", "open"}, want : BOOLEAN]
    OBVIOUS
  <2>. QED
    BY <1>4, <2>1, <2>2
<1>6. BridgeOK'
  <2>1. OfAsked(f)' /\ \A g : OfAsked(g) => OfAsked(g)'
    BY <1>0, <1>3 DEF OfAsked
  <2>2. bridge \in [case.flows -> [at : {"none", "dial", "open"}, want : BOOLEAN]]
    BY DEF IInv, BridgeOK
  <2>3. bridge' \in [case.flows -> [at : {"none", "dial", "open"}, want : BOOLEAN]]
    BY <1>4, <1>5, <2>2
  <2>4. \A g \in case.flows : g # f => bridge'[g] = bridge[g]
    BY <1>4, <2>2
  <2>. QED
    BY <1>0, <2>1, <2>3, <2>4 DEF IInv, BridgeOK
<1>7. \/ back' = back
      \/ \E kind \in {"fin", "data"} : back' = back \cup {Answer(f, kind, "vip")}
  BY DEF bridgeConn, outboundLoop
<1>8. BackOK'
  BY <1>0, <1>3, <1>7, BackAdd, SameBack DEF IInv
<1>. QED
  BY <1>0, <1>6, <1>8, SameFlows, SameNet, SameLan, SameSetup, SameNat, SameEcho,
     SameKnown, SameIdle
  DEF IInv, setVars

(* An entry and the exchange it serves grow old together.                  *)
LEMMA CleanupStep ==
  ASSUME IInv, cleanupNATTable
  PROVE  IInv'
<1>0. UNCHANGED <<case, todo, conn, asked, open, net, back, setup, snatIP, proxy,
                  ns, storing, echo, lan, known>>
  BY DEF cleanupNATTable, bRest, aVars, setVars
<1>1. Life \in Nat /\ \A x \in DOMAIN nat : nat[x] \in 0 .. Life
  BY SubnetAssumption DEF IInv, NatOK
<1>2. /\ DOMAIN nat' = {x \in DOMAIN nat : proxy # "open" \/ nat[x] < Life}
      /\ \A x \in DOMAIN nat' : nat'[x] = IF nat[x] = Life THEN Life ELSE nat[x] + 1
  BY DEF cleanupNATTable
<1>3. \A x \in DOMAIN nat' : x \in DOMAIN nat /\ nat'[x] \in 0 .. Life
  BY <1>1, <1>2
<1>4. NatOK'
  BY <1>0, <1>3 DEF IInv, NatOK
<1>5. IdleOK'
  <2>1. idle' = [f \in case.flows |-> IF idle[f] > Life THEN idle[f] ELSE idle[f] + 1]
    BY DEF cleanupNATTable
  <2>2. \A f \in case.flows : idle[f] \in 0 .. Life + 1
    BY DEF IInv, IdleOK
  <2>3. idle' \in [case.flows -> 0 .. Life + 1]
    <3>1. \A f \in case.flows : idle'[f] \in 0 .. Life + 1
      BY <1>1, <2>1, <2>2
    <3>. QED
      BY <2>1, <3>1
  <2>4. ASSUME NEW f \in case.flows, idle'[f] <= Life
        PROVE  snatIP /\ natKey(f) \in DOMAIN nat' /\ nat'[natKey(f)] <= idle'[f]
    <3>1. idle[f] < Life /\ idle'[f] = idle[f] + 1
      BY <1>1, <2>1, <2>2, <2>4
    <3>2. idle[f] <= Life
      BY <1>1, <2>2, <3>1
    <3>3. snatIP /\ natKey(f) \in DOMAIN nat /\ nat[natKey(f)] <= idle[f]
      BY <3>2 DEF IInv, IdleOK
    <3>4. PICK k \in DOMAIN nat : k = natKey(f) /\ nat[k] <= idle[f]
      BY <3>3
    <3>5. nat[k] < Life /\ nat[k] \in 0 .. Life /\ idle[f] \in 0 .. Life + 1
      BY <1>1, <2>2, <3>1, <3>4
    <3>6. k \in DOMAIN nat' /\ nat'[k] = nat[k] + 1
      BY <1>1, <1>2, <3>5
    <3>7. nat'[k] <= idle'[f]
      BY <3>1, <3>4, <3>5, <3>6
    <3>. QED
      BY <3>3, <3>4, <3>6, <3>7
  <2>. QED
    BY <1>0, <2>3, <2>4 DEF IdleOK
<1>6. BridgeOK'
  <2>1. CASE UNCHANGED bridge
    BY <1>0, <2>1, SameBridge DEF IInv
  <2>2. CASE bridge' = [f \in case.flows |->
                          IF f.proto = "udp" THEN [bridge[f] EXCEPT !.at = "none"]
                          ELSE bridge[f]]
    <3>1. ASSUME NEW f \in case.flows
          PROVE  /\ bridge'[f] \in [at : {"none", "dial", "open"}, want : BOOLEAN]
                 /\ bridge'[f].at \in {"none", bridge[f].at}
                 /\ bridge'[f].want = bridge[f].want
      <4>1. PICK b \in [at : {"none", "dial", "open"}, want : BOOLEAN] : b = bridge[f]
        BY DEF IInv, BridgeOK
      <4>2. bridge'[f] = b \/ bridge'[f] = [b EXCEPT !.at = "none"]
        BY <2>2, <4>1
      <4>. QED
        BY <4>1, <4>2
    <3>2. bridge' \in [case.flows -> [at : {"none", "dial", "open"}, want : BOOLEAN]]
      BY <2>2, <3>1
    <3>3. \A f : OfAsked(f) => OfAsked(f)'
      BY <1>0 DEF OfAsked
    <3>. QED
      BY <1>0, <3>1, <3>2, <3>3 DEF IInv, BridgeOK
  <2>. QED
    BY <2>1, <2>2 DEF cleanupNATTable
<1>. QED
  BY <1>0, <1>4, <1>5, <1>6, SameFlows, SameNet, SameBack, SameLan, SameSetup,
     SameEcho, SameKnown
  DEF IInv, setVars

LEMMA StopStep ==
  ASSUME IInv, stopTunDevice
  PROVE  IInv'
<1>0. UNCHANGED <<case, conn, asked, net, back, setup, snatIP, nat, storing,
                  known, idle>>
  BY DEF stopTunDevice, aVars
<1>1. Flows'
  BY <1>0 DEF IInv, Flows, stopTunDevice, Does
<1>2. SetupOK'
  <2>1. open' = FALSE /\ proxy' \in {proxy, "closed"} /\ ns' \in {ns, "closed"}
    BY DEF stopTunDevice
  <2>. QED
    BY <1>0, <2>1 DEF IInv, SetupOK
<1>3. LanOK' /\ EchoOK'
  BY DEF stopTunDevice, LanOK, EchoOK
<1>4. BridgeOK'
  <2>1. bridge' = [f \in case.flows |-> [at |-> "none", want |-> FALSE]]
    BY DEF stopTunDevice
  <2>. QED
    BY <1>0, <2>1 DEF BridgeOK
<1>. QED
  BY <1>0, <1>1, <1>2, <1>3, <1>4, SameNet, SameBack, SameNat, SameKnown, SameIdle
  DEF IInv

-----------------------------------------------------------------------------
(* The hosts of the subnet.                                                *)

LEMMA StrayStep ==
  ASSUME IInv, stray
  PROVE  IInv'
<1>0. UNCHANGED <<case, conn, asked, net, back, open, setVars, nat, storing, echo,
                  bridge, known, idle>>
  BY DEF stray, aVars, nsVars
<1>1. PICK op \in todo :
        /\ op[1] = "stray" /\ todo' = todo \ {op}
        /\ lan' = lan \cup {[Answer(op[3], "data", "snat") EXCEPT !.src = op[2]]}
  BY DEF stray, Does
<1>2. op[2] \in Hosts /\ op[3] \in Flow
  <2>1. op \in Op
    BY CaseFields DEF IInv, Flows
  <2>. QED
    BY <1>1, <2>1 DEF Op
<1>3. PICK a \in Packet : /\ a = Answer(op[3], "data", "snat") /\ a.dst = "snat"
                          /\ a.proto = "icmp" => a.sport = a.dport
  <2>1. "snat" \in Addr
    BY DEF Addr
  <2>. QED
    BY <1>2, <2>1, AnswerType
<1>4. PICK r : r = [a EXCEPT !.src = op[2]]
  OBVIOUS
<1>5. /\ r \in Packet /\ r.dst = "snat"
      /\ r.proto = "icmp" => r.sport = r.dport
  BY <1>2, <1>3, <1>4 DEF Packet, Addr
<1>6. LanOK'
  BY <1>0, <1>1, <1>3, <1>4, <1>5 DEF IInv, LanOK
<1>7. Flows'
  BY <1>0, <1>1 DEF IInv, Flows
<1>. QED
  BY <1>0, <1>6, <1>7, SameNet, SameBack, SameSetup, SameNat, SameEcho,
     SameBridge, SameKnown, SameIdle
  DEF IInv, setVars

LEMMA PushStep ==
  ASSUME IInv, NEW f \in case.flows, push(f)
  PROVE  IInv'
<1>0. UNCHANGED <<case, todo, conn, asked, open, net, back, setVars, nat, storing,
                  echo, bridge, known, idle>>
  BY DEF push, bRest, aVars, nsVars
<1>1. PICK x \in known : x[1] = f /\ lan' = lan \cup {Answer(f, "data", x[2])}
  BY DEF push
<1>2. f \in Flow /\ x[2] \in Addr /\ OfAsked(f)
  BY <1>1 DEF IInv, KnownOK
<1>3. PICK r \in Packet : /\ r = Answer(f, "data", x[2]) /\ Answers(r, f)
                          /\ r.proto = "icmp" => r.sport = r.dport
  BY <1>2, AnswerType
<1>4. PICK g \in asked : Answers(r, g)
  BY <1>2, <1>3, AnswersEnds DEF OfAsked
<1>5. LanOK'
  BY <1>0, <1>1, <1>3, <1>4 DEF IInv, LanOK
<1>. QED
  BY <1>0, <1>5, SameFlows, SameNet, SameBack, SameSetup, SameNat, SameEcho,
     SameBridge, SameKnown, SameIdle
  DEF IInv, setVars

-----------------------------------------------------------------------------
(* The specification.                                                      *)

LEMMA InitStep ==
  ASSUME Init
  PROVE  IInv
<1>0. Life \in Nat /\ case \in Case
  BY SubnetAssumption DEF Init
<1>1. Flows /\ SetupOK
  BY <1>0 DEF Init, Flows, SetupOK
<1>2. NetOK /\ BackOK /\ LanOK /\ EchoOK /\ KnownOK
  BY DEF Init, NetOK, BackOK, Solicited, LanOK, EchoOK, KnownOK
<1>3. NatOK
  BY DEF Init, NatOK
<1>4. BridgeOK
  BY DEF Init, BridgeOK
<1>5. IdleOK
  BY <1>0 DEF Init, IdleOK
<1>. QED
  BY <1>1, <1>2, <1>3, <1>4, <1>5 DEF IInv

LEMMA NextStep ==
  ASSUME IInv, [Next]_vars
  PROVE  IInv'
<1>1. CASE UNCHANGED vars
  <2>1. UNCHANGED <<case, todo, conn, asked, net, back, open, setVars, nat, storing,
                    echo, bridge, lan, known, idle>>
    BY <1>1 DEF vars, aVars, nsVars
  <2>. QED
    BY <2>1, SameFlows, SameNet, SameBack, SameLan, SameSetup, SameNat, SameEcho,
       SameBridge, SameKnown, SameIdle
    DEF IInv, setVars
<1>2. CASE \E f \in case.flows : send(f) \/ bridgeConn(f) \/ push(f)
  BY <1>2, SendStep, BridgeConnStep, PushStep
<1>. QED
  BY <1>1, <1>2, RecvStep, LoseStep, SetUpStep, StoreICMPStep, HandleTunDataStep,
     IcmpReadLoopStep, TunReadLoopStep, CleanupStep, StopStep, StrayStep
  DEF Next

(* The invariant holds of every behaviour.                                 *)
THEOREM Invariance == Spec => []IInv
<1>1. Init => IInv
  BY InitStep
<1>2. IInv /\ [Next]_vars => IInv'
  BY NextStep
<1>. QED
  BY <1>1, <1>2, PTL DEF Spec

(* Every variable keeps its type (TypeOK): for any word size, what the     *)
(* clamp, the SNAT and its reversal leave in a packet are words again,     *)
(* although the adjustment of a checksum may wrap, and nothing that goes   *)
(* to the responder announces more than tunMSS.                            *)
THEOREM TypeCorrect == Spec => []TypeOK
<1>1. IInv => TypeOK
  BY DEF IInv, Flows, NetOK, BackOK, LanOK, SetupOK, NatOK, BridgeOK, IdleOK, TypeOK
<1>. QED
  BY <1>1, Invariance, PTL

(* The subnet reaches the peer only in answer (Solicited): whichever way   *)
(* handleTunData takes, and whatever hosts send unasked, a packet for the  *)
(* peer's address comes from where the peer has asked.                     *)
THEOREM SolicitedHolds == Spec => []Solicited
<1>1. IInv => Solicited
  BY DEF IInv, BackOK
<1>. QED
  BY <1>1, Invariance, PTL

-----------------------------------------------------------------------------
(* What goes on is not cut.                                                *)

LEMMA AnswerTo ==
  ASSUME NEW f, NEW kind, NEW to
  PROVE  Answer(f, kind, to).dst = to
  BY DEF Answer, Seal

(* Only tunReadLoop hands on what is still addressed to the SNAT address.  *)
LEMMA Untranslated ==
  ASSUME [Next]_vars, ~tunReadLoop, NEW r \in back' \ back
  PROVE  r.dst = "vip"
<1>1. UNCHANGED vars => UNCHANGED back
  BY DEF vars
<1>2. recv => back' \subseteq back
  BY DEF recv
<1>3. lose => back' \subseteq back
  BY DEF lose
<1>4. setUp \/ StoreICMP \/ cleanupNATTable => UNCHANGED back
  BY DEF setUp, StoreICMP, cleanupNATTable
<1>5. stopTunDevice \/ stray => UNCHANGED back
  BY DEF stopTunDevice, stray
<1>6. CASE handleTunData
  <2>1. \/ UNCHANGED back
        \/ \E q \in net : InjectInbound(clampMSS(q))
    BY <1>6 DEF handleTunData
  <2>2. ASSUME NEW p, InjectInbound(p)
        PROVE  \/ UNCHANGED back
               \/ \E f, kind : back' = back \cup {Answer(f, kind, "vip")}
    BY <2>2 DEF InjectInbound, outboundLoop
  <2>. QED
    BY <2>1, <2>2, AnswerTo
<1>7. CASE icmpReadLoop
  <2>1. \/ UNCHANGED back
        \/ \E f : back' = back \cup {Answer(f, "data", "vip")}
    BY <1>7 DEF icmpReadLoop
  <2>. QED
    BY <2>1, AnswerTo
<1>8. ASSUME NEW f \in case.flows, send(f) \/ bridgeConn(f) \/ push(f)
      PROVE  r.dst = "vip"
  <2>1. \/ UNCHANGED back
        \/ \E kind : back' = back \cup {Answer(f, kind, "vip")}
    BY <1>8 DEF send, bridgeConn, push, outboundLoop
  <2>. QED
    BY <2>1, AnswerTo
<1>. QED
  BY <1>1, <1>2, <1>3, <1>4, <1>5, <1>6, <1>7, <1>8 DEF Next

LEMMA KeptAliveStep ==
  ASSUME IInv, [Next]_vars, NEW r \in back' \ back, NEW f \in case.flows,
         r.dst = "snat", Answers(r, f)
  PROVE  idle[f] > Life
<1>1. "snat" # "vip"
  OBVIOUS
<1>2. tunReadLoop
  BY <1>1, Untranslated
<1>3. PICK q \in lan :
        LET s    == clampMSS(q)
            mine == snatIP /\ s.dst = "snat" /\ Hits(s)
        IN  back' = back \cup {IF mine THEN applyReverseSNAT(s) ELSE s}
  BY <1>2 DEF tunReadLoop
<1>4. PICK s \in Packet : s = clampMSS(q)
  BY ClampType DEF IInv, LanOK
<1>5. applyReverseSNAT(s).dst = "vip"
  BY <1>4, ReverseType
<1>6. r = s /\ ~(snatIP /\ s.dst = "snat" /\ Hits(s))
  BY <1>1, <1>3, <1>4, <1>5
<1>7. replyKey(r) = natKey(f)
  BY ReplyKey
<1>8. ~(snatIP /\ natKey(f) \in DOMAIN nat)
  BY <1>6, <1>7 DEF Hits
<1>9. ~(idle[f] <= Life) /\ idle[f] \in 0 .. Life + 1 /\ Life \in Nat
  BY <1>8, SubnetAssumption DEF IInv, IdleOK
<1>. QED
  BY <1>9

(* An exchange that goes on is not cut (KeptAlive): tunReadLoop hands on a *)
(* reply untranslated only when neither side has sent anything for more    *)
(* than Life minutes, however often cleanupNATTable runs in between.       *)
THEOREM KeptAliveHolds == Spec => KeptAlive
<1>1. IInv /\ [Next]_vars =>
        [\A r \in back' \ back : \A f \in case.flows :
           (r.dst = "snat" /\ Answers(r, f)) => idle[f] > Life]_vars
  BY KeptAliveStep
<1>. QED
  BY <1>1, Invariance, PTL DEF Spec, KeptAlive
=============================================================================
