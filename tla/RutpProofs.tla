----------------------------- MODULE RutpProofs -----------------------------
(***************************************************************************)
(* Proofs about Rutp, for any number of segments, any clean-up interval    *)
(* and window, any modulus and any data.                                   *)
(***************************************************************************)
EXTENDS Rutp, TLAPS

USE RutpAssumption

(* A sequence with one more element has one more value.                    *)
LEMMA AppendValues ==
  ASSUME NEW S, NEW s \in Seq(S), NEW e \in S
  PROVE  /\ Append(s, e) \in Seq(S)
         /\ {Append(s, e)[i] : i \in DOMAIN Append(s, e)}
              = {s[i] : i \in DOMAIN s} \cup {e}
<1> DEFINE t == Append(s, e)
<1>1. /\ Len(s) \in Nat /\ DOMAIN s = 1 .. Len(s)
      /\ DOMAIN t = 1 .. Len(s) + 1 /\ t \in Seq(S)
  OBVIOUS
<1>2. (\A i \in 1 .. Len(s) : t[i] = s[i]) /\ t[Len(s) + 1] = e
  OBVIOUS
<1>3. 1 .. Len(s) + 1 = (1 .. Len(s)) \cup {Len(s) + 1}
  BY <1>1
<1> HIDE DEF t
<1>4. {t[i] : i \in DOMAIN t} = {s[i] : i \in DOMAIN s} \cup {e}
  BY <1>1, <1>2, <1>3
<1>. QED
  BY <1>1, <1>4 DEF t

(* Taking the head off a sequence loses no other value.                    *)
LEMMA TailValues ==
  ASSUME NEW S, NEW s \in Seq(S), s # <<>>
  PROVE  /\ Tail(s) \in Seq(S) /\ Head(s) \in S
         /\ {s[i] : i \in DOMAIN s}
              \subseteq {Tail(s)[i] : i \in DOMAIN Tail(s)} \cup {Head(s)}
<1> DEFINE t == Tail(s)
<1>1. /\ Len(s) \in Nat \ {0} /\ DOMAIN s = 1 .. Len(s)
      /\ DOMAIN t = 1 .. Len(s) - 1 /\ t \in Seq(S)
      /\ Head(s) = s[1] /\ Head(s) \in S
  OBVIOUS
<1>2. \A i \in 1 .. Len(s) - 1 : t[i] = s[i + 1]
  OBVIOUS
<1> HIDE DEF t
<1>3. ASSUME NEW i \in DOMAIN s
      PROVE  s[i] \in {t[j] : j \in DOMAIN t} \cup {Head(s)}
  <2>1. CASE i = 1
    BY <1>1, <2>1
  <2>2. CASE i # 1
    <3>1. i - 1 \in DOMAIN t /\ t[i - 1] = s[i]
      BY <1>1, <1>2, <2>2
    <3>. QED
      BY <3>1
  <2>. QED
    BY <2>1, <2>2
<1>. QED
  BY <1>1, <1>3 DEF t

(* Dropping the head adds nothing.                                         *)
LEMMA TailSubset ==
  ASSUME NEW S, NEW s \in Seq(S), s # <<>>
  PROVE  {Tail(s)[i] : i \in DOMAIN Tail(s)} \subseteq {s[i] : i \in DOMAIN s}
<1> DEFINE t == Tail(s)
<1>1. /\ Len(s) \in Nat \ {0} /\ DOMAIN s = 1 .. Len(s)
      /\ DOMAIN t = 1 .. (Len(s) - 1)
      /\ \A i \in 1 .. (Len(s) - 1) : t[i] = s[i + 1]
  OBVIOUS
<1>2. ASSUME NEW i \in DOMAIN t PROVE \E j \in DOMAIN s : s[j] = t[i]
  <2>1. i + 1 \in DOMAIN s /\ s[i + 1] = t[i]
    BY <1>1
  <2>. QED
    BY <2>1
<1>. QED
  BY <1>2

(* What a message put on the relay adds to it.                             *)
LEMMA RelayAppend ==
  ASSUME TypeOK, NEW n \in Segs \cup {CloseTunnel}, relay' = Append(relay, n)
  PROVE  /\ relay' \in Seq(Segs \cup {CloseTunnel})
         /\ Relayed' = Relayed \cup {n}
<1> DEFINE S == Segs \cup {CloseTunnel}
<1>1. relay \in Seq(S) /\ n \in S /\ relay' = Append(relay, n)
  BY DEF TypeOK
<1> HIDE DEF S
<1>2. /\ Append(relay, n) \in Seq(S)
      /\ {Append(relay, n)[i] : i \in DOMAIN Append(relay, n)}
           = {relay[i] : i \in DOMAIN relay} \cup {n}
  BY <1>1, AppendValues
<1>. QED
  BY <1>1, <1>2 DEF S, Relayed

(* What is true of the values on the relay when its head is taken.         *)
LEMMA RelayTail ==
  ASSUME TypeOK, relay # <<>>, relay' = Tail(relay)
  PROVE  /\ relay' \in Seq(Segs \cup {CloseTunnel})
         /\ Head(relay) # CloseTunnel => Head(relay) \in Segs
         /\ Relayed \subseteq Relayed' \cup {Head(relay)}
<1> DEFINE S == Segs \cup {CloseTunnel}
<1>1. relay \in Seq(S)
  BY DEF TypeOK
<1> HIDE DEF S
<1>2. /\ Tail(relay) \in Seq(S) /\ Head(relay) \in S
      /\ {relay[i] : i \in DOMAIN relay}
           \subseteq {Tail(relay)[i] : i \in DOMAIN Tail(relay)}
                       \cup {Head(relay)}
  BY <1>1, TailValues
<1>. QED
  BY <1>2 DEF S, Relayed

(* A write adds the segment to what was written.                           *)
LEMMA Write ==
  ASSUME TypeOK, NEW n \in Segs, out' = Append(out, n)
  PROVE  out' \in Seq(Segs) /\ Written' = Written \cup {n}
<1>1. out \in Seq(Segs)
  BY DEF TypeOK
<1>2. /\ Append(out, n) \in Seq(Segs)
      /\ {Append(out, n)[i] : i \in DOMAIN Append(out, n)}
           = {out[i] : i \in DOMAIN out} \cup {n}
  BY <1>1, AppendValues
<1>. QED
  BY <1>2 DEF Written

(* The initial state satisfies the invariant.                              *)
LEMMA InitInv == Init => IInv
<1> SUFFICES ASSUME Init PROVE IInv
  OBVIOUS
<1>1. TypeOK
  <2>1. relay \in Seq(Segs \cup {CloseTunnel}) /\ out \in Seq(Segs)
    BY DEF Init
  <2>2. seq \in 0 .. MaxSeq /\ retries \in [Segs -> 0 .. 3]
    BY DEF Init
  <2>3. /\ bridge \in BOOLEAN /\ reading \in BOOLEAN /\ loop \in BOOLEAN
        /\ open \in BOOLEAN /\ rutpRecv \in BOOLEAN /\ fresh \in BOOLEAN
        /\ filter \in BOOLEAN
    BY DEF Init
  <2>4. /\ pending \subseteq Segs /\ data \subseteq Segs /\ acks \subseteq Segs
        /\ seen \subseteq Segs /\ dedup \subseteq Contents
        /\ hand \in Segs \cup {Nil}
    BY DEF Init
  <2>. QED
    BY <2>1, <2>2, <2>3, <2>4 DEF TypeOK
<1>2. Honest
  BY DEF Init, Honest
<1>3. KeptWhileOpen
  BY DEF Init, KeptWhileOpen
<1>. QED
  BY <1>1, <1>2, <1>3 DEF IInv

(* A new segment is pending.                                               *)
LEMMA SendInv == IInv /\ Send => IInv'
<1> SUFFICES ASSUME IInv, Send PROVE IInv'
  OBVIOUS
<1> USE DEF IInv, Send, recvVars
<1>1. TypeOK'
  BY DEF TypeOK, Segs
<1>2. Honest'
  BY DEF Honest, Written
<1>3. KeptWhileOpen'
  <2>1. seq \in Nat /\ 1 .. seq' = (1 .. seq) \cup {seq'}
    BY DEF TypeOK
  <2>. QED
    BY <2>1 DEF KeptWhileOpen, Written, Relayed
<1>. QED
  BY <1>1, <1>2, <1>3

(* What an ACK removes was written or is in hand.                          *)
LEMMA OnACKInv == ASSUME IInv, NEW n \in Segs, OnACK(n) PROVE IInv'
<1> USE DEF IInv, OnACK, recvVars
<1>1. TypeOK'
  BY DEF TypeOK
<1>2. Honest'
  BY DEF Honest, Written
<1>3. KeptWhileOpen'
  BY DEF KeptWhileOpen, Honest, Written, Relayed
<1>. QED
  BY <1>1, <1>2, <1>3

(* A retransmission changes no bookkeeping but the count.                  *)
LEMMA RetransmitInv == ASSUME IInv, NEW n \in Segs, Retransmit(n) PROVE IInv'
<1> USE DEF IInv, Retransmit, recvVars
<1>1. TypeOK'
  <2>1. retries' \in [Segs -> 0 .. 3]
    BY DEF TypeOK
  <2>. QED
    BY <2>1 DEF TypeOK
<1>2. Honest'
  BY DEF Honest, Written
<1>3. KeptWhileOpen'
  BY DEF KeptWhileOpen, Written, Relayed
<1>. QED
  BY <1>1, <1>2, <1>3

(* What leaves the pending map here is on the relay.                       *)
LEMMA FallbackInv == ASSUME IInv, NEW n \in Segs, Fallback(n) PROVE IInv'
<1> USE DEF IInv, Fallback, recvVars
<1>1. /\ relay' \in Seq(Segs \cup {CloseTunnel})
      /\ Relayed' = Relayed \cup {n}
  BY RelayAppend
<1>2. TypeOK'
  <2>1. retries' \in [Segs -> 0 .. 3]
    BY DEF TypeOK
  <2>. QED
    BY <1>1, <2>1 DEF TypeOK
<1>3. Honest'
  BY DEF Honest, Written
<1>4. KeptWhileOpen'
  BY <1>1 DEF KeptWhileOpen, Written
<1>. QED
  BY <1>2, <1>3, <1>4

(* Once the sender has stopped nothing is promised.                        *)
LEMMA CloseInv == IInv /\ (Close \/ LoopExit) => IInv'
<1> SUFFICES ASSUME IInv, Close \/ LoopExit PROVE IInv'
  OBVIOUS
<1> USE DEF IInv, Close, LoopExit, recvVars
<1>1. relay' \in Seq(Segs \cup {CloseTunnel})
  BY AppendValues DEF TypeOK
<1>2. TypeOK'
  BY <1>1 DEF TypeOK
<1>3. Honest'
  BY DEF Honest, Written
<1>4. KeptWhileOpen'
  BY DEF KeptWhileOpen
<1>. QED
  BY <1>2, <1>3, <1>4

(* A number is acknowledged and marked when its segment is in hand; a      *)
(* number already marked was written before, since the hand is empty.      *)
LEMMA RecvDataInv == ASSUME IInv, NEW n \in Segs, RecvData(n) PROVE IInv'
<1> USE DEF IInv, RecvData, sendVars
<1>1. seen' \subseteq seen \cup {n} /\ (n \in seen => seen' = seen)
  BY DEF Cleaned
<1>2. n \in seen \/ hand' = n
  OBVIOUS
<1>3. TypeOK'
  BY <1>1 DEF TypeOK
<1>4. Written \cup {hand} \subseteq Written' \cup {hand', Nil}
  BY DEF Written
<1>5. n \notin {Nil} /\ acks \subseteq Segs /\ seen \subseteq Segs
      /\ Nil \notin Segs
  BY DEF TypeOK, Segs
<1>6. Honest'
  BY <1>1, <1>2, <1>4, <1>5 DEF Honest, Written
<1>7. KeptWhileOpen'
  <2>1. Nil \notin 1 .. seq
    BY DEF TypeOK
  <2>. QED
    BY <1>4, <2>1 DEF KeptWhileOpen, Relayed
<1>. QED
  BY <1>3, <1>6, <1>7

(* The segment in hand is written; its hash is filtered from now on.       *)
LEMMA WriteDataInv == IInv /\ WriteData => IInv'
<1> SUFFICES ASSUME IInv, WriteData PROVE IInv'
  OBVIOUS
<1> USE DEF IInv, WriteData, sendVars
<1>1. hand \in Segs
  BY DEF TypeOK
<1>2. out' \in Seq(Segs) /\ (open => Written' = Written \cup {hand})
  <2>1. CASE open
    BY <1>1, <2>1, Write
  <2>2. CASE ~open
    BY <2>2 DEF TypeOK
  <2>. QED
    BY <2>1, <2>2
<1>3. TypeOK'
  BY <1>1, <1>2 DEF TypeOK, Contents
<1>4. Honest'
  BY <1>2 DEF Honest
<1>5. KeptWhileOpen'
  BY <1>2 DEF KeptWhileOpen, Relayed
<1>. QED
  BY <1>3, <1>4, <1>5

(* A bridge passes on what it takes.                                       *)
LEMMA BridgedInv == IInv /\ Bridged => IInv'
<1> SUFFICES ASSUME IInv, Bridged PROVE IInv'
  OBVIOUS
<1> USE DEF IInv, Bridged, sendVars
<1>1. /\ relay' \in Seq(Segs \cup {CloseTunnel}) /\ Head(relay) \in Segs
      /\ Relayed \subseteq Relayed' \cup {Head(relay)}
  BY RelayTail
<1>2. /\ out' \in Seq(Segs)
      /\ open => Written' = Written \cup {Head(relay)}
  <2>1. CASE open
    BY <1>1, <2>1, Write
  <2>2. CASE ~open
    BY <2>2 DEF TypeOK
  <2>. QED
    BY <2>1, <2>2
<1>3. TypeOK'
  BY <1>1, <1>2 DEF TypeOK
<1>4. Honest'
  BY <1>2 DEF Honest
<1>5. KeptWhileOpen'
  BY <1>1, <1>2 DEF KeptWhileOpen
<1>. QED
  BY <1>3, <1>4, <1>5

(* Relayed data is written, or its hash is known: then the segment with    *)
(* that data, which is this one, was written before.                       *)
LEMMA RecvRelayInv == IInv /\ RecvRelay => IInv'
<1> SUFFICES ASSUME IInv, RecvRelay PROVE IInv'
  OBVIOUS
<1> USE DEF IInv, RecvRelay, sendVars
<1> DEFINE n == Head(relay)
<1>1. /\ relay' \in Seq(Segs \cup {CloseTunnel}) /\ n \in Segs
      /\ Relayed \subseteq Relayed' \cup {n}
  BY RelayTail
<1>2. CASE open /\ ~(filter /\ Content[n] \in dedup)
  <2>1. out' \in Seq(Segs) /\ Written' = Written \cup {n}
    BY <1>1, <1>2, Write
  <2>2. dedup' \subseteq dedup \cup {Content[n]}
    BY <1>2
  <2>3. TypeOK'
    BY <1>1, <2>1, <2>2 DEF TypeOK, Contents
  <2>4. Honest'
    BY <2>1, <2>2 DEF Honest
  <2>5. KeptWhileOpen'
    BY <1>1, <2>1 DEF KeptWhileOpen
  <2>. QED
    BY <2>3, <2>4, <2>5
<1>3. CASE ~open \/ (filter /\ Content[n] \in dedup)
  <2>1. UNCHANGED <<dedup, out>>
    BY <1>3
  <2>2. TypeOK'
    BY <1>1, <2>1 DEF TypeOK
  <2>3. Honest'
    BY <2>1 DEF Honest, Written
  <2>4. Distinct /\ open => n \in Written
    <3> SUFFICES ASSUME Distinct, open PROVE n \in Written
      OBVIOUS
    <3>1. PICK m \in Written : Content[m] = Content[n]
      BY <1>3 DEF Honest
    <3>2. m \in Segs
      BY DEF TypeOK, Written
    <3>. QED
      BY <1>1, <3>1, <3>2 DEF Distinct
  <2>5. KeptWhileOpen'
    BY <1>1, <2>1, <2>4 DEF KeptWhileOpen, Written
  <2>. QED
    BY <2>2, <2>3, <2>5
<1>. QED
  BY <1>2, <1>3

(* A closed receiver promises nothing.                                     *)
LEMMA RecvCloseInv == IInv /\ (RecvClose \/ RecvEnd) => IInv'
<1> SUFFICES ASSUME IInv, RecvClose \/ RecvEnd PROVE IInv'
  OBVIOUS
<1> USE DEF IInv, RecvClose, RecvEnd, sendVars
<1>1. relay' \in Seq(Segs \cup {CloseTunnel})
  BY RelayTail DEF TypeOK
<1>2. TypeOK'
  BY <1>1 DEF TypeOK
<1>3. Honest' /\ KeptWhileOpen'
  BY DEF Honest, KeptWhileOpen
<1>. QED
  BY <1>2, <1>3

(* A new, empty filter only forgets.                                       *)
LEMMA OwnSenderInv == IInv /\ OwnSender => IInv'
<1> SUFFICES ASSUME IInv, OwnSender PROVE IInv'
  OBVIOUS
<1> USE DEF IInv, OwnSender, sendVars
<1>1. TypeOK'
  BY DEF TypeOK
<1>2. Honest'
  BY DEF Honest, Written
<1>3. KeptWhileOpen'
  BY DEF KeptWhileOpen, Written, Relayed
<1>. QED
  BY <1>1, <1>2, <1>3

(* The invariant of the reliable-UDP tunnel holds in every reachable       *)
(* state, whatever UDP does.                                               *)
THEOREM Invariance == Spec => []IInv
<1>1. IInv /\ [Next]_vars => IInv'
  <2> SUFFICES ASSUME IInv, [Next]_vars PROVE IInv'
    OBVIOUS
  <2>1. CASE UNCHANGED vars
    <3>1. TypeOK'
      BY <2>1 DEF IInv, TypeOK, vars, sendVars, recvVars
    <3>2. Honest' /\ KeptWhileOpen'
      BY <2>1 DEF IInv, Honest, KeptWhileOpen, Written, Relayed, vars,
         sendVars, recvVars
    <3>. QED
      BY <3>1, <3>2 DEF IInv
  <2>2. CASE Next
    BY <2>2, SendInv, OnACKInv, RetransmitInv, FallbackInv, CloseInv,
       RecvDataInv, WriteDataInv, BridgedInv, RecvRelayInv, RecvCloseInv,
       OwnSenderInv DEF Next
  <2>. QED
    BY <2>1, <2>2
<1>. QED
  BY InitInv, <1>1, PTL DEF Spec

(* Types are kept, and no packet is transmitted more than three times      *)
(* before it goes to the relay.                                            *)
THEOREM TypeCorrect == Spec => []TypeOK
<1>1. IInv => TypeOK
  BY DEF IInv
<1>. QED
  BY <1>1, Invariance, PTL

(* A segment the sender has read is never lost while both ends are open.   *)
THEOREM KeptWhileOpenHolds == Spec => []KeptWhileOpen
<1>1. IInv => KeptWhileOpen
  BY DEF IInv
<1>. QED
  BY <1>1, Invariance, PTL

-----------------------------------------------------------------------------
(* Only what was read from the sender's connection is under way.           *)
OnlyRead ==
  /\ pending \cup data \subseteq 1 .. seq
  /\ Relayed \subseteq (1 .. seq) \cup {CloseTunnel}
  /\ hand \in (1 .. seq) \cup {Nil}

LEMMA OnlyReadStep == TypeOK /\ OnlyRead /\ [Next]_vars => OnlyRead'
<1> SUFFICES ASSUME TypeOK, OnlyRead, [Next]_vars PROVE OnlyRead'
  OBVIOUS
<1>0. seq \in Nat
  BY RutpAssumption DEF TypeOK
<1>1. CASE Send
  <2>1. seq' = seq + 1 /\ 1 .. seq \subseteq 1 .. seq' /\ seq' \in 1 .. seq'
    BY <1>0, <1>1 DEF Send
  <2>2. /\ pending' = pending \cup {seq'} /\ data' = data \cup {seq'}
        /\ hand' = hand /\ Relayed' = Relayed
    BY <1>1, <2>1 DEF Send, Relayed, recvVars
  <2>. QED
    BY <2>1, <2>2 DEF OnlyRead
<1>2. CASE \E n \in Segs : OnACK(n) \/ Retransmit(n) \/ RecvData(n)
  <2>1. /\ seq' = seq /\ pending' \subseteq pending /\ Relayed' = Relayed
        /\ data' \subseteq data \cup pending /\ hand' \in data \cup {hand}
    BY <1>2 DEF OnACK, Retransmit, RecvData, Relayed, recvVars, sendVars
  <2>. QED
    BY <2>1 DEF OnlyRead
<1>3. CASE \E n \in Segs : Fallback(n)
  <2> PICK n \in Segs : Fallback(n)
    BY <1>3
  <2>1. Relayed' = Relayed \cup {n}
    BY RelayAppend DEF Fallback
  <2>. QED
    BY <2>1 DEF OnlyRead, Fallback, recvVars
<1>4. CASE Close \/ LoopExit
  <2>1. Relayed' \subseteq Relayed \cup {CloseTunnel}
    BY <1>4, AppendValues DEF TypeOK, Close, LoopExit, Relayed
  <2>. QED
    BY <1>4, <2>1 DEF OnlyRead, Close, LoopExit, recvVars
<1>5. CASE Bridged \/ RecvRelay \/ RecvClose
  <2>1. Relayed' \subseteq Relayed
    BY <1>5, TailSubset DEF TypeOK, Bridged, RecvRelay, RecvClose, Relayed
  <2>. QED
    BY <1>5, <2>1 DEF OnlyRead, Bridged, RecvRelay, RecvClose, sendVars
<1>6. CASE WriteData \/ RecvEnd \/ OwnSender \/ UNCHANGED vars
  BY <1>6 DEF OnlyRead, Relayed, WriteData, RecvEnd, OwnSender, vars, sendVars,
     recvVars
<1>. QED
  BY <1>1, <1>2, <1>3, <1>4, <1>5, <1>6 DEF Next

(* Every step of the tunnel is a step of the pipe, or changes nothing of   *)
(* it.                                                                     *)
LEMMA PipeStep == TypeOK /\ OnlyRead /\ [Next]_vars => [P!Next]_(P!vars)
<1> SUFFICES ASSUME TypeOK, OnlyRead, [Next]_vars PROVE [P!Next]_(P!vars)
  OBVIOUS
<1>1. CASE Send
  <2>1. P!Take
    BY <1>1 DEF Send, P!Take, Written, recvVars
  <2>. QED
    BY <2>1 DEF P!Next
<1>2. CASE (\E n \in Segs : OnACK(n) \/ Retransmit(n) \/ Fallback(n) \/ RecvData(n))
           \/ LoopExit \/ OwnSender \/ UNCHANGED vars
  <2>1. UNCHANGED <<seq, reading, open, out>>
    BY <1>2 DEF OnACK, Retransmit, Fallback, RecvData, LoopExit, OwnSender,
       vars, recvVars, sendVars
  <2>. QED
    BY <2>1 DEF P!vars, Written
<1>3. CASE Close
  <2>1. P!EndSrc
    BY <1>3 DEF Close, P!EndSrc, Written, recvVars
  <2>. QED
    BY <2>1 DEF P!Next
<1>4. CASE RecvClose \/ RecvEnd
  <2>1. UNCHANGED <<seq, reading, out>> /\ open' = FALSE /\ open \in BOOLEAN
    BY <1>4 DEF RecvClose, RecvEnd, sendVars, TypeOK
  <2>2. open => P!EndDst
    BY <2>1 DEF P!EndDst, Written
  <2>3. ~open => UNCHANGED P!vars
    BY <2>1 DEF P!vars, Written
  <2>. QED
    BY <2>2, <2>3 DEF P!Next
<1>5. ASSUME NEW n \in Segs, n <= seq, open, out' = Append(out, n),
             UNCHANGED <<seq, reading, open>>
      PROVE  P!Next
  <2>1. Written' = Written \cup {n}
    BY <1>5, Write
  <2>2. P!Give(n)
    BY <1>5, <2>1 DEF P!Give
  <2>. QED
    BY <2>2 DEF P!Next, Segs
<1>6. CASE WriteData
  <2>1. hand \in Segs /\ hand <= seq
    BY <1>6 DEF WriteData, TypeOK, OnlyRead
  <2>2. UNCHANGED <<seq, reading, open>>
    BY <1>6 DEF WriteData, sendVars
  <2>3. open \/ UNCHANGED out
    BY <1>6 DEF WriteData
  <2>4. open => out' = Append(out, hand)
    BY <1>6 DEF WriteData
  <2>. QED
    BY <1>5, <2>1, <2>2, <2>3, <2>4 DEF P!vars, Written
<1>7. CASE Bridged \/ RecvRelay
  <2>1. /\ relay # <<>> /\ Head(relay) # CloseTunnel
        /\ UNCHANGED <<seq, reading, open>>
        /\ (open /\ out' = Append(out, Head(relay))) \/ UNCHANGED out
    BY <1>7 DEF Bridged, RecvRelay, sendVars
  <2>2. Head(relay) \in Relayed
    <3>1. relay \in Seq(Segs \cup {CloseTunnel})
      BY DEF TypeOK
    <3>2. 1 \in DOMAIN relay /\ Head(relay) = relay[1]
      BY <2>1, <3>1
    <3>. QED
      BY <3>2 DEF Relayed
  <2>3. Head(relay) \in Segs /\ Head(relay) <= seq
    BY <2>1, <2>2, RutpAssumption DEF OnlyRead, TypeOK, Segs
  <2>. QED
    BY <1>5, <2>1, <2>3 DEF P!vars, Written
<1>. QED
  BY <1>1, <1>2, <1>3, <1>4, <1>6, <1>7 DEF Next

(* The tunnel implements the pipe's steps: only what was read is written,  *)
(* and only while the receiver is open; ends do not open again.            *)
THEOREM RefinesPipe == Spec => P!Safe
<1>1. Init => P!Init
  BY DEF Init, P!Init, Written
<1>2. Init => OnlyRead
  BY DEF Init, OnlyRead, Relayed
<1>3. Spec => []OnlyRead
  BY <1>2, OnlyReadStep, TypeCorrect, PTL DEF Spec
<1>. QED
  BY <1>1, <1>3, PipeStep, TypeCorrect, PTL DEF Spec, P!Safe
=============================================================================
