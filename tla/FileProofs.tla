----------------------------- MODULE FileProofs -----------------------------
(***************************************************************************)
(* Proofs about FileTransfer, for a file of any length and any number of   *)
(* sending goroutines, over UDP or the relay.                              *)
(***************************************************************************)
EXTENDS FileTransfer, TLAPS

Ends == {"S", "R"}

(* What may be on its way to the sender and to the receiver at all, and    *)
(* before the receiver's user has accepted.                                *)
Any   == [x \in Ends |->
            IF x = "S"
              THEN {<<"reject">>, <<"cancel">>} \cup ({"accept"} \X Nat)
                   \cup ({"nack"} \X Nat)
              ELSE {<<"offer">>, <<"cancel">>} \cup ({"stream"} \X G)
                   \cup ({"data"} \X Nat \X Nat) \cup ({"done"} \X Nat)]
Early == [x \in Ends |-> IF x = "S" THEN {<<"reject">>, <<"cancel">>}
                                    ELSE {<<"offer">>, <<"cancel">>}]

Wires(In, u, q) ==
  /\ u = [x \in Ends |-> u[x]] /\ q = [x \in Ends |-> q[x]]
  /\ \A x \in Ends : u[x] \subseteq In[x] /\ q[x] \in Seq(In[x])

Data == disk \in Seq(Nat) /\ pipe \in [G -> Seq(Nat)]

(* Nothing was sent and nothing received before the accept.                *)
Fresh == rStatus \in {"none", "pending"} =>
           /\ hd = "idle" /\ Wires(Early, udp, queue)
           /\ \A g \in G : rx[g] = "none" /\ at[g] = "idle" /\ conn[g] = "none"

(* Where a hash is computed or was found right, nobody writes any more.    *)
Hashing == hd # "idle" \/ \E g \in G : rx[g] \in {"hash", "ok"}
Closed  == Hashing \/ rStatus = "complete" => rFile # "open"

(* The hash that was found right is that of what is stored now.            *)
Right == \/ hd = "ok" \/ rStatus = "complete" \/ \E g \in G : rx[g] = "ok"
Good  == Right => disk = File

IInv == /\ TypeOK /\ Wires(Any, udp, queue) /\ Data
        /\ Fresh /\ Closed /\ Good

-----------------------------------------------------------------------------
(* Messages on their way.                                                  *)

(* Sequences over a set.                                                   *)
LEMMA AppendSeq == ASSUME NEW S, NEW s \in Seq(S), NEW m \in S
                   PROVE  Append(s, m) \in Seq(S)
  OBVIOUS

LEMMA TailSeq == ASSUME NEW S, NEW s \in Seq(S), s # <<>>
                 PROVE  /\ Head(s) \in S /\ Tail(s) \in Seq(S)
                        /\ Len(Tail(s)) <= Len(s)
  OBVIOUS

(* What Send, Relay and a handler that only takes leave on the wires.      *)
LEMMA SendOK ==
  ASSUME NEW In, NEW x \in Ends, NEW m \in In[x], NEW q, Wires(In, udp, q),
         Send(x, m, q) \/ Relay(x, m, q)
  PROVE  Wires(In, udp', queue')
<1>1. q[x] \in Seq(In[x]) /\ udp[x] \subseteq In[x]
  BY DEF Wires
<1>2. Append(q[x], m) \in Seq(In[x]) /\ udp[x] \cup {m} \subseteq In[x]
  BY <1>1, AppendSeq
<1>3. CASE udp' = [udp EXCEPT ![x] = udp[x] \cup {m}] /\ queue' = q
  BY <1>2, <1>3 DEF Wires
<1>4. CASE queue' = [q EXCEPT ![x] = Append(q[x], m)] /\ udp' = udp
  BY <1>2, <1>4 DEF Wires
<1>. QED
  BY <1>3, <1>4 DEF Send, Relay

(* The head of the relay queue, and the queue without it.                  *)
LEMMA RestOK ==
  ASSUME NEW In, NEW x \in Ends, Wires(In, udp, queue), queue[x] # <<>>
  PROVE  Head(queue[x]) \in In[x] /\ Wires(In, udp, Rest(x))
<1>1. queue[x] \in Seq(In[x])
  BY DEF Wires
<1>2. Head(queue[x]) \in In[x] /\ Tail(queue[x]) \in Seq(In[x])
  BY <1>1, TailSeq
<1>. QED
  BY <1>2 DEF Wires, Rest

(* The messages by their first field.                                      *)
LEMMA MessageTypes ==
  /\ \A m \in Any["S"] : /\ m[1] \in {"accept", "nack"} => m[2] \in Nat
                         /\ m[1] \in {"reject", "cancel", "accept", "nack"}
  /\ \A m \in Any["R"] : /\ m[1] = "stream" => m[2] \in G
                         /\ m[1] = "data" => m[2] \in Nat /\ m[3] \in Nat
                         /\ m[1] = "done" => m[2] \in Nat
  /\ \A m \in Early["S"] : m[1] \in {"reject", "cancel"}
  /\ \A m \in Early["R"] : m[1] \in {"offer", "cancel"}
  /\ \A x \in Ends : Early[x] \subseteq Any[x]
<1>1. /\ Any["S"] = {<<"reject">>, <<"cancel">>} \cup ({"accept"} \X Nat)
                    \cup ({"nack"} \X Nat)
      /\ Any["R"] = {<<"offer">>, <<"cancel">>} \cup ({"stream"} \X G)
                    \cup ({"data"} \X Nat \X Nat) \cup ({"done"} \X Nat)
      /\ Early["S"] = {<<"reject">>, <<"cancel">>}
      /\ Early["R"] = {<<"offer">>, <<"cancel">>}
  BY DEF Any, Early, Ends
<1>. QED
  BY <1>1 DEF Ends

(* The messages that are sent.                                             *)
LEMMA SentOK ==
  /\ \A k \in Nat : <<"accept", k>> \in Any["S"] /\ <<"nack", k>> \in Any["S"]
  /\ \A k \in Nat : <<"done", k>> \in Any["R"]
  /\ \A k, l \in Nat : <<"data", k, l>> \in Any["R"]
  /\ \A g \in G : <<"stream", g>> \in Any["R"]
  /\ <<"reject">> \in Early["S"] /\ <<"cancel">> \in Early["S"]
  /\ <<"cancel">> \in Early["R"] /\ <<"offer">> \in Early["R"]
  BY DEF Any, Early, Ends

-----------------------------------------------------------------------------
(* The type invariant by its owners.                                       *)
SType == /\ mode \in Case /\ sStatus \in Status \ {"none"} /\ sFile \in Handle
         /\ sTable \in BOOLEAN /\ sDone \in BOOLEAN
         /\ sBytes \in Nat /\ sPos \in Nat
         /\ nackCh \in Seq(Nat) /\ Len(nackCh) <= NackCap
         /\ at \in [G -> {"idle", "start", "dial", "dialing", "stream",
                          "chunks", "nacks", "fin", "end"}]
         /\ round \in [G -> 0 .. MaxRounds] /\ again \in [G -> BOOLEAN]
RType == /\ rStatus \in Status /\ rFile \in Handle
         /\ rTable \in BOOLEAN /\ rDone \in BOOLEAN /\ rBytes \in 0 .. MaxBytes
         /\ rx \in [G -> {"none", "start", "read", "hash", "ok", "end"}]
         /\ hd \in {"idle", "hash", "ok"} /\ ports \subseteq G
CType == conn \in [G -> {"none", "syn", "est", "fin", "reset"}]

LEMMA TypeParts == TypeOK <=> SType /\ RType /\ CType
  BY DEF TypeOK, SType, RType, CType

(* A step of the sender's: what the receiver keeps is as it was.           *)
LEMMA SenderStep ==
  ASSUME IInv, UNCHANGED rVars, SType', CType', Data',
         Wires(Any, udp', queue'),
         rStatus \in {"none", "pending"} =>
           Wires(Early, udp', queue') /\ UNCHANGED <<at, conn>>
  PROVE  IInv'
<1>1. UNCHANGED <<rStatus, rFile, rBytes, rTable, rDone, disk, ports, rx, hd>>
  BY DEF rVars
<1>2. RType'
  BY <1>1, TypeParts DEF IInv, RType
<1>3. TypeOK'
  BY <1>2, TypeParts DEF TypeOK, SType, RType, CType
<1>4. Wires(Any, udp, queue)'
  BY DEF Wires
<1>5. Fresh'
  BY <1>1 DEF IInv, Fresh, Wires
<1>6. Closed' /\ Good'
  BY <1>1 DEF IInv, Closed, Hashing, Good, Right
<1>. QED
  BY <1>3, <1>4, <1>5, <1>6 DEF IInv

(* A step of the receiver's.                                               *)
LEMMA ReceiverStep ==
  ASSUME IInv, UNCHANGED <<mode, sVars>>, RType', CType', Data',
         Wires(Any, udp', queue'), Fresh', Closed', Good'
  PROVE  IInv'
<1>1. UNCHANGED <<mode, sStatus, sFile, sBytes, sTable, sDone, sPos, nackCh,
                  nacks, round, again, at>>
  BY DEF sVars, xferVars, nackVars
<1>2. SType'
  BY <1>1, TypeParts DEF IInv, SType
<1>3. TypeOK'
  BY <1>2, TypeParts DEF TypeOK, SType, RType, CType
<1>4. Wires(Any, udp, queue)'
  BY DEF Wires
<1>. QED
  BY <1>3, <1>4 DEF IInv

-----------------------------------------------------------------------------
(* The sender's goroutines.  None of them runs before the accept.          *)
LEMMA SenderRuns == ASSUME IInv, NEW g \in G, Sender(g)
                    PROVE  rStatus \notin {"none", "pending"}
<1>1. at[g] # "idle"
  BY DEF Sender, NoStack, Announce, DialTCP, Dialled, DialFailed, StreamUnit,
         StreamEOF, StreamFails, SendDone, SendChunk, ChunksEOF, ChunksFail,
         TakeNack, NackTimeout
<1>. QED
  BY <1>1 DEF IInv, Fresh

LEMMA SenderTypes == ASSUME IInv, NEW g \in G, Sender(g)
                     PROVE  SType' /\ CType' /\ Data' /\ UNCHANGED rVars
<1> USE FileAssumption
<1>0. SType /\ CType /\ Data
  BY TypeParts DEF IInv
<1>1. CASE NoStack(g)
  BY <1>0, <1>1 DEF NoStack, Goto, SType, CType, Data, xferVars, nackVars,
                    tcpVars, rVars
<1>2. CASE Announce(g)
  BY <1>0, <1>2 DEF Announce, Goto, SType, CType, Data, xferVars, nackVars,
                    tcpVars, rVars
<1>3. CASE DialTCP(g)
  BY <1>0, <1>3 DEF DialTCP, Goto, SType, CType, Data, xferVars, nackVars,
                    rVars
<1>4. CASE Dialled(g)
  BY <1>0, <1>4 DEF Dialled, Goto, SType, CType, Data, xferVars, nackVars,
                    rVars
<1>5. CASE DialFailed(g)
  BY <1>0, <1>5 DEF DialFailed, Goto, SType, CType, Data, xferVars, nackVars,
                    rVars
<1>6. CASE StreamUnit(g)
  BY <1>0, <1>6 DEF StreamUnit, SType, CType, Data, nackVars, rVars
<1>7. CASE StreamEOF(g)
  BY <1>0, <1>7 DEF StreamEOF, Goto, SType, CType, Data, xferVars, nackVars,
                    tcpVars, rVars
<1>8. CASE StreamFails(g)
  BY <1>0, <1>8 DEF StreamFails, Goto, Hangup, SType, CType, Data, nackVars,
                    rVars, Status
<1>9. CASE SendDone(g)
  BY <1>0, <1>9 DEF SendDone, Goto, Hangup, SType, CType, Data, nackVars,
                    rVars, Status, Handle
<1>10. CASE SendChunk(g)
  BY <1>0, <1>10 DEF SendChunk, SType, CType, Data, nackVars, tcpVars, rVars
<1>11. CASE ChunksEOF(g)
  BY <1>0, <1>11 DEF ChunksEOF, Goto, SType, CType, Data, xferVars, tcpVars,
                     rVars
<1>12. CASE ChunksFail(g)
  BY <1>0, <1>12 DEF ChunksFail, Goto, SType, CType, Data, nackVars, tcpVars,
                     rVars, Status
<1>13. CASE TakeNack(g)
  <2>1. nackCh \in Seq(Nat) /\ nackCh # <<>> /\ nackCh' = Tail(nackCh)
    BY <1>0, <1>13 DEF TakeNack, SType
  <2>2. /\ Head(nackCh) \in Nat /\ nackCh' \in Seq(Nat)
        /\ Len(nackCh') <= NackCap
    <3>1. /\ Head(nackCh) \in Nat /\ Tail(nackCh) \in Seq(Nat)
          /\ Len(Tail(nackCh)) <= Len(nackCh)
      BY <2>1, TailSeq
    <3>2. Len(nackCh) <= NackCap /\ Len(nackCh) \in Nat /\ Len(Tail(nackCh)) \in Nat
      BY <1>0, <2>1, <3>1 DEF SType
    <3>. QED
      BY <2>1, <3>1, <3>2
  <2>3. sPos' \in Nat
    <3>1. sPos' \in {sPos, Head(nackCh), Head(nackCh) + 1}
      BY <1>13 DEF TakeNack, retransmitChunk, Seek
    <3>2. sPos \in Nat /\ Head(nackCh) + 1 \in Nat
      BY <1>0, <2>2 DEF SType
    <3>. QED
      BY <2>2, <3>1, <3>2
  <2>4. again' \in [G -> BOOLEAN]
    BY <1>0, <1>13 DEF TakeNack, SType
  <2>. QED
    BY <1>0, <1>13, <2>2, <2>3, <2>4 DEF TakeNack, SType, CType, Data,
                                         tcpVars, rVars
<1>14. CASE NackTimeout(g)
  <2>1. round' \in [G -> 0 .. MaxRounds]
    <3>1. round \in [G -> 0 .. MaxRounds]
      BY <1>0 DEF SType
    <3>2. \/ UNCHANGED round
          \/ round[g] > 0 /\ round' = [round EXCEPT ![g] = round[g] - 1]
      BY <1>14 DEF NackTimeout
    <3>. QED
      BY <3>1, <3>2
  <2>2. again' \in [G -> BOOLEAN]
    BY <1>0, <1>14 DEF NackTimeout, SType
  <2>. QED
    BY <1>0, <1>14, <2>1, <2>2 DEF NackTimeout, Goto, SType, CType, Data,
                                   xferVars, tcpVars, rVars
<1>. QED
  BY <1>1, <1>2, <1>3, <1>4, <1>5, <1>6, <1>7, <1>8, <1>9, <1>10, <1>11,
     <1>12, <1>13, <1>14 DEF Sender

LEMMA SenderWires == ASSUME IInv, NEW g \in G, Sender(g)
                     PROVE  Wires(Any, udp', queue')
<1> USE FileAssumption
<1>0. SType /\ Wires(Any, udp, queue) /\ "R" \in Ends
  BY TypeParts DEF IInv, Ends
<1>1. CASE UNCHANGED netVars
  BY <1>0, <1>1 DEF netVars, Wires
<1>2. ASSUME NEW m \in Any["R"], Send("R", m, queue)
      PROVE  Wires(Any, udp', queue')
  BY <1>0, <1>2, SendOK
<1>3. CASE Announce(g)
  BY <1>2, <1>3, SentOK DEF Announce
<1>4. CASE SendDone(g)
  BY <1>0, <1>2, <1>4, SentOK DEF SendDone, SType
<1>5. CASE SendChunk(g)
  <2>1. sPos + 1 \in Nat /\ sBytes \in Nat
    BY <1>0 DEF SType
  <2>. QED
    BY <1>2, <1>5, <2>1, SentOK DEF SendChunk
<1>6. CASE TakeNack(g)
  <2>1. Head(nackCh) \in Nat
    BY <1>0, <1>6, TailSeq DEF TakeNack, SType
  <2>2. \/ UNCHANGED netVars
        \/ Send("R", <<"data", Head(nackCh) + 1, Head(nackCh)>>, queue)
    BY <1>6 DEF TakeNack, retransmitChunk, netVars
  <2>3. Head(nackCh) + 1 \in Nat
    BY <2>1
  <2>. QED
    BY <1>1, <1>2, <2>1, <2>2, <2>3, SentOK
<1>7. CASE NackTimeout(g)
  <2>1. UNCHANGED netVars \/ Send("R", <<"done", N>>, queue)
    BY <1>7 DEF NackTimeout
  <2>. QED
    BY <1>1, <1>2, <2>1, SentOK
<1>. QED
  BY <1>1, <1>3, <1>4, <1>5, <1>6, <1>7
  DEF Sender, NoStack, DialTCP, Dialled, DialFailed, StreamUnit, StreamEOF,
      StreamFails, ChunksEOF, ChunksFail

LEMMA SenderInv == ASSUME IInv, NEW g \in G, Sender(g) PROVE IInv'
  BY SenderRuns, SenderTypes, SenderWires, SenderStep

-----------------------------------------------------------------------------
(* The sender's messages and user.                                         *)
LEMMA HandleSInv ==
  ASSUME IInv, NEW m \in Any["S"], NEW q, Wires(Any, udp, q), HandleS(m, q),
         rStatus \in {"none", "pending"} =>
           m \in Early["S"] /\ Wires(Early, udp, q)
  PROVE  IInv'
<1> USE FileAssumption
<1>0. SType /\ CType /\ Data /\ "R" \in Ends
  BY TypeParts DEF IInv, Ends
<1>1. CASE handleFileAccept(m, q)
  <2>1. m[2] \in Nat /\ rStatus \notin {"none", "pending"}
    BY <1>1, MessageTypes DEF handleFileAccept
  <2>2. sPos' \in Nat /\ sBytes' \in Nat
    BY <1>0, <1>1, <2>1 DEF handleFileAccept, Seek, SType
  <2>3. at' \in [G -> {"idle", "start", "dial", "dialing", "stream",
                       "chunks", "nacks", "fin", "end"}]
    BY <1>0, <1>1 DEF handleFileAccept, SType
  <2>4. SType' /\ CType' /\ Data'
    BY <1>0, <1>1, <2>2, <2>3 DEF handleFileAccept, SType, CType, Data,
                                  nackVars, tcpVars, rVars, Status
  <2>5. Wires(Any, udp', queue')
    BY <1>1 DEF handleFileAccept
  <2>. QED
    BY <1>1, <2>1, <2>4, <2>5, SenderStep DEF handleFileAccept
<1>2. CASE handleFileNack(m, q)
  <2>1. m[2] \in Nat /\ rStatus \notin {"none", "pending"}
    BY <1>2, MessageTypes DEF handleFileNack
  <2>2. nackCh' \in Seq(Nat) /\ Len(nackCh') <= NackCap
    <3>1. nackCh \in Seq(Nat) /\ Len(nackCh) <= NackCap /\ NackCap \in Nat
      BY <1>0 DEF SType
    <3>2. \/ UNCHANGED nackCh
          \/ Len(nackCh) < NackCap /\ nackCh' = Append(nackCh, m[2])
      BY <1>2 DEF handleFileNack
    <3>3. Append(nackCh, m[2]) \in Seq(Nat) /\ Len(Append(nackCh, m[2])) = Len(nackCh) + 1
      BY <2>1, <3>1
    <3>4. Len(nackCh) \in Nat
      BY <3>1
    <3>5. Len(nackCh) < NackCap => Len(nackCh) + 1 <= NackCap
      BY <3>1, <3>4
    <3>. QED
      BY <3>1, <3>2, <3>3, <3>5
  <2>3. sPos' \in Nat
    BY <1>0, <1>2, <2>1 DEF handleFileNack, retransmitChunk, Seek, SType
  <2>4. SType' /\ CType' /\ Data'
    BY <1>0, <1>2, <2>2, <2>3 DEF handleFileNack, SType, CType, Data, tcpVars,
                                  rVars
  <2>5. Wires(Any, udp', queue')
    <3>1. \/ udp' = udp /\ queue' = q
          \/ Send("R", <<"data", m[2] + 1, m[2]>>, q)
      BY <1>2 DEF handleFileNack, retransmitChunk
    <3>2. <<"data", m[2] + 1, m[2]>> \in Any["R"]
      <4>1. m[2] + 1 \in Nat
        BY <2>1
      <4>. QED
        BY <2>1, <4>1, SentOK
    <3>. QED
      BY <1>0, <3>1, <3>2, SendOK
  <2>. QED
    BY <1>2, <2>1, <2>4, <2>5, SenderStep DEF handleFileNack
<1>3. CASE handleFileCancelS(m, q)
  <2>1. SType' /\ CType' /\ Data'
    BY <1>0, <1>3 DEF handleFileCancelS, SType, CType, Data, nackVars, tcpVars,
                      rVars, Status, Handle
  <2>2. udp' = udp /\ queue' = q /\ UNCHANGED <<at, conn>> /\ UNCHANGED rVars
    BY <1>3 DEF handleFileCancelS, tcpVars
  <2>. QED
    BY <2>1, <2>2, SenderStep
<1>. QED
  BY <1>1, <1>2, <1>3 DEF HandleS

LEMMA CancelSInv == ASSUME IInv, CancelS PROVE IInv'
<1>0. SType /\ CType /\ Data /\ "R" \in Ends
  BY TypeParts DEF IInv, Ends
<1>1. SType' /\ CType' /\ Data'
  BY <1>0 DEF CancelS, SType, CType, Data, nackVars, tcpVars, rVars, Status,
              Handle
<1>2. <<"cancel">> \in Any["R"] /\ <<"cancel">> \in Early["R"]
  BY <1>0, SentOK, MessageTypes
<1>3. Wires(Any, udp', queue')
  BY <1>0, <1>2, SendOK DEF CancelS, IInv
<1>4. rStatus \in {"none", "pending"} => Wires(Early, udp', queue')
  BY <1>0, <1>2, SendOK DEF CancelS, IInv, Fresh
<1>. QED
  BY <1>1, <1>3, <1>4, SenderStep DEF CancelS, tcpVars

(* A message is dropped.                                                   *)
LEMMA RelayDropInv == ASSUME IInv, NEW x \in Ends, RelayDrop(x) PROVE IInv'
<1>1. SType' /\ CType' /\ Data'
  BY TypeParts DEF IInv, RelayDrop, sVars, xferVars, nackVars, tcpVars, rVars,
                   SType, CType, Data
<1>2. Wires(Any, udp', queue')
  BY RestOK DEF IInv, RelayDrop
<1>3. rStatus \in {"none", "pending"} => Wires(Early, udp', queue')
  BY RestOK DEF IInv, Fresh, RelayDrop
<1>. QED
  BY <1>1, <1>2, <1>3, SenderStep DEF RelayDrop, sVars, tcpVars

-----------------------------------------------------------------------------
(* Writing.  Nobody writes where a hash was taken.                         *)
LEMMA WrittenOK ==
  ASSUME IInv, NEW unit \in Nat, Written(unit), hd' = hd,
         UNCHANGED <<rStatus, rFile, rx>>
  PROVE  /\ disk' \in Seq(Nat) /\ rBytes' \in 0 .. MaxBytes
         /\ Closed' /\ Good'
<1> USE FileAssumption
<1>1. disk \in Seq(Nat) /\ rBytes \in 0 .. MaxBytes
  BY DEF IInv, Data, TypeOK
<1>2. Append(disk, unit) \in Seq(Nat)
  BY <1>1, AppendSeq
<1>3. disk' \in Seq(Nat)
  BY <1>1, <1>2 DEF Written
<1>4. rBytes' \in 0 .. MaxBytes
  BY <1>1 DEF Written
<1>5. Closed'
  BY DEF IInv, Closed, Hashing
<1>6. Good'
  <2>1. CASE rFile = "open"
    <3>1. ~Right
      BY <2>1 DEF IInv, Closed, Hashing, Right
    <3>. QED
      BY <3>1 DEF Good, Right
  <2>2. CASE rFile # "open"
    BY <2>2 DEF Written, IInv, Good, Right
  <2>. QED
    BY <2>1, <2>2
<1>. QED
  BY <1>3, <1>4, <1>5, <1>6

-----------------------------------------------------------------------------
(* The receiver's messages and user.                                       *)
LEMMA HandleRInv ==
  ASSUME IInv, NEW m \in Any["R"], NEW q, Wires(Any, udp, q), HandleR(m, q),
         rStatus \in {"none", "pending"} =>
           m \in Early["R"] /\ Wires(Early, udp, q)
  PROVE  IInv'
<1> USE FileAssumption
<1>0. RType /\ CType /\ Data /\ Closed /\ Good /\ Fresh /\ "S" \in Ends
  BY TypeParts DEF IInv, Ends
<1>1. CASE handleFileOffer(m, q)
  <2>1. RType' /\ CType' /\ Data'
    BY <1>0, <1>1 DEF handleFileOffer, RType, CType, Data, tcpVars, Status
  <2>2. udp' = udp /\ queue' = q /\ rStatus = "none" /\ rStatus' = "pending"
        /\ UNCHANGED <<hd, rx, at, conn, rFile, disk>>
    BY <1>1 DEF handleFileOffer, tcpVars, sVars
  <2>3. Fresh'
    BY <1>0, <2>2 DEF Fresh, Wires
  <2>4. Closed' /\ Good'
    BY <1>0, <2>2 DEF Closed, Hashing, Good, Right
  <2>. QED
    BY <1>1, <2>1, <2>2, <2>3, <2>4, ReceiverStep DEF handleFileOffer
<1>2. CASE handleFileCancelR(m, q)
  <2>1. RType' /\ CType' /\ Data'
    BY <1>0, <1>2 DEF handleFileCancelR, RType, CType, Data, tcpVars, Status,
                      Handle
  <2>2. udp' = udp /\ queue' = q /\ rStatus' = "error" /\ rFile' = "nil"
        /\ UNCHANGED <<hd, rx, disk>>
    BY <1>2 DEF handleFileCancelR
  <2>3. Fresh' /\ Closed' /\ Good'
    BY <1>0, <2>2 DEF Fresh, Closed, Good, Right
  <2>. QED
    BY <1>2, <2>1, <2>2, <2>3, ReceiverStep DEF handleFileCancelR
<1>3. CASE handleFileStream(m, q)
  <2>1. m[2] \in G
    BY <1>3, MessageTypes DEF handleFileStream
  <2>2. RType' /\ CType' /\ Data'
    BY <1>0, <1>3, <2>1 DEF handleFileStream, RType, CType, Data, tcpVars
  <2>3. udp' = udp /\ queue' = q /\ rStatus = "active"
        /\ UNCHANGED <<hd, rx, disk, rFile, rStatus>>
    BY <1>3 DEF handleFileStream
  <2>4. Fresh' /\ Closed' /\ Good'
    BY <1>0, <2>3 DEF Fresh, Closed, Hashing, Good, Right
  <2>. QED
    BY <1>3, <2>2, <2>3, <2>4, ReceiverStep DEF handleFileStream
<1>4. CASE handleFileData(m, q)
  <2>1. m[2] \in Nat
    BY <1>4, MessageTypes DEF handleFileData
  <2>2. /\ udp' = udp /\ queue' = q /\ rStatus = "active"
        /\ Written(m[2]) /\ hd' = hd /\ UNCHANGED <<rStatus, rFile, rx>>
    BY <1>4 DEF handleFileData
  <2>3. /\ disk' \in Seq(Nat) /\ rBytes' \in 0 .. MaxBytes
        /\ Closed' /\ Good'
    BY <2>1, <2>2, WrittenOK
  <2>4. RType' /\ CType' /\ Data'
    BY <1>0, <1>4, <2>3 DEF handleFileData, RType, CType, Data, tcpVars
  <2>5. Fresh'
    BY <2>2 DEF Fresh
  <2>. QED
    BY <1>4, <2>2, <2>3, <2>4, <2>5, ReceiverStep DEF handleFileData
<1>5. ASSUME m[1] \in {"data", "done"}, NEW k \in Nat,
             Send("S", <<"nack", k>>, q),
             UNCHANGED <<mode, sVars, rVars, tcpVars>>
      PROVE  IInv'
  <2>1. rStatus \notin {"none", "pending"}
    BY <1>5, MessageTypes
  <2>2. Wires(Any, udp', queue')
    BY <1>0, <1>5, SendOK, SentOK
  <2>3. UNCHANGED <<rStatus, rFile, rBytes, rTable, rDone, disk, ports, rx, hd,
                    conn, pipe>>
    BY <1>5 DEF rVars, tcpVars
  <2>4. RType' /\ CType' /\ Data' /\ Fresh' /\ Closed' /\ Good'
    BY <1>0, <2>1, <2>3 DEF RType, CType, Data, Fresh, Closed, Hashing, Good,
                            Right
  <2>. QED
    BY <1>5, <2>2, <2>4, ReceiverStep
<1>6. CASE BadChunk(m, q)
  BY <1>5, <1>6, MessageTypes DEF BadChunk
<1>7. CASE DoneNack(m, q)
  BY <1>0, <1>5, <1>7 DEF DoneNack, RType
<1>8. CASE DoneClose(m, q)
  <2>1. rStatus \notin {"none", "pending"}
    BY <1>8, MessageTypes DEF DoneClose
  <2>2. RType' /\ CType' /\ Data'
    BY <1>0, <1>8 DEF DoneClose, RType, CType, Data, tcpVars, Handle
  <2>3. udp' = udp /\ queue' = q /\ rFile' = "nil" /\ hd' = "hash"
        /\ UNCHANGED <<rx, disk, rStatus>>
    BY <1>8 DEF DoneClose
  <2>4. Fresh' /\ Closed' /\ Good'
    BY <1>0, <2>1, <2>3 DEF Fresh, Closed, Good, Right
  <2>. QED
    BY <1>8, <2>2, <2>3, <2>4, ReceiverStep DEF DoneClose
<1>. QED
  BY <1>1, <1>2, <1>3, <1>4, <1>6, <1>7, <1>8 DEF HandleR

(* The hash handleFileDone computes, and its outcome.                      *)
LEMMA DoneInv == ASSUME IInv, DoneHash \/ DoneComplete PROVE IInv'
<1>0. RType /\ CType /\ Data /\ Closed /\ Good /\ Fresh
  BY TypeParts DEF IInv
<1>1. UNCHANGED <<mode, sVars, rFile, rBytes, rTable, rDone, disk, ports, rx,
                  conn, pipe, udp, queue>>
  BY DEF DoneHash, DoneComplete, tcpVars, netVars
<1>2. \/ hd = "hash" /\ disk = File /\ hd' = "ok" /\ rStatus' = rStatus
      \/ hd = "hash" /\ hd' = "idle" /\ rStatus' = "error"
      \/ hd = "ok" /\ hd' = "idle" /\ rStatus' = "complete"
  BY DEF DoneHash, DoneComplete, hashFile
<1>3. rStatus \notin {"none", "pending"} /\ rFile # "open"
  BY <1>0, <1>2 DEF Fresh, Closed, Hashing
<1>4. RType' /\ CType' /\ Data'
  BY <1>0, <1>1, <1>2 DEF RType, CType, Data, Status
<1>5. Fresh' /\ Closed' /\ Good'
  BY <1>0, <1>1, <1>2, <1>3 DEF Fresh, Closed, Good, Right
<1>6. Wires(Any, udp', queue')
  BY <1>1 DEF IInv
<1>. QED
  BY <1>1, <1>4, <1>5, <1>6, ReceiverStep

(* The file is opened only before anything could have been hashed.         *)
LEMMA AcceptInv == ASSUME IInv, AcceptFile PROVE IInv'
<1> USE FileAssumption
<1>0. RType /\ CType /\ Data /\ Closed /\ Good /\ Fresh /\ "S" \in Ends
  BY TypeParts DEF IInv, Ends
<1>1. PICK offset :
        /\ offset = IF Len(disk) < N THEN Len(disk) ELSE 0
        /\ rTable /\ rStatus = "pending"
        /\ disk' = disk \/ disk' = <<>>
        /\ rFile' = "open" /\ rStatus' = "active" /\ rBytes' = offset
        /\ Send("S", <<"accept", offset>>, queue)
        /\ UNCHANGED <<mode, sVars, rTable, rDone, ports, rx, hd, tcpVars>>
  BY DEF AcceptFile
<1>2. offset \in Nat /\ offset \in 0 .. MaxBytes
  <2>1. Len(disk) \in Nat
    BY <1>0 DEF Data
  <2>. QED
    BY <1>1, <2>1
<1>3. disk' \in Seq(Nat)
  <2>1. disk \in Seq(Nat) /\ <<>> \in Seq(Nat)
    BY <1>0 DEF Data
  <2>. QED
    BY <1>1, <2>1
<1>4. RType' /\ CType' /\ Data'
  BY <1>0, <1>1, <1>2, <1>3 DEF RType, CType, Data, tcpVars, Status, Handle
<1>5. Wires(Any, udp', queue')
  BY <1>0, <1>1, <1>2, SendOK, SentOK DEF IInv
<1>6. hd = "idle" /\ \A g \in G : rx[g] = "none"
  BY <1>0, <1>1 DEF Fresh
<1>7. Fresh' /\ Closed' /\ Good'
  BY <1>1, <1>6 DEF Fresh, Closed, Hashing, Good, Right
<1>. QED
  BY <1>1, <1>4, <1>5, <1>7, ReceiverStep

LEMMA UserInv == ASSUME IInv, RejectFile \/ CancelR PROVE IInv'
<1>0. RType /\ CType /\ Data /\ Closed /\ Good /\ Fresh /\ "S" \in Ends
  BY TypeParts DEF IInv, Ends
<1>1. PICK m \in {<<"reject">>, <<"cancel">>} :
        /\ Relay("S", m, queue)
        /\ UNCHANGED <<mode, sVars, rBytes, disk, ports, rx, hd, conn, pipe>>
        /\ rTable' = FALSE /\ rDone' = TRUE
        /\ rStatus' = rStatus \/ rStatus' = "error"
        /\ rFile' = rFile \/ rFile' = "closed"
  BY DEF RejectFile, CancelR, tcpVars
<1>2. m \in Early["S"] /\ m \in Any["S"]
  BY <1>0, SentOK, MessageTypes
<1>3. RType' /\ CType' /\ Data'
  BY <1>0, <1>1 DEF RType, CType, Data, Status, Handle
<1>4. Wires(Any, udp', queue')
  BY <1>0, <1>1, <1>2, SendOK DEF IInv
<1>5. Fresh'
  <2> SUFFICES ASSUME rStatus' \in {"none", "pending"}
               PROVE  /\ hd' = "idle" /\ Wires(Early, udp, queue)'
                      /\ \A g \in G : /\ rx'[g] = "none" /\ at'[g] = "idle"
                                      /\ conn'[g] = "none"
    BY DEF Fresh
  <2>1. rStatus \in {"none", "pending"}
    BY <1>1
  <2>2. Wires(Early, udp', queue')
    BY <1>0, <1>1, <1>2, <2>1, SendOK DEF Fresh
  <2>3. Wires(Early, udp, queue)'
    BY <2>2 DEF Wires
  <2>. QED
    BY <1>0, <1>1, <2>1, <2>3 DEF Fresh, sVars
<1>6. Closed' /\ Good'
  BY <1>0, <1>1 DEF Closed, Hashing, Good, Right
<1>. QED
  BY <1>1, <1>3, <1>4, <1>5, <1>6, ReceiverStep

-----------------------------------------------------------------------------
(* The receiver's streams.                                                 *)
LEMMA StreamInv == ASSUME IInv, NEW g \in G, Stream(g) PROVE IInv'
<1> USE FileAssumption
<1>0. RType /\ CType /\ Data /\ Closed /\ Good /\ Fresh
  BY TypeParts DEF IInv
<1>1. rStatus \notin {"none", "pending"}
  BY <1>0 DEF Fresh, Stream, handleIncoming, StreamStart, StreamRecv,
              StreamEnd, StreamHash, StreamComplete
<1>2. UNCHANGED <<mode, sVars, udp, queue, rTable, rDone, hd>>
  BY DEF Stream, handleIncoming, StreamStart, StreamRecv, StreamEnd,
         StreamHash, StreamComplete, netVars
<1>3. Wires(Any, udp', queue')
  BY <1>2 DEF IInv
<1>4. ASSUME RType', CType', Data', Closed', Good',
             rStatus' \in {rStatus, "error", "complete"}
      PROVE  IInv'
  <2>1. Fresh'
    BY <1>1, <1>4 DEF Fresh
  <2>. QED
    BY <1>2, <1>3, <1>4, <2>1, ReceiverStep
<1>5. CASE handleIncoming(g)
  <2>1. RType' /\ CType' /\ Data'
    BY <1>0, <1>5 DEF handleIncoming, RType, CType, Data
  <2>2. Closed' /\ Good'
    BY <1>0, <1>5 DEF handleIncoming, RType, Closed, Hashing, Good, Right
  <2>. QED
    BY <1>4, <1>5, <2>1, <2>2 DEF handleIncoming
<1>6. CASE StreamStart(g)
  <2>1. RType' /\ CType' /\ Data'
    BY <1>0, <1>6 DEF StreamStart, RType, CType, Data
  <2>2. Closed' /\ Good'
    BY <1>0, <1>6 DEF StreamStart, RType, Closed, Hashing, Good, Right
  <2>. QED
    BY <1>4, <1>6, <2>1, <2>2 DEF StreamStart
<1>7. CASE StreamRecv(g)
  <2>1. Head(pipe[g]) \in Nat /\ Tail(pipe[g]) \in Seq(Nat)
    BY <1>0, <1>7, TailSeq DEF StreamRecv, Data
  <2>2. /\ disk' \in Seq(Nat) /\ rBytes' \in 0 .. MaxBytes
        /\ Closed' /\ Good'
    <3>1. PICK unit \in Nat : unit = Head(pipe[g])
      BY <2>1
    <3>. QED
      BY <1>2, <1>7, <3>1, WrittenOK DEF StreamRecv
  <2>3. RType' /\ CType' /\ Data'
    BY <1>0, <1>2, <1>7, <2>1, <2>2 DEF StreamRecv, RType, CType, Data
  <2>. QED
    BY <1>4, <1>7, <2>2, <2>3 DEF StreamRecv
<1>8. CASE StreamEnd(g)
  <2>1. RType' /\ CType' /\ Data'
    BY <1>0, <1>8 DEF StreamEnd, RType, CType, Data, Handle
  <2>2. Closed' /\ Good'
    BY <1>0, <1>8 DEF StreamEnd, RType, Closed, Good, Right
  <2>. QED
    BY <1>4, <1>8, <2>1, <2>2 DEF StreamEnd
<1>9. CASE StreamHash(g) \/ StreamComplete(g)
  <2>1. UNCHANGED <<rFile, rBytes, disk, ports, conn, pipe>>
    BY <1>9 DEF StreamHash, StreamComplete, tcpVars
  <2>2. \/ /\ rx[g] = "hash" /\ disk = File /\ rStatus' = rStatus
           /\ rx' = [rx EXCEPT ![g] = "ok"]
        \/ /\ rx[g] = "hash" /\ rStatus' = "error"
           /\ rx' = [rx EXCEPT ![g] = "end"]
        \/ /\ rx[g] = "ok" /\ rStatus' = "complete"
           /\ rx' = [rx EXCEPT ![g] = "end"]
    BY <1>9 DEF StreamHash, StreamComplete, hashFile
  <2>3. rFile # "open" /\ rx \in [G -> {"none", "start", "read", "hash", "ok", "end"}]
    BY <1>0, <2>2 DEF Closed, Hashing, RType
  <2>4. RType' /\ CType' /\ Data'
    BY <1>0, <1>2, <2>1, <2>2 DEF RType, CType, Data, Status
  <2>5. Closed'
    BY <2>1, <2>3 DEF Closed
  <2>6. Good'
    BY <1>0, <1>2, <2>1, <2>2, <2>3 DEF Good, Right
  <2>. QED
    BY <1>4, <2>2, <2>4, <2>5, <2>6
<1>. QED
  BY <1>5, <1>6, <1>7, <1>8, <1>9 DEF Stream

-----------------------------------------------------------------------------
LEMMA InitInv == Init => IInv
<1> USE FileAssumption
<1> SUFFICES ASSUME Init PROVE IInv
  OBVIOUS
<1>0. mode \in Case /\ mode.found \in Seq(0 .. N)
  BY DEF Init, Case
<1>1. TypeOK
  <2>0. NackCap \in Nat /\ MaxRounds \in Nat /\ MaxBytes \in Nat
    OBVIOUS
  <2>1. SType
    <3>1. nackCh \in Seq(Nat) /\ Len(nackCh) = 0
      BY DEF Init
    <3>2. /\ at \in [G -> {"idle", "start", "dial", "dialing", "stream",
                           "chunks", "nacks", "fin", "end"}]
          /\ round \in [G -> 0 .. MaxRounds] /\ again \in [G -> BOOLEAN]
      BY <2>0 DEF Init
    <3>3. /\ sStatus \in Status \ {"none"} /\ sFile \in Handle
          /\ sTable \in BOOLEAN /\ sDone \in BOOLEAN
          /\ sBytes \in Nat /\ sPos \in Nat
      BY DEF Init, Status, Handle
    <3>4. Len(nackCh) <= NackCap
      BY <2>0, <3>1
    <3>. QED
      BY <1>0, <3>1, <3>2, <3>3, <3>4 DEF SType
  <2>2. RType
    <3>1. rx \in [G -> {"none", "start", "read", "hash", "ok", "end"}]
      BY DEF Init
    <3>2. rBytes \in 0 .. MaxBytes
      BY <2>0 DEF Init
    <3>. QED
      BY <3>1, <3>2 DEF Init, RType, Status, Handle
  <2>3. CType
    BY DEF Init, CType
  <2>. QED
    BY <2>1, <2>2, <2>3, TypeParts
<1>2. Wires(Early, udp, queue)
  <2>1. <<"offer">> \in Early["R"]
    BY SentOK
  <2>2. << <<"offer">> >> \in Seq(Early["R"]) /\ \A x \in Ends : <<>> \in Seq(Early[x])
    <3>1. ASSUME NEW S, NEW m \in S PROVE <<m>> \in Seq(S)
      OBVIOUS
    <3>2. \A x \in Ends : <<>> \in Seq(Early[x])
      OBVIOUS
    <3>3. << <<"offer">> >> \in Seq(Early["R"])
      BY <2>1, <3>1
    <3>. QED
      BY <3>2, <3>3
  <2>. QED
    BY <2>1, <2>2 DEF Init, Wires, Ends
<1>3. Wires(Any, udp, queue)
  <2>1. \A x \in Ends : Early[x] \subseteq Any[x]
    BY MessageTypes
  <2>2. ASSUME NEW A, NEW B, A \subseteq B, NEW s \in Seq(A) PROVE s \in Seq(B)
    BY <2>2
  <2>3. \A x \in Ends : queue[x] \in Seq(Any[x])
    BY <1>2, <2>1, <2>2 DEF Wires
  <2>. QED
    BY <1>2, <2>1, <2>3 DEF Wires
<1>4. Data
  <2>1. disk \in Seq(Nat)
    <3>1. disk \in Seq(0 .. N) /\ 0 .. N \subseteq Nat
      BY <1>0 DEF Init
    <3>. QED
      BY <3>1
  <2>2. pipe \in [G -> Seq(Nat)]
    BY DEF Init
  <2>. QED
    BY <2>1, <2>2 DEF Data
<1>5. Fresh
  BY <1>2 DEF Init, Fresh
<1>6. Closed /\ Good
  BY DEF Init, Closed, Hashing, Good, Right
<1>. QED
  BY <1>1, <1>3, <1>4, <1>5, <1>6 DEF IInv

LEMMA NextInv == IInv /\ [Next]_vars => IInv'
<1> SUFFICES ASSUME IInv, [Next]_vars PROVE IInv'
  OBVIOUS
<1>0. /\ "S" \in Ends /\ "R" \in Ends /\ Wires(Any, udp, queue)
      /\ rStatus \in {"none", "pending"} => Wires(Early, udp, queue)
  BY DEF Ends, IInv, Fresh
<1>1. CASE UNCHANGED vars
  <2>1. UNCHANGED <<mode, sVars, rStatus, rFile, rBytes, rTable, rDone, disk,
                    ports, rx, hd, conn, pipe, udp, queue, at>>
    BY <1>1 DEF vars, rVars, tcpVars, netVars, sVars
  <2>2. RType' /\ CType' /\ Data' /\ Closed' /\ Good'
    BY <2>1, TypeParts DEF IInv, RType, CType, Data, Closed, Hashing, Good,
                           Right
  <2>3. Fresh' /\ Wires(Any, udp', queue')
    BY <2>1 DEF IInv, Fresh, Wires
  <2>. QED
    BY <2>1, <2>2, <2>3, ReceiverStep
<1>2. ASSUME NEW m \in udp["R"], HandleR(m, queue) PROVE IInv'
  <2>1. /\ m \in Any["R"]
        /\ rStatus \in {"none", "pending"} => m \in Early["R"]
    BY <1>0 DEF Wires
  <2>. QED
    BY <1>0, <1>2, <2>1, HandleRInv
<1>3. ASSUME queue["R"] # <<>>, HandleR(Head(queue["R"]), Rest("R")) PROVE IInv'
  <2>1. Head(queue["R"]) \in Any["R"] /\ Wires(Any, udp, Rest("R"))
    BY <1>0, <1>3, RestOK
  <2>2. rStatus \in {"none", "pending"} =>
          Head(queue["R"]) \in Early["R"] /\ Wires(Early, udp, Rest("R"))
    BY <1>0, <1>3, RestOK
  <2>3. PICK m, q : m = Head(queue["R"]) /\ m \in Any["R"] /\ q = Rest("R")
    BY <2>1
  <2>. QED
    BY <1>3, <2>1, <2>2, <2>3, HandleRInv
<1>4. ASSUME NEW m \in udp["S"], HandleS(m, queue) PROVE IInv'
  <2>1. /\ m \in Any["S"]
        /\ rStatus \in {"none", "pending"} => m \in Early["S"]
    BY <1>0 DEF Wires
  <2>. QED
    BY <1>0, <1>4, <2>1, HandleSInv
<1>5. ASSUME queue["S"] # <<>>, HandleS(Head(queue["S"]), Rest("S")) PROVE IInv'
  <2>1. Head(queue["S"]) \in Any["S"] /\ Wires(Any, udp, Rest("S"))
    BY <1>0, <1>5, RestOK
  <2>2. rStatus \in {"none", "pending"} =>
          Head(queue["S"]) \in Early["S"] /\ Wires(Early, udp, Rest("S"))
    BY <1>0, <1>5, RestOK
  <2>. QED
    BY <1>5, <2>1, <2>2, HandleSInv
<1>6. CASE \E x \in {"S", "R"} : RelayDrop(x)
  BY <1>6, RelayDropInv DEF Ends
<1>7. CASE AcceptFile \/ RejectFile \/ CancelR \/ CancelS
  BY <1>7, AcceptInv, UserInv, CancelSInv
<1>8. CASE DoneHash \/ DoneComplete
  BY <1>8, DoneInv
<1>9. CASE \E g \in G : Stream(g) \/ Sender(g)
  BY <1>9, StreamInv, SenderInv
<1>. QED
  BY <1>1, <1>2, <1>3, <1>4, <1>5, <1>6, <1>7, <1>8, <1>9 DEF Next

(* The inductive invariant holds in every reachable state.                 *)
THEOREM Invariance == Spec => []IInv
  BY InitInv, NextInv, PTL DEF Spec

(* Every variable keeps its type, and NackCh never holds more than its     *)
(* capacity (filetransfer.go:1111), for files of any length.               *)
THEOREM TypeCorrect == Spec => []TypeOK
<1>1. IInv => TypeOK
  BY DEF IInv
<1>. QED
  BY <1>1, Invariance, PTL

(* A transfer the receiver calls complete left exactly the offered file at *)
(* savePath (handleFileDone, filetransfer.go:618; receiveFileStream,       *)
(* forward_netstack.go:338), for every file, every number of goroutines of *)
(* the sender and of streams, and every loss, repetition and reordering.   *)
THEOREM VerifiedHolds == Spec => []Verified
<1>1. IInv => Verified
  BY DEF IInv, Good, Right, Verified
<1>. QED
  BY <1>1, Invariance, PTL

(* Once complete, a transfer changes its status only by a cancel or        *)
(* reject: no second verification, of a repeated file_done or of another   *)
(* stream, comes to another result.                                        *)
THEOREM CompleteIsFinalHolds == Spec => CompleteIsFinal
<1>1. IInv /\ [Next]_vars =>
        [rStatus = "complete" /\ rStatus' # "complete" => rDone']_vars
  <2> SUFFICES ASSUME IInv, [Next]_vars, rStatus = "complete",
                      rStatus' # "complete"
               PROVE  rDone'
    OBVIOUS
  <2>1. disk = File
    BY DEF IInv, Good, Right
  <2>2. ASSUME NEW m, NEW q, HandleR(m, q) PROVE rDone'
    BY <2>2 DEF HandleR, handleFileOffer, handleFileCancelR, handleFileStream,
                handleFileData, BadChunk, DoneNack, DoneClose, rVars
  <2>3. ASSUME NEW m, NEW q, HandleS(m, q) PROVE FALSE
    BY <2>3 DEF HandleS, handleFileAccept, handleFileNack, handleFileCancelS,
                rVars
  <2>4. ASSUME NEW g \in G, Stream(g) PROVE FALSE
    BY <2>1, <2>4 DEF Stream, handleIncoming, StreamStart, StreamRecv,
                      StreamEnd, StreamHash, StreamComplete, hashFile
  <2>5. ASSUME NEW g \in G, Sender(g) PROVE FALSE
    BY <2>5, SenderTypes DEF rVars
  <2>6. CASE UNCHANGED vars \/ \E x \in {"S", "R"} : RelayDrop(x)
    BY <2>6 DEF vars, rVars, RelayDrop
  <2>7. CASE AcceptFile \/ RejectFile \/ CancelR \/ CancelS
    BY <2>7 DEF AcceptFile, RejectFile, CancelR, CancelS, rVars
  <2>8. CASE DoneHash \/ DoneComplete
    BY <2>1, <2>8 DEF DoneHash, DoneComplete, hashFile
  <2>. QED
    BY <2>2, <2>3, <2>4, <2>5, <2>6, <2>7, <2>8 DEF Next
<1>. QED
  BY <1>1, Invariance, PTL DEF Spec, CompleteIsFinal
=============================================================================
