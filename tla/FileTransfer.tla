---------------------------- MODULE FileTransfer ----------------------------
(***************************************************************************)
(* One file transfer between a sender S and a receiver R                   *)
(* (client/core/filetransfer.go and the file part of forward_netstack.go). *)
(*                                                                         *)
(* R accepts an offer and S streams the file over a TCP connection of the  *)
(* netstack or, when that cannot be set up, sends it in chunks.  Offer,    *)
(* accept, stream, data, done and nack go by UDP ("p2p") or by the relay;  *)
(* reject and cancel always by the relay.  A UDP message once sent may     *)
(* arrive never, once or many times, in any order; the relay keeps order   *)
(* and drops.  TCP delivers in order until it breaks.                      *)
(*                                                                         *)
(* A file is N units of data; a unit is what one read returns.  Every      *)
(* accept that arrives starts a goroutine of S, and all of them share the  *)
(* transfer's *os.File; each has its own TCP connection.                   *)
(***************************************************************************)
EXTENDS Integers, Sequences

CONSTANTS N,          \* length of the file
          Cases,      \* the environments of the transfer (see Case)
          MaxSenders, \* bound: goroutines of S
          NackCap,    \* capacity of NackCh (256)
          MaxRounds,  \* 5
          MaxBytes    \* bound: units R takes from the network

G    == 1 .. MaxSenders
File == [i \in 1 .. N |-> i]

(* PeerMode of both sides, what R finds at savePath, and bounds: accepts   *)
(* and nacks that S handles, and who may cancel.                           *)
Case == [path : {"p2p", "relay"}, found : Seq(0 .. N), senders : G,
         nacks : Nat, cancels : SUBSET {"S", "R"}]

ASSUME FileAssumption ==
  /\ {N, MaxSenders, NackCap, MaxRounds, MaxBytes} \subseteq Nat
  /\ N > 0 /\ N <= MaxBytes + 1
  /\ Cases \subseteq Case

VARIABLES
  mode,      \* the case of this behaviour
  sStatus, sFile, sBytes, sTable, sDone,   \* S: fields of its transfer
  sPos,      \* S: position of the shared file
  nackCh,    \* S: NackCh, offsets
  nacks,     \* nacks handled so far
  at,        \* S: where each goroutine is
  round,     \* S: rounds of retransmitNacks left
  again,     \* S: retransmitted > 0 in this round
  conn,      \* the TCP connection of each goroutine
  pipe,      \* what is on that connection
  rStatus, rFile, rBytes, rTable, rDone,   \* R: fields of its transfer
  disk,      \* what is stored at savePath
  ports,     \* R: filePortMap
  rx,        \* R: receiveFileStream of each connection
  hd,        \* R: where handleFileDone is
  udp,       \* UDP messages ever sent, by receiver
  queue      \* messages on the relay, by receiver

xferVars == <<sStatus, sFile, sBytes, sTable, sDone, sPos>>
nackVars == <<nackCh, nacks, round, again>>
sVars    == <<xferVars, nackVars, at>>
rVars    == <<rStatus, rFile, rBytes, rTable, rDone, disk, ports, rx, hd>>
tcpVars  == <<conn, pipe>>
netVars  == <<udp, queue>>
vars     == <<mode, sVars, rVars, tcpVars, netVars>>

Init ==
  /\ mode \in Cases
  /\ sStatus = "pending" /\ sFile = "open" /\ sBytes = 0
  /\ sTable = TRUE /\ sDone = FALSE /\ sPos = 0
  /\ nackCh = <<>> /\ nacks = 0
  /\ at = [g \in G |-> "idle"] /\ round = [g \in G |-> 0]
  /\ again = [g \in G |-> FALSE]
  /\ conn = [g \in G |-> "none"] /\ pipe = [g \in G |-> <<>>]
  /\ rStatus = "none" /\ rFile = "nil" /\ rBytes = 0
  /\ rTable = FALSE /\ rDone = FALSE
  /\ disk = mode.found
  /\ ports = {} /\ rx = [g \in G |-> "none"] /\ hd = "idle"
  /\ udp = [x \in {"S", "R"} |->
              IF mode.path = "p2p" /\ x = "R" THEN {<<"offer">>} ELSE {}]
  /\ queue = [x \in {"S", "R"} |->
                IF mode.path = "relay" /\ x = "R" THEN << <<"offer">> >> ELSE <<>>]

(* The SHA-256 of what is stored is that of the offer.                     *)
hashFile == disk = File

-----------------------------------------------------------------------------
(* Messages.  A handler gets a message m and q, the relay without it.  A   *)
(* message no handler takes is as good as dropped.                         *)

(* sendViaP2P, and sendFileP2P with its fallback.                          *)
Send(x, m, q) ==
  IF mode.path = "p2p"
    THEN udp' = [udp EXCEPT ![x] = @ \cup {m}] /\ queue' = q
    ELSE queue' = [q EXCEPT ![x] = Append(@, m)] /\ UNCHANGED udp

Relay(x, m, q) == queue' = [q EXCEPT ![x] = Append(@, m)] /\ UNCHANGED udp

Rest(x) == [queue EXCEPT ![x] = Tail(@)]

RelayDrop(x) ==
  /\ queue[x] # <<>>
  /\ queue' = Rest(x)
  /\ UNCHANGED <<mode, sVars, rVars, tcpVars, udp>>

-----------------------------------------------------------------------------
(* The receiver's messages and user.  An offer that the settings refuse is *)
(* answered without its ID, which S ignores: as if it were lost.           *)

(* Bound: the offer is handled once.                                       *)
handleFileOffer(m, q) ==
  /\ m[1] = "offer" /\ rStatus = "none" /\ hd = "idle"
  /\ rStatus' = "pending" /\ rTable' = TRUE
  /\ queue' = q
  /\ UNCHANGED <<mode, sVars, rFile, rBytes, rDone, disk, ports, rx, hd,
                 tcpVars, udp>>

(* A shorter file at savePath is taken for the beginning of this one.      *)
AcceptFile ==
  LET offset == IF Len(disk) < N THEN Len(disk) ELSE 0
  IN /\ rTable /\ rStatus = "pending"
     /\ disk' = IF offset > 0 THEN disk ELSE <<>>
     /\ rFile' = "open" /\ rStatus' = "active" /\ rBytes' = offset
     /\ Send("S", <<"accept", offset>>, queue)
     /\ UNCHANGED <<mode, sVars, rTable, rDone, ports, rx, hd, tcpVars>>

(* The user is asked about a pending transfer only.                        *)
RejectFile ==
  /\ rTable /\ rStatus = "pending"
  /\ rTable' = FALSE /\ rDone' = TRUE
  /\ Relay("S", <<"reject">>, queue)
  /\ UNCHANGED <<mode, sVars, rStatus, rFile, rBytes, disk, ports, rx, hd,
                 tcpVars>>

CancelR ==
  /\ rTable /\ "R" \in mode.cancels
  /\ rTable' = FALSE /\ rDone' = TRUE /\ rStatus' = "error"
  /\ rFile' = IF rFile = "nil" THEN "nil" ELSE "closed"
  /\ Relay("S", <<"cancel">>, queue)
  /\ UNCHANGED <<mode, sVars, rBytes, disk, ports, rx, hd, tcpVars>>

handleFileCancelR(m, q) ==
  /\ m[1] = "cancel" /\ rTable
  /\ hd = "idle" \/ mode.path = "p2p"
  /\ rTable' = FALSE /\ rDone' = TRUE /\ rStatus' = "error" /\ rFile' = "nil"
  /\ queue' = q
  /\ UNCHANGED <<mode, sVars, rBytes, disk, ports, rx, hd, tcpVars, udp>>

handleFileStream(m, q) ==
  /\ m[1] = "stream" /\ rTable /\ rStatus = "active" /\ hd = "idle"
  /\ ports' = ports \cup {m[2]}
  /\ queue' = q
  /\ UNCHANGED <<mode, sVars, rStatus, rFile, rBytes, rTable, rDone, disk, rx,
                 hd, tcpVars, udp>>

(* Data is appended; a write to a closed file fails but is counted.        *)
Written(unit) ==
  /\ rBytes < MaxBytes
  /\ rBytes' = rBytes + 1
  /\ disk' = IF rFile = "open" THEN Append(disk, unit) ELSE disk

(* handleFileData and processFileDataP2P, writeFileChunk.                  *)
handleFileData(m, q) ==
  /\ m[1] = "data" /\ rTable /\ hd = "idle"
  /\ rFile # "nil" /\ rStatus = "active"
  /\ Written(m[2])
  /\ queue' = q
  /\ UNCHANGED <<mode, sVars, rStatus, rFile, rTable, rDone, ports, rx, hd,
                 tcpVars, udp>>

(* The same, when the CRC does not match.                                  *)
BadChunk(m, q) ==
  /\ m[1] = "data" /\ rTable /\ hd = "idle"
  /\ Send("S", <<"nack", m[3]>>, q)
  /\ UNCHANGED <<mode, sVars, rVars, tcpVars>>

(* handleFileDone: something is missing ...                                *)
DoneNack(m, q) ==
  /\ m[1] = "done" /\ rTable /\ hd = "idle" /\ rBytes < m[2]
  /\ Send("S", <<"nack", rBytes>>, q)
  /\ UNCHANGED <<mode, sVars, rVars, tcpVars>>

(* Mutant: the file stays open while its hash is computed.                 *)
MutDoneClose(m, q) ==
  /\ m[1] = "done" /\ rTable /\ hd = "idle" /\ rBytes >= m[2]
  /\ hd' = "hash"
  /\ queue' = q
  /\ UNCHANGED <<mode, sVars, rStatus, rFile, rBytes, rTable, rDone, disk,
                 ports, rx, tcpVars, udp>>

(* ... or enough bytes were counted: the file is closed, hashed and the    *)
(* outcome recorded, in three steps.  FilePath is set: S sends nothing     *)
(* before the accept, and N > 0.                                           *)
DoneClose(m, q) ==
  /\ m[1] = "done" /\ rTable /\ hd = "idle" /\ rBytes >= m[2]
  /\ rFile' = "nil" /\ hd' = "hash"
  /\ queue' = q
  /\ UNCHANGED <<mode, sVars, rStatus, rBytes, rTable, rDone, disk, ports, rx,
                 tcpVars, udp>>

DoneHash ==
  /\ hd = "hash"
  /\ hd' = IF hashFile THEN "ok" ELSE "idle"
  /\ rStatus' = IF hashFile THEN rStatus ELSE "error"
  /\ UNCHANGED <<mode, sVars, rFile, rBytes, rTable, rDone, disk, ports, rx,
                 tcpVars, netVars>>

DoneComplete ==
  /\ hd = "ok"
  /\ hd' = "idle" /\ rStatus' = "complete"
  /\ UNCHANGED <<mode, sVars, rFile, rBytes, rTable, rDone, disk, ports, rx,
                 tcpVars, netVars>>

-----------------------------------------------------------------------------
(* The receiver's streams.                                                 *)

handleIncoming(g) ==
  /\ conn[g] = "syn"
  /\ conn' = [conn EXCEPT ![g] = IF g \in ports THEN "est" ELSE "reset"]
  /\ rx' = [rx EXCEPT ![g] = IF g \in ports THEN "start" ELSE @]
  /\ ports' = ports \ {g}
  /\ UNCHANGED <<mode, sVars, rStatus, rFile, rBytes, rTable, rDone, disk, hd,
                 pipe, netVars>>

StreamStart(g) ==
  /\ rx[g] = "start"
  /\ rx' = [rx EXCEPT ![g] = IF rFile = "nil" THEN "end" ELSE "read"]
  /\ conn' = [conn EXCEPT ![g] = IF rFile = "nil" THEN "reset" ELSE @]
  /\ UNCHANGED <<mode, sVars, rStatus, rFile, rBytes, rTable, rDone, disk,
                 ports, hd, pipe, netVars>>

StreamRecv(g) ==
  /\ rx[g] = "read" /\ pipe[g] # <<>>
  /\ Written(Head(pipe[g]))
  /\ pipe' = [pipe EXCEPT ![g] = Tail(@)]
  /\ UNCHANGED <<mode, sVars, rStatus, rFile, rTable, rDone, ports, rx, hd,
                 conn, netVars>>

(* Mutant: a stream whose file is closed already reports an error.         *)
MutStreamEnd(g) ==
  /\ rx[g] = "read"
  /\ conn[g] = "fin" => pipe[g] = <<>>
  /\ rFile' = "nil"
  /\ rx' = [rx EXCEPT ![g] = IF rFile = "nil" THEN "end" ELSE "hash"]
  /\ rStatus' = IF rFile = "nil" THEN "error" ELSE rStatus
  /\ conn' = [conn EXCEPT ![g] = "reset"]
  /\ pipe' = [pipe EXCEPT ![g] = <<>>]
  /\ UNCHANGED <<mode, sVars, rBytes, rTable, rDone, disk, ports, hd, netVars>>

(* The connection ended, broke or was silent for 60 seconds.               *)
StreamEnd(g) ==
  /\ rx[g] = "read"
  /\ conn[g] = "fin" => pipe[g] = <<>>
  /\ rFile' = "nil"
  /\ rx' = [rx EXCEPT ![g] = "hash"]
  /\ conn' = [conn EXCEPT ![g] = "reset"]
  /\ pipe' = [pipe EXCEPT ![g] = <<>>]
  /\ UNCHANGED <<mode, sVars, rStatus, rBytes, rTable, rDone, disk, ports, hd,
                 netVars>>

StreamHash(g) ==
  /\ rx[g] = "hash"
  /\ rx' = [rx EXCEPT ![g] = IF hashFile THEN "ok" ELSE "end"]
  /\ rStatus' = IF hashFile THEN rStatus ELSE "error"
  /\ UNCHANGED <<mode, sVars, rFile, rBytes, rTable, rDone, disk, ports, hd,
                 tcpVars, netVars>>

StreamComplete(g) ==
  /\ rx[g] = "ok"
  /\ rx' = [rx EXCEPT ![g] = "end"] /\ rStatus' = "complete"
  /\ UNCHANGED <<mode, sVars, rFile, rBytes, rTable, rDone, disk, ports, hd,
                 tcpVars, netVars>>

-----------------------------------------------------------------------------
(* The sender's messages and user.                                         *)

Seek(offset) == sPos' = IF sFile = "open" THEN offset ELSE sPos

handleFileAccept(m, q) ==
  /\ m[1] = "accept" /\ sTable
  /\ sStatus' = "active"
  /\ IF m[2] > 0 /\ sFile # "nil"
       THEN Seek(m[2]) /\ sBytes' = m[2]
       ELSE UNCHANGED <<sPos, sBytes>>
  /\ \E g \in 1 .. mode.senders :
       /\ at[g] = "idle" /\ \A h \in 1 .. g - 1 : at[h] # "idle"
       /\ at' = [at EXCEPT ![g] = "start"]
  /\ queue' = q
  /\ UNCHANGED <<mode, sFile, sTable, sDone, nackVars, rVars, tcpVars, udp>>

(* retransmitChunk: through the shared file, which it repositions, or, if  *)
(* that is nil, through a new one.  The offset of what it sends is the one *)
(* that was asked for.                                                     *)
retransmitChunk(offset, q) ==
  /\ Seek(IF offset < N THEN offset + 1 ELSE offset)
  /\ IF sFile # "closed" /\ offset < N
       THEN Send("R", <<"data", offset + 1, offset>>, q)
       ELSE queue' = q /\ UNCHANGED udp

(* Mutant: the channel takes a nack although it is full.                   *)
MutHandleFileNack(m, q) ==
  /\ m[1] = "nack" /\ sTable
  /\ nacks < mode.nacks /\ nacks' = nacks + 1
  /\ nackCh' = Append(nackCh, m[2])
  /\ queue' = q
  /\ UNCHANGED <<mode, xferVars, round, again, at, rVars, tcpVars, udp>>

handleFileNack(m, q) ==
  /\ m[1] = "nack" /\ sTable
  /\ nacks < mode.nacks /\ nacks' = nacks + 1
  /\ IF Len(nackCh) < NackCap
       THEN /\ nackCh' = Append(nackCh, m[2])
            /\ queue' = q /\ UNCHANGED <<udp, sPos>>
       ELSE retransmitChunk(m[2], q) /\ UNCHANGED nackCh
  /\ UNCHANGED <<mode, sStatus, sFile, sBytes, sTable, sDone, round, again, at,
                 rVars, tcpVars>>

(* handleFileReject and handleFileCancel do the same.                      *)
handleFileCancelS(m, q) ==
  /\ m[1] \in {"reject", "cancel"} /\ sTable
  /\ sTable' = FALSE /\ sDone' = TRUE /\ sStatus' = "error" /\ sFile' = "nil"
  /\ queue' = q
  /\ UNCHANGED <<mode, sBytes, sPos, nackVars, at, rVars, tcpVars, udp>>

CancelS ==
  /\ sTable /\ "S" \in mode.cancels
  /\ sTable' = FALSE /\ sDone' = TRUE /\ sStatus' = "error"
  /\ sFile' = IF sFile = "nil" THEN "nil" ELSE "closed"
  /\ Relay("R", <<"cancel">>, queue)
  /\ UNCHANGED <<mode, sBytes, sPos, nackVars, at, rVars, tcpVars>>

-----------------------------------------------------------------------------
(* The sender's goroutines: sendFileViaNetstack ...                        *)

Goto(g, stage) == at' = [at EXCEPT ![g] = stage]

(* No netstack, or the receiver is told which port to expect.              *)
NoStack(g) ==
  /\ at[g] = "start" /\ Goto(g, "chunks")
  /\ UNCHANGED <<mode, xferVars, nackVars, rVars, tcpVars, netVars>>

Announce(g) ==
  /\ at[g] = "start" /\ Goto(g, "dial")
  /\ Send("R", <<"stream", g>>, queue)
  /\ UNCHANGED <<mode, xferVars, nackVars, rVars, tcpVars>>

DialTCP(g) ==
  /\ at[g] = "dial" /\ Goto(g, "dialing")
  /\ conn' = [conn EXCEPT ![g] = "syn"]
  /\ UNCHANGED <<mode, xferVars, nackVars, rVars, pipe, netVars>>

(* The file may have been closed and set to nil meanwhile.                 *)
Dialled(g) ==
  /\ at[g] = "dialing" /\ conn[g] = "est"
  /\ Goto(g, IF sFile = "nil" THEN "end" ELSE "stream")
  /\ conn' = [conn EXCEPT ![g] = IF sFile = "nil" THEN "fin" ELSE @]
  /\ UNCHANGED <<mode, xferVars, nackVars, rVars, pipe, netVars>>

(* Refused, or ten seconds are over, whatever the receiver thinks.         *)
DialFailed(g) ==
  /\ at[g] = "dialing"
  /\ Goto(g, "chunks")
  /\ conn' = [conn EXCEPT ![g] = "reset"]
  /\ UNCHANGED <<mode, xferVars, nackVars, rVars, pipe, netVars>>

StreamUnit(g) ==
  /\ at[g] = "stream" /\ ~sDone /\ sFile = "open" /\ sPos < N
  /\ conn[g] = "est"
  /\ sPos' = sPos + 1 /\ sBytes' = sBytes + 1
  /\ pipe' = [pipe EXCEPT ![g] = Append(@, sPos + 1)]
  /\ UNCHANGED <<mode, sStatus, sFile, sTable, sDone, nackVars, at, rVars,
                 conn, netVars>>

StreamEOF(g) ==
  /\ at[g] = "stream" /\ ~sDone /\ sFile = "open" /\ sPos >= N
  /\ Goto(g, "fin")
  /\ UNCHANGED <<mode, xferVars, nackVars, rVars, tcpVars, netVars>>

(* The deferred conn.Close lets what was written arrive.                   *)
Hangup(g) == conn' = [conn EXCEPT ![g] = IF @ = "est" THEN "fin" ELSE @]

(* The transfer was ended, the file was closed, or the connection broke.   *)
StreamFails(g) ==
  /\ at[g] = "stream"
  /\ \/ sDone /\ UNCHANGED sStatus
     \/ /\ ~sDone
        /\ sFile # "open" \/ (sPos < N /\ conn[g] = "reset")
        /\ sStatus' = "error"
  /\ sPos' = IF ~sDone /\ sFile = "open" THEN sPos + 1 ELSE sPos
  /\ Goto(g, "end") /\ Hangup(g)
  /\ UNCHANGED <<mode, sFile, sBytes, sTable, sDone, nackVars, rVars, pipe,
                 netVars>>

(* The end of both ways to send.                                           *)
SendDone(g) ==
  /\ at[g] = "fin" /\ Goto(g, "end") /\ Hangup(g)
  /\ sStatus' = "complete" /\ sFile' = "nil"
  /\ Send("R", <<"done", sBytes>>, queue)
  /\ UNCHANGED <<mode, sBytes, sTable, sDone, sPos, nackVars, rVars, pipe>>

-----------------------------------------------------------------------------
(* ... sendFileChunks and retransmitNacks.                                 *)

SendChunk(g) ==
  /\ at[g] = "chunks" /\ ~sDone /\ sFile = "open" /\ sPos < N
  /\ sPos' = sPos + 1 /\ sBytes' = sBytes + 1
  /\ Send("R", <<"data", sPos + 1, sBytes>>, queue)
  /\ UNCHANGED <<mode, sStatus, sFile, sTable, sDone, nackVars, at, rVars,
                 tcpVars>>

ChunksEOF(g) ==
  /\ at[g] = "chunks" /\ ~sDone /\ sFile = "open" /\ sPos >= N
  /\ Goto(g, "nacks")
  /\ round' = [round EXCEPT ![g] = MaxRounds]
  /\ again' = [again EXCEPT ![g] = FALSE]
  /\ UNCHANGED <<mode, xferVars, nackCh, nacks, rVars, tcpVars, netVars>>

(* The transfer was ended, the file is closed or nil, or the relay cannot  *)
(* be written to.                                                          *)
ChunksFail(g) ==
  /\ at[g] = "chunks"
  /\ \/ sDone /\ UNCHANGED sStatus
     \/ ~sDone /\ (sFile # "open" \/ mode.path = "relay") /\ sStatus' = "error"
  /\ Goto(g, "end")
  /\ UNCHANGED <<mode, sFile, sBytes, sTable, sDone, sPos, nackVars, rVars,
                 tcpVars, netVars>>

TakeNack(g) ==
  /\ at[g] = "nacks" /\ nackCh # <<>>
  /\ nackCh' = Tail(nackCh)
  /\ again' = [again EXCEPT ![g] = TRUE]
  /\ retransmitChunk(Head(nackCh), queue)
  /\ UNCHANGED <<mode, sStatus, sFile, sBytes, sTable, sDone, nacks, round, at,
                 rVars, tcpVars>>

(* Mutant: a round without a retransmission is followed by another one.    *)
MutNackTimeout(g) ==
  /\ at[g] = "nacks"
  /\ again' = [again EXCEPT ![g] = FALSE]
  /\ Send("R", <<"done", N>>, queue)
  /\ UNCHANGED <<mode, xferVars, nackCh, nacks, round, at, rVars, tcpVars>>

(* Three seconds without a nack, or the transfer was ended.                *)
NackTimeout(g) ==
  /\ at[g] = "nacks"
  /\ IF again[g] /\ ~sDone /\ round[g] > 0
       THEN /\ round' = [round EXCEPT ![g] = @ - 1]
            /\ again' = [again EXCEPT ![g] = FALSE]
            /\ Send("R", <<"done", N>>, queue)
            /\ Goto(g, IF round[g] = 1 THEN "fin" ELSE "nacks")
       ELSE Goto(g, "fin") /\ UNCHANGED <<round, again, netVars>>
  /\ UNCHANGED <<mode, xferVars, nackCh, nacks, rVars, tcpVars>>

-----------------------------------------------------------------------------
HandleR(m, q) ==
  \/ handleFileOffer(m, q) \/ handleFileCancelR(m, q) \/ handleFileStream(m, q)
  \/ handleFileData(m, q) \/ BadChunk(m, q)
  \/ DoneNack(m, q) \/ DoneClose(m, q)

HandleS(m, q) ==
  \/ handleFileAccept(m, q) \/ handleFileNack(m, q) \/ handleFileCancelS(m, q)

Stream(g) ==
  \/ handleIncoming(g) \/ StreamStart(g) \/ StreamRecv(g) \/ StreamEnd(g)
  \/ StreamHash(g) \/ StreamComplete(g)

Sender(g) ==
  \/ NoStack(g) \/ Announce(g) \/ DialTCP(g) \/ Dialled(g) \/ DialFailed(g)
  \/ StreamUnit(g) \/ StreamEOF(g) \/ StreamFails(g) \/ SendDone(g)
  \/ SendChunk(g) \/ ChunksEOF(g) \/ ChunksFail(g)
  \/ TakeNack(g) \/ NackTimeout(g)

Next ==
  \/ \E m \in udp["R"] : HandleR(m, queue)
  \/ queue["R"] # <<>> /\ HandleR(Head(queue["R"]), Rest("R"))
  \/ \E m \in udp["S"] : HandleS(m, queue)
  \/ queue["S"] # <<>> /\ HandleS(Head(queue["S"]), Rest("S"))
  \/ \E x \in {"S", "R"} : RelayDrop(x)
  \/ AcceptFile \/ RejectFile \/ CancelR \/ CancelS
  \/ DoneHash \/ DoneComplete
  \/ \E g \in G : Stream(g) \/ Sender(g)

Spec == Init /\ [][Next]_vars

(* Goroutines run and timers fire; no message need arrive.                 *)
Fairness == \A g \in G : WF_vars(Sender(g))

LiveSpec == Spec /\ Fairness

-----------------------------------------------------------------------------
(* Every variable keeps its type.                                          *)
Status == {"none", "pending", "active", "complete", "error"}
Handle == {"open", "closed", "nil"}
TypeOK ==
  /\ mode \in Case
  /\ sStatus \in Status \ {"none"} /\ rStatus \in Status
  /\ sFile \in Handle /\ rFile \in Handle
  /\ {sTable, sDone, rTable, rDone} \subseteq BOOLEAN
  /\ sBytes \in Nat /\ sPos \in Nat /\ rBytes \in 0 .. MaxBytes
  /\ nackCh \in Seq(Nat) /\ Len(nackCh) <= NackCap
  /\ at \in [G -> {"idle", "start", "dial", "dialing", "stream", "chunks",
                   "nacks", "fin", "end"}]
  /\ round \in [G -> 0 .. MaxRounds] /\ again \in [G -> BOOLEAN]
  /\ conn \in [G -> {"none", "syn", "est", "fin", "reset"}]
  /\ rx \in [G -> {"none", "start", "read", "hash", "ok", "end"}]
  /\ hd \in {"idle", "hash", "ok"} /\ ports \subseteq G

(* A transfer that R calls complete left the sent file on the disk, though *)
(* chunks are lost, repeated, reordered or damaged, two goroutines of S    *)
(* share one file, several streams write, an unrelated file was resumed,   *)
(* and the end of a stream races file_done (filetransfer.go:618-646,       *)
(* forward_netstack.go:338-371).                                           *)
Verified == rStatus = "complete" => disk = File

(* Once complete, only a cancel or reject turns a transfer of R into       *)
(* something else: whatever verifies it again comes to the same result.    *)
CompleteIsFinal ==
  [][rStatus = "complete" /\ rStatus' # "complete" => rDone']_vars

(* Every goroutine that sends the file comes to its end: neither a dead    *)
(* connection, the NACK rounds nor a cancelled transfer hold it            *)
(* (filetransfer.go:1010, "prevent infinite retransmit loops").            *)
SenderEnds == \A g \in G : at[g] = "start" ~> at[g] = "end"
=============================================================================
