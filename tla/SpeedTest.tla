----------------------------- MODULE SpeedTest -----------------------------
(***************************************************************************)
(* One run of the bandwidth test of client/core/speedtest.go between the   *)
(* initiator "A" and the responder "B".                                    *)
(*                                                                         *)
(* A: st_begin(upload)   B: st_ready   A: data ..., st_finish twice        *)
(* B: st_result, st_begin(download)    A: st_ready                         *)
(* B: data ..., st_finish twice        A: final result                     *)
(*                                                                         *)
(* Goroutines of a side: the reader that runs the message handlers, the    *)
(* senders (stSendData) that st_ready starts, the user or the peer list    *)
(* calling CancelSpeedTest, and A's three-minute timer.  Both maps of a    *)
(* side are keyed by the test's ID, so table[s] is the one entry that      *)
(* matters; a test object outlives its entry in the goroutines using it.   *)
(*                                                                         *)
(* Over "relay" messages keep their order and may be dropped by a full     *)
(* queue of the server; over "p2p" (UDP) they are also duplicated and      *)
(* reordered.  st_cancel is not dispatched by handleRelayData.             *)
(***************************************************************************)
EXTENDS Integers, Sequences

CONSTANTS Transports,  \* what resolveSTTransport may answer: "p2p", "relay"
          Chunks,      \* data messages of one direction
          MaxObjs,     \* bound: activeSpeedTest objects, never reused
          MaxSenders,  \* bound: stSendData goroutines, never reused
          MaxRecv,     \* bound: data messages counted by one object
          Cancels,     \* sides that may call CancelSpeedTest
          Nil

ASSUME SpeedAssumption ==
  /\ Transports \subseteq {"p2p", "relay"}
  /\ Chunks \in Nat \ {0} /\ MaxObjs \in Nat \ {0} /\ MaxSenders \in Nat
  /\ MaxRecv \in Nat /\ Cancels \subseteq {"A", "B"}
  /\ Nil \notin Int

Sides    == {"A", "B"}
Peer(s)  == IF s = "A" THEN "B" ELSE "A"
Objs     == 1 .. MaxObjs
Senders  == 1 .. MaxSenders
Orig     == 1                         \* the object StartSpeedTest made

Phases   == {"new", "upload", "waiting_download", "receiving", "download",
             "done"}
Messages == [type : {"st_begin"}, dir : {"upload", "download"}]
            \cup [type : {"st_ready", "st_finish", "st_result", "st_cancel"}]
            \cup [type : {"data"}, seq : 0 .. Chunks - 1]
Outcomes == {"result", "timeout", "cancelled", "cancelled by peer"}

VARIABLES
  transport, \* activeSpeedTest.ActualTransport, the same on both sides
  up,        \* the client process of a side runs
  table,     \* Client.speedTests[testID]
  phase,     \* activeSpeedTest.Phase
  recv,      \* activeSpeedTest.Received, in chunks
  upl,       \* activeSpeedTest.UploadMbps was set
  cancel,    \* activeSpeedTest.cancel: "nil" | "open" | "closed"
  sender,    \* the stSendData goroutines
  queue,     \* relay: messages on their way to a side, in order
  net,       \* p2p: every message ever sent to a side
  finish,    \* processSTFinish of a side's reader, between its locks
  emitted,   \* EventSpeedTestResult of a side, in order
  timer      \* A's timeout goroutine: "sleeping" | "done"

objVars  == <<phase, recv, upl, cancel>>
wireVars == <<queue, net>>
vars     == <<transport, up, table, objVars, sender, wireVars, finish,
              emitted, timer>>

Begin(dir) == [type |-> "st_begin", dir |-> dir]
Msg(t)     == [type |-> t]
NoFinish   == [stage |-> "idle", obj |-> Nil]

-----------------------------------------------------------------------------
(* stSend and stSignalWith: every message of a test takes its transport.   *)
stSend(s, ms) ==
  IF transport = "relay"
    THEN /\ queue' = [queue EXCEPT ![Peer(s)] = @ \o ms]
         /\ UNCHANGED net
    ELSE /\ net' = [net EXCEPT ![Peer(s)] =
                      @ \cup {ms[i] : i \in DOMAIN ms}]
         /\ UNCHANGED queue

(* The reader of s is between two messages and takes m.                    *)
Reading(s, m) ==
  /\ up[s]
  /\ finish[s] = NoFinish
  /\ IF transport = "relay" THEN queue[s] # <<>> /\ m = Head(queue[s])
                            ELSE m \in net[s]

(* The relay queue after the reader took its head.  A handler that also    *)
(* sends combines this with stSend, which leaves the own queue alone.      *)
Taken(s) == IF transport = "relay" THEN [queue EXCEPT ![s] = Tail(@)]
                                   ELSE queue

(* Take the message at the head of the relay queue and answer with ms.     *)
TakeAndSend(s, ms) ==
  IF transport = "relay"
    THEN /\ queue' = [Taken(s) EXCEPT ![Peer(s)] = @ \o ms]
         /\ UNCHANGED net
    ELSE stSend(s, ms)

Emit(s, outcome) ==
  emitted' = [emitted EXCEPT ![s] = Append(@, outcome)]

(* Allocation takes the first unused element of a pool.                    *)
Fresh(o) == phase[o] = "new" /\ \A p \in Objs : p < o => phase[p] # "new"
Idle(g)  == /\ sender[g].stage = "new"
            /\ \A h \in Senders : h < g => sender[h].stage # "new"

(* The signal to the senders of o.  Closing a nil channel panics, and      *)
(* nothing recovers: the client process ends.                              *)
CloseCancel(s, o) ==
  IF cancel[o] = "nil"
    THEN up' = [up EXCEPT ![s] = FALSE] /\ UNCHANGED cancel
    ELSE cancel' = [cancel EXCEPT ![o] = "closed"] /\ UNCHANGED up

-----------------------------------------------------------------------------
(* StartSpeedTest ran at A.                                                *)
Init ==
  /\ transport \in Transports
  /\ up      = [s \in Sides |-> TRUE]
  /\ table   = [s \in Sides |-> IF s = "A" THEN Orig ELSE Nil]
  /\ phase   = [o \in Objs |-> IF o = Orig THEN "upload" ELSE "new"]
  /\ recv    = [o \in Objs |-> 0]
  /\ upl     = [o \in Objs |-> FALSE]
  /\ cancel  = [o \in Objs |-> IF o = Orig THEN "open" ELSE "nil"]
  /\ sender  = [g \in Senders |-> [stage |-> "new", side |-> Nil,
                                   obj |-> Nil, sent |-> 0]]
  /\ queue   = [s \in Sides |-> IF s = "B" /\ transport = "relay"
                                  THEN <<Begin("upload")>> ELSE <<>>]
  /\ net     = [s \in Sides |-> IF s = "B" /\ transport = "p2p"
                                  THEN {Begin("upload")} ELSE {}]
  /\ finish  = [s \in Sides |-> NoFinish]
  /\ emitted = [s \in Sides |-> <<>>]
  /\ timer   = "sleeping"

(* The timer reads Phase without the test's mutex: while processSTFinish   *)
(* writes it, either value may be seen.                                    *)
SeenNotDone(o) == phase[o] # "done" \/ finish["A"] = [stage |-> "delete",
                                                      obj |-> o]
SeenDone(o)    == phase[o] = "done"

(* Mutant: only a test still uploading times out.                          *)
MutTimeout ==
  /\ up["A"] /\ timer = "sleeping"
  /\ timer' = "done"
  /\ \/ /\ table["A"] # Nil /\ phase[table["A"]] = "upload"
        /\ table' = [table EXCEPT !["A"] = Nil]
        /\ Emit("A", "timeout")
     \/ /\ table["A"] # Nil => phase[table["A"]] # "upload"
        /\ UNCHANGED <<table, emitted>>
  /\ UNCHANGED <<up, objVars, sender, wireVars, finish>>

Timeout ==
  /\ up["A"] /\ timer = "sleeping"
  /\ timer' = "done"
  /\ \/ /\ table["A"] # Nil /\ SeenNotDone(table["A"])
        /\ table' = [table EXCEPT !["A"] = Nil]
        /\ Emit("A", "timeout")
     \/ /\ table["A"] # Nil => SeenDone(table["A"])
        /\ UNCHANGED <<table, emitted>>
  /\ UNCHANGED <<up, objVars, sender, wireVars, finish>>

(* CancelSpeedTest, called by the user or by cancelSpeedTestsForPeer.      *)
CancelSpeedTest(s) ==
  /\ up[s] /\ s \in Cancels /\ table[s] # Nil
  /\ table' = [table EXCEPT ![s] = Nil]
  /\ CloseCancel(s, table[s])
  /\ IF up'[s] THEN Emit(s, "cancelled") /\ stSend(s, <<Msg("st_cancel")>>)
               ELSE UNCHANGED <<emitted, wireVars>>
  /\ UNCHANGED <<phase, recv, upl, sender, finish, timer>>

handleSTCancel(s) ==
  /\ Reading(s, Msg("st_cancel"))
  /\ TakeAndSend(s, <<>>)
  /\ IF table[s] = Nil \/ transport = "relay"
       THEN UNCHANGED <<up, table, cancel, emitted>>
       ELSE /\ table' = [table EXCEPT ![s] = Nil]
            /\ CloseCancel(s, table[s])
            /\ IF up'[s] THEN Emit(s, "cancelled by peer")
                         ELSE UNCHANGED emitted
  /\ UNCHANGED <<phase, recv, upl, sender, finish, timer>>

(* A download begin moves the initiator's test on; any other begin makes   *)
(* a new responder object, whose cancel channel is nil.                    *)
handleSTBegin(s) ==
  \E dir \in {"upload", "download"} :
    /\ Reading(s, Begin(dir))
    /\ IF table[s] # Nil /\ dir = "download"
         THEN /\ phase' = [phase EXCEPT ![table[s]] = "download"]
              /\ recv' = [recv EXCEPT ![table[s]] = 0]
              /\ UNCHANGED table
         ELSE \E o \in Objs :
                /\ Fresh(o)
                /\ phase' = [phase EXCEPT ![o] = "receiving"]
                /\ table' = [table EXCEPT ![s] = o]
                /\ UNCHANGED recv
    /\ TakeAndSend(s, <<Msg("st_ready")>>)
    /\ UNCHANGED <<up, upl, cancel, sender, finish, emitted, timer>>

handleSTReady(s) ==
  /\ Reading(s, Msg("st_ready"))
  /\ TakeAndSend(s, <<>>)
  /\ IF table[s] = Nil
       THEN UNCHANGED sender
       ELSE \E g \in Senders :
              /\ Idle(g)
              /\ sender' = [sender EXCEPT ![g] = [stage |-> "send",
                              side |-> s, obj |-> table[s], sent |-> 0]]
  /\ UNCHANGED <<up, table, objVars, finish, emitted, timer>>

(* Mutant: the loop sends one chunk too many.                              *)
MutSendChunk(g) ==
  LET s == sender[g].side   o == sender[g].obj   k == sender[g].sent
  IN /\ sender[g].stage = "send" /\ up[s] /\ k <= Chunks
     /\ IF cancel[o] = "closed"
          THEN /\ sender' = [sender EXCEPT ![g].stage = "end"]
               /\ UNCHANGED wireVars
          ELSE /\ sender' = [sender EXCEPT ![g].sent = @ + 1]
               /\ stSend(s, <<[type |-> "data", seq |-> k]>>)
     /\ UNCHANGED <<up, table, objVars, finish, emitted, timer>>

(* stSendData: one chunk per step, cancel checked before each one.         *)
SendChunk(g) ==
  LET s == sender[g].side   o == sender[g].obj   k == sender[g].sent
  IN /\ sender[g].stage = "send" /\ up[s] /\ k < Chunks
     /\ IF cancel[o] = "closed"
          THEN /\ sender' = [sender EXCEPT ![g].stage = "end"]
               /\ UNCHANGED wireVars
          ELSE /\ sender' = [sender EXCEPT ![g].sent = @ + 1]
               /\ stSend(s, <<[type |-> "data", seq |-> k]>>)
     /\ UNCHANGED <<up, table, objVars, finish, emitted, timer>>

(* Mutant: the loop leaves out the last chunk.                             *)
MutSendFinish(g) ==
  LET s == sender[g].side
  IN /\ sender[g].stage # "new" /\ up[s]
     /\ \/ /\ sender[g].stage = "send" /\ sender[g].sent = Chunks - 1
           /\ sender' = [sender EXCEPT ![g].stage = "pause"]
        \/ /\ sender[g].stage = "pause"
           /\ sender' = [sender EXCEPT ![g].stage = "tail"]
     /\ stSend(s, <<Msg("st_finish")>>)
     /\ UNCHANGED <<up, table, objVars, finish, emitted, timer>>

(* st_finish goes out twice, 30 ms apart, cancelled or not.                *)
SendFinish(g) ==
  LET s == sender[g].side
  IN /\ sender[g].stage # "new" /\ up[s]
     /\ \/ /\ sender[g].stage = "send" /\ sender[g].sent = Chunks
           /\ sender' = [sender EXCEPT ![g].stage = "pause"]
        \/ /\ sender[g].stage = "pause"
           /\ sender' = [sender EXCEPT ![g].stage = "tail"]
     /\ stSend(s, <<Msg("st_finish")>>)
     /\ UNCHANGED <<up, table, objVars, finish, emitted, timer>>

(* Mutant: the phase is set without a look at the old one.                 *)
MutSendTail(g) ==
  LET s == sender[g].side   o == sender[g].obj
  IN /\ sender[g].stage = "tail" /\ up[s]
     /\ finish[s] # [stage |-> "delete", obj |-> o]
     /\ sender' = [sender EXCEPT ![g].stage = "end"]
     /\ phase' = [phase EXCEPT ![o] = "waiting_download"]
     /\ recv' = [recv EXCEPT ![o] = 0]
     /\ UNCHANGED <<up, table, upl, cancel, wireVars, finish, emitted, timer>>

(* The end of stSendData, under the test's mutex, which processSTFinish    *)
(* still holds while it deletes the entry.                                 *)
SendTail(g) ==
  LET s == sender[g].side   o == sender[g].obj
  IN /\ sender[g].stage = "tail" /\ up[s]
     /\ finish[s] # [stage |-> "delete", obj |-> o]
     /\ sender' = [sender EXCEPT ![g].stage = "end"]
     /\ IF phase[o] = "upload"
          THEN /\ phase' = [phase EXCEPT ![o] = "waiting_download"]
               /\ recv' = [recv EXCEPT ![o] = 0]
          ELSE UNCHANGED <<phase, recv>>
     /\ UNCHANGED <<up, table, upl, cancel, wireVars, finish, emitted, timer>>

processSpeedTestData(s) ==
  \E k \in 0 .. Chunks - 1 :
    /\ Reading(s, [type |-> "data", seq |-> k])
    /\ TakeAndSend(s, <<>>)
    /\ IF table[s] = Nil
         THEN UNCHANGED recv
         ELSE /\ recv[table[s]] < MaxRecv
              /\ recv' = [recv EXCEPT ![table[s]] = @ + 1]
    /\ UNCHANGED <<up, table, phase, upl, cancel, sender, finish, emitted,
                   timer>>

(* processSTFinish: the lookup, then the work under the test's mutex, then *)
(* the deletion under the table's.  Other goroutines run in between.       *)
FinishLookup(s) ==
  /\ Reading(s, Msg("st_finish"))
  /\ TakeAndSend(s, <<>>)
  /\ finish' = [finish EXCEPT ![s] =
                  IF table[s] = Nil THEN NoFinish
                  ELSE [stage |-> "apply", obj |-> table[s]]]
  /\ UNCHANGED <<up, table, objVars, sender, emitted, timer>>

FinishApply(s) ==
  LET o == finish[s].obj
  IN /\ up[s] /\ finish[s].stage = "apply"
     /\ IF phase[o] = "receiving" THEN
           /\ phase' = [phase EXCEPT ![o] = "download"]
           /\ recv' = [recv EXCEPT ![o] = 0]
           /\ stSend(s, <<Msg("st_result"), Begin("download")>>)
           /\ finish' = [finish EXCEPT ![s] = NoFinish]
           /\ UNCHANGED emitted
        ELSE IF phase[o] \in {"waiting_download", "download"} THEN
           /\ phase' = [phase EXCEPT ![o] = "done"]
           /\ Emit(s, "result")
           /\ finish' = [finish EXCEPT ![s].stage = "delete"]
           /\ UNCHANGED <<recv, wireVars>>
        ELSE
           /\ finish' = [finish EXCEPT ![s] = NoFinish]
           /\ UNCHANGED <<phase, recv, emitted, wireVars>>
     /\ UNCHANGED <<up, table, upl, cancel, sender, timer>>

FinishDelete(s) ==
  /\ up[s] /\ finish[s].stage = "delete"
  /\ table' = [table EXCEPT ![s] = Nil]
  /\ finish' = [finish EXCEPT ![s] = NoFinish]
  /\ UNCHANGED <<up, objVars, sender, wireVars, emitted, timer>>

handleSTResult(s) ==
  /\ Reading(s, Msg("st_result"))
  /\ TakeAndSend(s, <<>>)
  /\ upl' = IF table[s] = Nil THEN upl ELSE [upl EXCEPT ![table[s]] = TRUE]
  /\ UNCHANGED <<up, table, phase, recv, cancel, sender, finish, emitted,
                 timer>>

(* A full send queue of the server drops a relayed message.                *)
RelayDrop(s) ==
  /\ queue[s] # <<>>
  /\ queue' = [queue EXCEPT ![s] = Tail(@)]
  /\ UNCHANGED <<up, table, objVars, sender, net, finish, emitted, timer>>

Reader(s) == \/ handleSTCancel(s) \/ handleSTBegin(s) \/ handleSTReady(s)
             \/ processSpeedTestData(s) \/ FinishLookup(s) \/ FinishApply(s)
             \/ FinishDelete(s) \/ handleSTResult(s)

Sender(g) == SendChunk(g) \/ SendFinish(g) \/ SendTail(g)

(* The transport of a test never changes.                                  *)
Step(A) == A /\ UNCHANGED transport

Next == \/ \E s \in Sides : Step(Reader(s))
        \/ \E s \in Sides : Step(CancelSpeedTest(s))
        \/ \E s \in Sides : Step(RelayDrop(s))
        \/ \E g \in Senders : Step(Sender(g))
        \/ Step(Timeout)

(* Goroutines are scheduled, the timer expires.  Messages may be lost.     *)
Fairness ==
  /\ \A s \in Sides : WF_vars(Step(FinishApply(s) \/ FinishDelete(s)))
  /\ \A g \in Senders : WF_vars(Step(Sender(g)))
  /\ WF_vars(Step(Timeout))

Spec     == Init /\ [][Next]_vars
LiveSpec == Spec /\ Fairness
-----------------------------------------------------------------------------
(* The state of both clients keeps its shape: phases are those of          *)
(* activeSpeedTest.Phase, counters stay within one direction's chunks.     *)
TypeOK ==
  /\ transport \in Transports
  /\ up \in [Sides -> BOOLEAN]
  /\ table \in [Sides -> Objs \cup {Nil}]
  /\ phase \in [Objs -> Phases]
  /\ recv \in [Objs -> 0 .. MaxRecv]
  /\ upl \in [Objs -> BOOLEAN]
  /\ cancel \in [Objs -> {"nil", "open", "closed"}]
  /\ sender \in [Senders -> [stage : {"new", "send", "pause", "tail", "end"},
                             side : Sides \cup {Nil}, obj : Objs \cup {Nil},
                             sent : 0 .. Chunks]]
  /\ queue \in [Sides -> Seq(Messages)]
  /\ net \in [Sides -> SUBSET Messages]
  /\ finish \in [Sides -> [stage : {"idle", "apply", "delete"},
                           obj : Objs \cup {Nil}]]
  /\ emitted \in [Sides -> Seq(Outcomes)]
  /\ timer \in {"sleeping", "done"}

(* Sending all the chunks, of the upload by A or of the download by B.     *)
SentAll(s) == \E g \in Senders : /\ sender[g].side = s
                                 /\ sender[g].sent = Chunks

Rank == [p \in Phases |->
           CASE p = "new" -> 0 [] p = "upload" -> 1
             [] p = "waiting_download" -> 2 [] p = "receiving" -> 2
             [] p = "download" -> 3 [] OTHER -> 4]

(* The phase of a test never moves back, although the sender's tail, the   *)
(* begin handler and the finish handler all assign it: a late tail of      *)
(* stSendData (speedtest.go:378-385) must not undo the start of the        *)
(* download that a fast responder already announced.                       *)
PhaseForward == [][\A o \in Objs : Rank[phase'[o]] >= Rank[phase[o]]]_vars

(* The initiator reports final figures only after the responder received   *)
(* an upload that was sent completely and then sent its own download       *)
(* completely, whatever the network drops, repeats or reorders             *)
(* (processSTFinish, speedtest.go:479-498).                                *)
ResultIsCausal ==
  phase[Orig] = "done" => SentAll("A") /\ SentAll("B")

(* A test ends with a result, an error or a cancellation shown to the      *)
(* user: neither a lost message, a cancelling peer nor the timer racing    *)
(* the finish leaves the panel running for ever (speedtest.go:76-90).      *)
TestEnds == <>(emitted["A"] # <<>> \/ ~up["A"])
=============================================================================
