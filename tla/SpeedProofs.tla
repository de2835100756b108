---------------------------- MODULE SpeedProofs ----------------------------
(***************************************************************************)
(* Proofs about SpeedTest, for any number of chunks, test objects, senders *)
(* and any set of cancelling sides, over both transports.                  *)
(***************************************************************************)
EXTENDS SpeedTest, TLAPS

USE SpeedAssumption

(* What is on its way to a side, whichever transport carries it.           *)
Wire(s) == net[s] \cup {queue[s][i] : i \in DOMAIN queue[s]}

(* A goroutine of s holds the object o.                                    *)
Uses(s, o) == \/ table[s] = o \/ finish[s].obj = o
              \/ \E g \in Senders : sender[g].side = s /\ sender[g].obj = o

(* The locals of the goroutines are set where they are used.               *)
Locals ==
  /\ \A s \in Sides : finish[s].stage # "idle" =>
       finish[s].obj \in Objs /\ table[s] \in {Nil, finish[s].obj}
  /\ \A g \in Senders :
       /\ sender[g].stage = "new" => sender[g].sent = 0
       /\ sender[g].stage # "new" => sender[g].side \in Sides
                                     /\ sender[g].obj \in Objs
       /\ sender[g].stage \in {"pause", "tail"} => sender[g].sent = Chunks

(* The two sides share no object, the one StartSpeedTest made is A's, and  *)
(* an object in use was allocated.                                         *)
Owned ==
  /\ ~Uses("B", Orig)
  /\ \A o \in Objs : ~(Uses("A", o) /\ Uses("B", o))
  /\ \A o \in Objs, s \in Sides : Uses(s, o) => phase[o] # "new"

(* A test that is done is on its way out of the table.                     *)
Leaving == \A s \in Sides, o \in Objs :
             table[s] = o /\ phase[o] = "done" => finish[s].stage = "delete"

(* Messages and phases are evidence of what was sent before them.          *)
Causal ==
  /\ \A s \in Sides :
       /\ Msg("st_finish") \in Wire(s) => SentAll(Peer(s))
       /\ finish[s].stage # "idle" => SentAll(Peer(s))
  /\ Begin("download") \in Wire("A") => SentAll("A")
  /\ phase[Orig] \in {"upload", "waiting_download", "download", "done"}
  /\ phase[Orig] # "upload" => SentAll("A")
  /\ phase[Orig] = "done" => SentAll("B")

IInv == TypeOK /\ Locals /\ Owned /\ Leaving /\ Causal

-----------------------------------------------------------------------------
(* Sequences of messages.                                                  *)

(* Concatenation adds the values of the second sequence.                   *)
LEMMA ConcatValues ==
  ASSUME NEW S, NEW s \in Seq(S), NEW t \in Seq(S)
  PROVE  /\ s \o t \in Seq(S)
         /\ {(s \o t)[i] : i \in DOMAIN (s \o t)}
              \subseteq {s[i] : i \in DOMAIN s} \cup {t[i] : i \in DOMAIN t}
<1> DEFINE u == s \o t
<1>1. /\ Len(s) \in Nat /\ Len(t) \in Nat /\ u \in Seq(S)
      /\ DOMAIN s = 1 .. Len(s) /\ DOMAIN t = 1 .. Len(t)
      /\ DOMAIN u = 1 .. Len(s) + Len(t)
  OBVIOUS
<1>2. \A i \in 1 .. Len(s) + Len(t) :
        u[i] = IF i <= Len(s) THEN s[i] ELSE t[i - Len(s)]
  OBVIOUS
<1> HIDE DEF u
<1>3. ASSUME NEW i \in DOMAIN u
      PROVE  u[i] \in {s[j] : j \in DOMAIN s} \cup {t[j] : j \in DOMAIN t}
  <2>1. CASE i <= Len(s)
    BY <1>1, <1>2, <2>1
  <2>2. CASE ~(i <= Len(s))
    <3>1. i - Len(s) \in DOMAIN t /\ u[i] = t[i - Len(s)]
      BY <1>1, <1>2, <2>2
    <3>. QED
      BY <3>1
  <2>. QED
    BY <2>1, <2>2
<1>. QED
  BY <1>1 DEF u

(* Tail drops a value at most.                                             *)
LEMMA TailValues ==
  ASSUME NEW S, NEW s \in Seq(S), s # <<>>
  PROVE  /\ Tail(s) \in Seq(S) /\ Head(s) \in S
         /\ Head(s) \in {s[i] : i \in DOMAIN s}
         /\ {Tail(s)[i] : i \in DOMAIN Tail(s)} \subseteq {s[i] : i \in DOMAIN s}
<1> DEFINE t == Tail(s)
<1>1. /\ Len(s) \in Nat \ {0} /\ DOMAIN s = 1 .. Len(s)
      /\ DOMAIN t = 1 .. (Len(s) - 1) /\ t \in Seq(S)
      /\ Head(s) = s[1] /\ Head(s) \in S
      /\ \A i \in 1 .. (Len(s) - 1) : t[i] = s[i + 1]
  OBVIOUS
<1>2. ASSUME NEW i \in DOMAIN t PROVE \E j \in DOMAIN s : s[j] = t[i]
  <2>1. i + 1 \in DOMAIN s /\ s[i + 1] = t[i]
    BY <1>1
  <2>. QED
    BY <2>1
<1>3. 1 \in DOMAIN s
  BY <1>1
<1>. QED
  BY <1>1, <1>2, <1>3

(* What the wire holds after stSend, and the type it keeps.                *)
WireTypes == /\ queue \in [Sides -> Seq(Messages)]
             /\ net \in [Sides -> SUBSET Messages]

LEMMA SendWire ==
  ASSUME WireTypes, NEW s \in Sides, NEW ms \in Seq(Messages), stSend(s, ms)
  PROVE  /\ WireTypes'
         /\ Wire(s)' \subseteq Wire(s)
         /\ Wire(Peer(s))' \subseteq Wire(Peer(s)) \cup {ms[i] : i \in DOMAIN ms}
<1> DEFINE p == Peer(s)
<1>1. p \in Sides /\ p # s
  BY DEF Peer, Sides
<1>2. /\ queue[p] \o ms \in Seq(Messages)
      /\ {(queue[p] \o ms)[i] : i \in DOMAIN (queue[p] \o ms)}
           \subseteq {queue[p][i] : i \in DOMAIN queue[p]}
                     \cup {ms[i] : i \in DOMAIN ms}
  <2> HIDE DEF p
  <2>1. queue[p] \in Seq(Messages)
    BY <1>1 DEF WireTypes
  <2>. QED
    BY <2>1, ConcatValues
<1>3. {ms[i] : i \in DOMAIN ms} \subseteq Messages
  OBVIOUS
<1>4. CASE transport = "relay"
  <2>1. queue' = [queue EXCEPT ![p] = queue[p] \o ms] /\ net' = net
    BY <1>4 DEF stSend
  <2> HIDE DEF p
  <2>2. queue'[s] = queue[s] /\ queue'[p] = queue[p] \o ms
    BY <2>1, <1>1 DEF WireTypes
  <2>3. WireTypes'
    BY <2>1, <1>1, <1>2 DEF WireTypes
  <2>. QED
    BY <2>1, <2>2, <2>3, <1>2 DEF Wire, p
<1>5. CASE transport # "relay"
  <2>1. /\ net' = [net EXCEPT ![p] = net[p] \cup {ms[i] : i \in DOMAIN ms}]
        /\ queue' = queue
    BY <1>5 DEF stSend
  <2> HIDE DEF p
  <2>2. /\ net'[s] = net[s]
        /\ net'[p] = net[p] \cup {ms[i] : i \in DOMAIN ms}
    BY <2>1, <1>1 DEF WireTypes
  <2>3. WireTypes'
    BY <2>1, <1>1, <1>3 DEF WireTypes
  <2>. QED
    BY <2>1, <2>2, <2>3 DEF Wire, p
<1>. QED
  BY <1>4, <1>5

(* The same for a handler that takes a message and answers.                *)
LEMMA TakeWire ==
  ASSUME WireTypes, NEW s \in Sides, NEW m, Reading(s, m),
         NEW ms \in Seq(Messages), TakeAndSend(s, ms)
  PROVE  /\ m \in Wire(s)
         /\ WireTypes'
         /\ Wire(s)' \subseteq Wire(s)
         /\ Wire(Peer(s))' \subseteq Wire(Peer(s)) \cup {ms[i] : i \in DOMAIN ms}
<1> DEFINE p == Peer(s)
<1>1. p \in Sides /\ p # s
  BY DEF Peer, Sides
<1>2. CASE transport = "relay"
  <2>1. queue[s] \in Seq(Messages) /\ queue[s] # <<>> /\ m = Head(queue[s])
    BY <1>2 DEF Reading, WireTypes
  <2>2. /\ Tail(queue[s]) \in Seq(Messages)
        /\ Head(queue[s]) \in {queue[s][i] : i \in DOMAIN queue[s]}
        /\ {Tail(queue[s])[i] : i \in DOMAIN Tail(queue[s])}
             \subseteq {queue[s][i] : i \in DOMAIN queue[s]}
    BY <2>1, TailValues
  <2>3. /\ queue[p] \o ms \in Seq(Messages)
        /\ {(queue[p] \o ms)[i] : i \in DOMAIN (queue[p] \o ms)}
             \subseteq {queue[p][i] : i \in DOMAIN queue[p]}
                       \cup {ms[i] : i \in DOMAIN ms}
    <3> HIDE DEF p
    <3>1. queue[p] \in Seq(Messages)
      BY <1>1 DEF WireTypes
    <3>. QED
      BY <3>1, ConcatValues
  <2>4. /\ queue' = [[queue EXCEPT ![s] = Tail(queue[s])]
                       EXCEPT ![p] = [queue EXCEPT ![s] = Tail(queue[s])][p] \o ms]
        /\ net' = net
    BY <1>2 DEF TakeAndSend, Taken
  <2> HIDE DEF p
  <2>5. queue'[s] = Tail(queue[s]) /\ queue'[p] = queue[p] \o ms
    BY <2>4, <1>1 DEF WireTypes
  <2>6. WireTypes'
    BY <2>2, <2>3, <2>4, <1>1 DEF WireTypes
  <2>. QED
    BY <2>1, <2>2, <2>3, <2>4, <2>5, <2>6 DEF Wire, p
<1>3. CASE transport # "relay"
  <2>1. stSend(s, ms) /\ m \in net[s]
    BY <1>3 DEF TakeAndSend, Reading
  <2>. QED
    BY <2>1, SendWire DEF Wire
<1>. QED
  BY <1>2, <1>3

-----------------------------------------------------------------------------
(* One lemma per action.                                                   *)

(* The messages of one sending.                                            *)
Vals(ms) == {ms[i] : i \in DOMAIN ms}

(* Messages the handlers send.                                             *)
LEMMA SentTypes ==
  /\ <<>> \in Seq(Messages) /\ Vals(<<>>) = {}
  /\ \A m \in Messages : /\ <<m>> \in Seq(Messages)
                         /\ Vals(<<m>>) = {m}
  /\ \A m, n \in Messages : /\ <<m, n>> \in Seq(Messages)
                            /\ Vals(<<m, n>>) = {m, n}
  /\ \A t \in {"st_ready", "st_finish", "st_result", "st_cancel"} :
       Msg(t) \in Messages
  /\ \A d \in {"upload", "download"} : Begin(d) \in Messages
  /\ \A k \in 0 .. Chunks - 1 : [type |-> "data", seq |-> k] \in Messages
<1>1. /\ <<>> \in Seq(Messages) /\ Vals(<<>>) = {}
      /\ \A m \in Messages : /\ <<m>> \in Seq(Messages)
                             /\ Vals(<<m>>) = {m}
      /\ \A m, n \in Messages : <<m, n>> \in Seq(Messages)
  BY DEF Vals
<1>2. ASSUME NEW m \in Messages, NEW n \in Messages
      PROVE Vals(<<m, n>>) = {m, n}
  <2>1. DOMAIN <<m, n>> = 1 .. 2 /\ <<m, n>>[1] = m /\ <<m, n>>[2] = n
    OBVIOUS
  <2>. QED
    BY <2>1 DEF Vals
<1>3. /\ \A t \in {"st_ready", "st_finish", "st_result", "st_cancel"} :
           Msg(t) \in Messages
      /\ \A d \in {"upload", "download"} : Begin(d) \in Messages
      /\ \A k \in 0 .. Chunks - 1 : [type |-> "data", seq |-> k] \in Messages
  BY DEF Messages, Msg, Begin
<1>. QED
  BY <1>1, <1>2, <1>3

(* Which of the messages are the same.                                     *)
LEMMA Distinct ==
  /\ \A t, u \in {"st_ready", "st_finish", "st_result", "st_cancel"} :
       Msg(t) = Msg(u) => t = u
  /\ \A d \in {"upload", "download"} :
       \A t \in {"st_ready", "st_finish", "st_result", "st_cancel"} :
         Begin(d) # Msg(t)
  /\ \A k : /\ [type |-> "data", seq |-> k] # Msg("st_finish")
            /\ [type |-> "data", seq |-> k] # Begin("download")
  BY DEF Msg, Begin

(* An object is no Nil, and the first of them exists.                      *)
LEMMA ObjFacts == Nil \notin Objs /\ Orig \in Objs
  BY DEF Objs, Orig

(* The two sides.                                                          *)
LEMMA PeerFacts == \A s \in Sides : /\ Peer(s) \in Sides /\ Peer(s) # s
                                    /\ \A t \in Sides : t = s \/ t = Peer(s)
  BY DEF Peer, Sides

(* Events are appended to a side's list.                                   *)
LEMMA EmitType ==
  ASSUME TypeOK, NEW s \in Sides, NEW x \in Outcomes, Emit(s, x)
  PROVE  emitted' \in [Sides -> Seq(Outcomes)]
<1>1. emitted[s] \in Seq(Outcomes) /\ emitted \in [Sides -> Seq(Outcomes)]
  BY DEF TypeOK
<1>2. Append(emitted[s], x) \in Seq(Outcomes)
  BY <1>1
<1>. QED
  BY <1>1, <1>2 DEF Emit

(* A handler's answer, on the wires of both sides.                         *)
LEMMA Answered ==
  ASSUME TypeOK, NEW s \in Sides, NEW m, Reading(s, m),
         NEW ms \in Seq(Messages), TakeAndSend(s, ms)
  PROVE  /\ m \in Wire(s) /\ WireTypes'
         /\ Wire(s)' \subseteq Wire(s)
         /\ \A t \in Sides : Wire(t)' \subseteq Wire(t) \cup Vals(ms)
<1>1. WireTypes
  BY DEF TypeOK, WireTypes
<1>2. /\ m \in Wire(s) /\ WireTypes' /\ Wire(s)' \subseteq Wire(s)
      /\ Wire(Peer(s))' \subseteq Wire(Peer(s)) \cup Vals(ms)
  BY <1>1, TakeWire DEF Vals
<1>. QED
  BY <1>2, PeerFacts

(* The same for stSend alone.                                              *)
LEMMA Said ==
  ASSUME TypeOK, NEW s \in Sides, NEW ms \in Seq(Messages), stSend(s, ms)
  PROVE  /\ WireTypes'
         /\ Wire(s)' \subseteq Wire(s)
         /\ \A t \in Sides : Wire(t)' \subseteq Wire(t) \cup Vals(ms)
<1>1. WireTypes
  BY DEF TypeOK, WireTypes
<1>2. /\ WireTypes' /\ Wire(s)' \subseteq Wire(s)
      /\ Wire(Peer(s))' \subseteq Wire(Peer(s)) \cup Vals(ms)
  BY <1>1, SendWire DEF Vals
<1>. QED
  BY <1>2, PeerFacts

(* Nothing new of consequence on the wires.                                *)
NoNews == \A t \in Sides :
            /\ Msg("st_finish") \in Wire(t)' => Msg("st_finish") \in Wire(t)
            /\ Begin("download") \in Wire(t)' => Begin("download") \in Wire(t)

(* A handler that answers nothing, or only st_ready.                       *)
LEMMA Quiet ==
  ASSUME IInv, NEW s \in Sides, NEW m, Reading(s, m),
         TakeAndSend(s, <<>>) \/ TakeAndSend(s, <<Msg("st_ready")>>)
  PROVE  m \in Wire(s) /\ WireTypes' /\ NoNews
<1>1. TypeOK /\ <<>> \in Seq(Messages) /\ Vals(<<>>) = {}
  BY SentTypes DEF IInv
<1>2. Msg("st_ready") \in Messages
  BY SentTypes
<1>3. /\ <<Msg("st_ready")>> \in Seq(Messages)
      /\ Vals(<<Msg("st_ready")>>) = {Msg("st_ready")}
  BY <1>2, SentTypes
<1>4. Msg("st_ready") # Msg("st_finish") /\ Msg("st_ready") # Begin("download")
  BY Distinct
<1>5. CASE TakeAndSend(s, <<>>)
  <2>1. /\ m \in Wire(s) /\ WireTypes'
        /\ \A t \in Sides : Wire(t)' \subseteq Wire(t) \cup {}
    BY <1>1, <1>5, Answered
  <2>. QED
    BY <2>1 DEF NoNews
<1>6. CASE TakeAndSend(s, <<Msg("st_ready")>>)
  <2>1. /\ m \in Wire(s) /\ WireTypes'
        /\ \A t \in Sides : Wire(t)' \subseteq Wire(t) \cup {Msg("st_ready")}
    BY <1>1, <1>3, <1>6, Answered
  <2>. QED
    BY <2>1, <1>4 DEF NoNews
<1>. QED
  BY <1>5, <1>6

(* The evidence stays where every new message, stage and phase has its own.*)
LEMMA CausalFrame ==
  ASSUME IInv,
         \A t \in Sides :
           /\ SentAll(t) => SentAll(t)'
           /\ Msg("st_finish") \in Wire(t)' =>
                Msg("st_finish") \in Wire(t) \/ SentAll(Peer(t))'
           /\ Begin("download") \in Wire(t)' =>
                \/ Begin("download") \in Wire(t)
                \/ t = "B" \/ SentAll("A")'
           /\ finish'[t].stage # "idle" =>
                \/ finish[t].stage # "idle" \/ Msg("st_finish") \in Wire(t),
         \/ phase'[Orig] = phase[Orig]
         \/ phase'[Orig] \in {"waiting_download", "download"} /\ SentAll("A")
         \/ phase'[Orig] = "done" /\ SentAll("A") /\ SentAll("B")
  PROVE  Causal'
<1>1. "A" \in Sides /\ "B" \in Sides /\ \A t \in Sides : Peer(t) \in Sides
  BY PeerFacts DEF Sides
<1>2. Causal
  BY DEF IInv
<1>3. \A t \in Sides : /\ Msg("st_finish") \in Wire(t)' => SentAll(Peer(t))'
                       /\ finish'[t].stage # "idle" => SentAll(Peer(t))'
  BY <1>1, <1>2 DEF Causal
<1>4. Begin("download") \in Wire("A")' => SentAll("A")'
  BY <1>1, <1>2 DEF Causal
<1>5. /\ phase'[Orig] \in {"upload", "waiting_download", "download", "done"}
      /\ phase'[Orig] # "upload" => SentAll("A")'
      /\ phase'[Orig] = "done" => SentAll("B")'
  BY <1>1, <1>2 DEF Causal
<1>. QED
  BY <1>3, <1>4, <1>5 DEF Causal

(* The case of most handlers: no sender and no consequence.                *)
LEMMA CausalQuiet ==
  ASSUME IInv, NoNews, UNCHANGED sender,
         \A t \in Sides : finish'[t].stage # "idle" =>
           finish[t].stage # "idle" \/ Msg("st_finish") \in Wire(t),
         \/ phase'[Orig] = phase[Orig]
         \/ phase'[Orig] \in {"waiting_download", "download"} /\ SentAll("A")
         \/ phase'[Orig] = "done" /\ SentAll("A") /\ SentAll("B")
  PROVE  Causal'
<1>1. \A t : SentAll(t)' = SentAll(t)
  BY DEF SentAll
<1>. QED
  BY <1>1, CausalFrame DEF NoNews

(* Ownership stays when no goroutine gains an object.                      *)
LEMMA OwnedFrame ==
  ASSUME Owned, \A t \in Sides, o \in Objs : Uses(t, o)' => Uses(t, o),
         \A o \in Objs : phase[o] # "new" => phase'[o] # "new"
  PROVE  Owned'
<1>1. "A" \in Sides /\ "B" \in Sides /\ Orig \in Objs
  BY ObjFacts DEF Sides
<1>. QED
  BY <1>1 DEF Owned

(* The entry of a side is deleted.                                         *)
LEMMA DeleteFrame ==
  ASSUME IInv, NEW s \in Sides, UNCHANGED <<phase, sender, finish>>,
         table' = table \/ table' = [table EXCEPT ![s] = Nil]
  PROVE  /\ table' \in [Sides -> Objs \cup {Nil}]
         /\ Locals' /\ Owned' /\ Leaving'
<1>1. table \in [Sides -> Objs \cup {Nil}]
  BY DEF IInv, TypeOK
<1>2. \A t \in Sides : table'[t] = table[t] \/ table'[t] = Nil
  BY <1>1
<1>3. table' \in [Sides -> Objs \cup {Nil}]
  BY <1>1
<1>4. Locals'
  BY <1>2 DEF IInv, Locals
<1>5. \A t \in Sides, o \in Objs : Uses(t, o)' => Uses(t, o)
  BY <1>2, ObjFacts DEF Uses
<1>6. Owned'
  BY <1>5, OwnedFrame DEF IInv
<1>7. Leaving'
  BY <1>2, ObjFacts DEF IInv, Leaving
<1>. QED
  BY <1>3, <1>4, <1>6, <1>7

-----------------------------------------------------------------------------
(* One lemma per action.                                                   *)

LEMMA TimeoutInv == ASSUME IInv, Step(Timeout) PROVE IInv'
<1>1. /\ UNCHANGED <<transport, up, phase, recv, upl, cancel, sender, queue,
                     net, finish>>
      /\ timer' = "done"
      /\ table' = table \/ table' = [table EXCEPT !["A"] = Nil]
      /\ emitted' = emitted \/ Emit("A", "timeout")
  BY DEF Step, Timeout, objVars, wireVars
<1>2. "A" \in Sides /\ "timeout" \in Outcomes
  BY DEF Sides, Outcomes
<1>3. emitted' \in [Sides -> Seq(Outcomes)]
  BY <1>1, <1>2, EmitType DEF IInv, TypeOK
<1>4. table' \in [Sides -> Objs \cup {Nil}] /\ Locals' /\ Owned' /\ Leaving'
  BY <1>1, <1>2, DeleteFrame
<1>5. TypeOK'
  BY <1>1, <1>3, <1>4 DEF IInv, TypeOK
<1>6. NoNews
  BY <1>1 DEF NoNews, Wire
<1>7. Causal'
  BY <1>1, <1>6, CausalQuiet
<1>. QED
  BY <1>4, <1>5, <1>7 DEF IInv

LEMMA CancelInv ==
  ASSUME NEW s \in Sides, IInv, Step(CancelSpeedTest(s)) PROVE IInv'
<1>1. /\ UNCHANGED <<transport, phase, recv, upl, sender, finish, timer>>
      /\ table' = [table EXCEPT ![s] = Nil]
      /\ emitted' = emitted \/ Emit(s, "cancelled")
      /\ UNCHANGED wireVars \/ stSend(s, <<Msg("st_cancel")>>)
  BY DEF Step, CancelSpeedTest
<1>2. up' \in [Sides -> BOOLEAN] /\ cancel' \in [Objs -> {"nil", "open", "closed"}]
  BY DEF IInv, TypeOK, Step, CancelSpeedTest, CloseCancel
<1>3. emitted' \in [Sides -> Seq(Outcomes)]
  <2>1. "cancelled" \in Outcomes
    BY DEF Outcomes
  <2>. QED
    BY <1>1, <2>1, EmitType DEF IInv, TypeOK
<1>4. WireTypes' /\ NoNews
  <2>1. CASE UNCHANGED wireVars
    BY <2>1 DEF wireVars, Wire, WireTypes, IInv, TypeOK, NoNews
  <2>2. CASE stSend(s, <<Msg("st_cancel")>>)
    <3>1. TypeOK /\ Msg("st_cancel") \in Messages
      BY SentTypes DEF IInv
    <3>2. /\ <<Msg("st_cancel")>> \in Seq(Messages)
          /\ Vals(<<Msg("st_cancel")>>) = {Msg("st_cancel")}
      BY <3>1, SentTypes
    <3>3. /\ WireTypes'
          /\ \A t \in Sides : Wire(t)' \subseteq Wire(t) \cup {Msg("st_cancel")}
      BY <3>1, <3>2, <2>2, Said
    <3>. QED
      BY <3>3, Distinct DEF NoNews
  <2>. QED
    BY <1>1, <2>1, <2>2
<1>5. table' \in [Sides -> Objs \cup {Nil}] /\ Locals' /\ Owned' /\ Leaving'
  BY <1>1, DeleteFrame
<1>6. TypeOK'
  BY <1>1, <1>2, <1>3, <1>4, <1>5 DEF IInv, TypeOK, WireTypes
<1>7. Causal'
  BY <1>1, <1>4, CausalQuiet
<1>. QED
  BY <1>5, <1>6, <1>7 DEF IInv

LEMMA handleSTCancelInv ==
  ASSUME NEW s \in Sides, IInv, Step(handleSTCancel(s)) PROVE IInv'
<1>1. /\ UNCHANGED <<transport, phase, recv, upl, sender, finish, timer>>
      /\ table' = table \/ table' = [table EXCEPT ![s] = Nil]
      /\ Reading(s, Msg("st_cancel")) /\ TakeAndSend(s, <<>>)
      /\ emitted' = emitted \/ Emit(s, "cancelled by peer")
  BY DEF Step, handleSTCancel
<1>2. up' \in [Sides -> BOOLEAN] /\ cancel' \in [Objs -> {"nil", "open", "closed"}]
  BY DEF IInv, TypeOK, Step, handleSTCancel, CloseCancel
<1>3. emitted' \in [Sides -> Seq(Outcomes)]
  <2>1. "cancelled by peer" \in Outcomes
    BY DEF Outcomes
  <2>. QED
    BY <1>1, <2>1, EmitType DEF IInv, TypeOK
<1>4. WireTypes' /\ NoNews
  BY <1>1, Quiet
<1>5. table' \in [Sides -> Objs \cup {Nil}] /\ Locals' /\ Owned' /\ Leaving'
  BY <1>1, DeleteFrame
<1>6. TypeOK'
  BY <1>1, <1>2, <1>3, <1>4, <1>5 DEF IInv, TypeOK, WireTypes
<1>7. Causal'
  BY <1>1, <1>4, CausalQuiet
<1>. QED
  BY <1>5, <1>6, <1>7 DEF IInv

(* A begin moves the phase of the test of its side, or makes a new one.    *)
LEMMA handleSTBeginInv ==
  ASSUME NEW s \in Sides, IInv, Step(handleSTBegin(s)) PROVE IInv'
<1>1. PICK dir \in {"upload", "download"} :
        /\ Reading(s, Begin(dir)) /\ TakeAndSend(s, <<Msg("st_ready")>>)
        /\ \/ /\ table[s] # Nil /\ dir = "download"
              /\ phase' = [phase EXCEPT ![table[s]] = "download"]
              /\ recv' = [recv EXCEPT ![table[s]] = 0]
              /\ UNCHANGED table
           \/ \E o \in Objs :
                /\ Fresh(o)
                /\ phase' = [phase EXCEPT ![o] = "receiving"]
                /\ table' = [table EXCEPT ![s] = o]
                /\ UNCHANGED recv
  BY DEF Step, handleSTBegin
<1>2. UNCHANGED <<transport, up, upl, cancel, sender, finish, emitted, timer>>
  BY DEF Step, handleSTBegin
<1>3. Begin(dir) \in Wire(s) /\ WireTypes' /\ NoNews
  BY <1>1, Quiet
<1>4. finish[s].stage = "idle"
  BY <1>1 DEF Reading, NoFinish
<1>5. CASE /\ table[s] # Nil /\ dir = "download"
           /\ phase' = [phase EXCEPT ![table[s]] = "download"]
           /\ recv' = [recv EXCEPT ![table[s]] = 0]
           /\ UNCHANGED table
  <2>1. table[s] \in Objs
    BY <1>5 DEF IInv, TypeOK
  <2>2. TypeOK'
    BY <1>2, <1>3, <1>5, <2>1 DEF IInv, TypeOK, WireTypes, Phases
  <2>3. \A o \in Objs : phase'[o] = phase[o] \/ phase'[o] = "download"
    BY <1>5 DEF IInv, TypeOK
  <2>4. Locals' /\ Leaving'
    BY <1>2, <1>5, <2>3 DEF IInv, Locals, Leaving
  <2>5. Owned'
    <3>1. \A t \in Sides, o \in Objs : Uses(t, o)' => Uses(t, o)
      BY <1>2, <1>5 DEF Uses
    <3>. QED
      BY <2>3, <3>1, OwnedFrame DEF IInv
  <2>6. \/ phase'[Orig] = phase[Orig]
        \/ phase'[Orig] = "download" /\ SentAll("A")
    <3>1. CASE table[s] # Orig
      BY <1>5, <3>1, ObjFacts DEF IInv, TypeOK
    <3>2. CASE table[s] = Orig
      <4>1. s = "A"
        BY <3>2 DEF IInv, Owned, Uses, Sides
      <4>2. SentAll("A")
        BY <1>3, <1>5, <4>1 DEF IInv, Causal
      <4>. QED
        BY <4>2, <2>3, ObjFacts
    <3>. QED
      BY <3>1, <3>2
  <2>7. Causal'
    BY <1>2, <1>3, <2>6, CausalQuiet
  <2>. QED
    BY <2>2, <2>4, <2>5, <2>7 DEF IInv
<1>6. ASSUME NEW o \in Objs, Fresh(o),
             phase' = [phase EXCEPT ![o] = "receiving"],
             table' = [table EXCEPT ![s] = o], UNCHANGED recv
      PROVE IInv'
  <2>1. phase[o] = "new" /\ o # Orig
    BY <1>6 DEF Fresh, IInv, Causal
  <2>2. TypeOK'
    BY <1>2, <1>3, <1>6 DEF IInv, TypeOK, WireTypes, Phases
  <2>3. \A t \in Sides : ~Uses(t, o)
    BY <2>1 DEF IInv, Owned
  <2>4. /\ \A p \in Objs : phase'[p] = IF p = o THEN "receiving" ELSE phase[p]
        /\ \A t \in Sides : table'[t] = IF t = s THEN o ELSE table[t]
    BY <1>6 DEF IInv, TypeOK
  <2>5. Locals'
    BY <1>2, <1>4, <2>4 DEF IInv, Locals
  <2>6. \A t \in Sides, p \in Objs : Uses(t, p)' => Uses(t, p) \/ (t = s /\ p = o)
    BY <1>2, <2>4 DEF Uses
  <2>7. Owned'
    <3>1. ~Uses("B", Orig)'
      BY <2>1, <2>6, ObjFacts DEF IInv, Owned, Sides
    <3>2. \A p \in Objs : ~(Uses("A", p)' /\ Uses("B", p)')
      BY <2>3, <2>6 DEF IInv, Owned, Sides
    <3>3. \A p \in Objs, t \in Sides : Uses(t, p)' => phase'[p] # "new"
      BY <2>3, <2>4, <2>6 DEF IInv, Owned
    <3>. QED
      BY <3>1, <3>2, <3>3 DEF Owned
  <2>8. Leaving'
    BY <1>2, <2>3, <2>4 DEF IInv, Leaving, Uses
  <2>9. Causal'
    BY <1>2, <1>3, <2>1, <2>4, ObjFacts, CausalQuiet
  <2>. QED
    BY <2>2, <2>5, <2>7, <2>8, <2>9 DEF IInv
<1>. QED
  BY <1>1, <1>5, <1>6

(* st_ready starts a sender of the side's own object.                      *)
LEMMA handleSTReadyInv ==
  ASSUME NEW s \in Sides, IInv, Step(handleSTReady(s)) PROVE IInv'
<1>1. /\ UNCHANGED <<transport, up, table, phase, recv, upl, cancel, finish,
                     emitted, timer>>
      /\ Reading(s, Msg("st_ready")) /\ TakeAndSend(s, <<>>)
      /\ \/ UNCHANGED sender
         \/ \E g \in Senders : /\ table[s] # Nil /\ Idle(g)
                               /\ sender' = [sender EXCEPT ![g] =
                                    [stage |-> "send", side |-> s,
                                     obj |-> table[s], sent |-> 0]]
  BY DEF Step, handleSTReady, objVars
<1>2. WireTypes' /\ NoNews
  BY <1>1, Quiet
<1>3. CASE UNCHANGED sender
  <2>1. TypeOK'
    BY <1>1, <1>2, <1>3 DEF IInv, TypeOK, WireTypes
  <2>2. Locals' /\ Owned' /\ Leaving'
    BY <1>1, <1>3 DEF IInv, Locals, Owned, Uses, Leaving
  <2>3. Causal'
    BY <1>1, <1>2, <1>3, CausalQuiet
  <2>. QED
    BY <2>1, <2>2, <2>3 DEF IInv
<1>4. ASSUME NEW g \in Senders, table[s] # Nil, Idle(g),
             sender' = [sender EXCEPT ![g] =
                          [stage |-> "send", side |-> s,
                           obj |-> table[s], sent |-> 0]]
      PROVE IInv'
  <2>1. table[s] \in Objs /\ sender[g].stage = "new"
    BY <1>4 DEF IInv, TypeOK, Idle
  <2>2. \A h \in Senders :
          sender'[h] = IF h = g THEN [stage |-> "send", side |-> s,
                                      obj |-> table[s], sent |-> 0]
                                ELSE sender[h]
    BY <1>4 DEF IInv, TypeOK
  <2>3. sender' \in [Senders -> [stage : {"new", "send", "pause", "tail", "end"},
                                 side : Sides \cup {Nil},
                                 obj : Objs \cup {Nil}, sent : 0 .. Chunks]]
    BY <1>4, <2>1 DEF IInv, TypeOK
  <2>4. TypeOK'
    BY <1>1, <1>2, <2>3 DEF IInv, TypeOK, WireTypes
  <2>5. Locals'
    BY <1>1, <2>1, <2>2 DEF IInv, Locals
  <2>6. Owned' /\ Leaving'
    <3>1. \A t \in Sides, o \in Objs : Uses(t, o)' => Uses(t, o)
      BY <1>1, <2>2 DEF Uses
    <3>. QED
      BY <1>1, <3>1, OwnedFrame DEF IInv, Leaving
  <2>7. \A t \in Sides : SentAll(t) => SentAll(t)'
    <3>1. sender[g].sent # Chunks
      BY <2>1 DEF IInv, Locals
    <3>. QED
      BY <2>2, <3>1 DEF SentAll
  <2>8. Causal'
    BY <1>1, <1>2, <2>7, CausalFrame DEF NoNews
  <2>. QED
    BY <2>4, <2>5, <2>6, <2>8 DEF IInv
<1>. QED
  BY <1>1, <1>3, <1>4

(* The three steps of a sender touch that sender, the wire and, at the     *)
(* end, the phase of its own object.                                       *)
LEMMA SenderMoves ==
  ASSUME IInv, NEW g \in Senders, NEW r,
         sender' = [sender EXCEPT ![g] = r],
         sender[g].stage \in {"send", "pause", "tail"},
         r \in [stage : {"send", "pause", "tail", "end"},
                side : Sides, obj : Objs, sent : 0 .. Chunks],
         r.side = sender[g].side, r.obj = sender[g].obj,
         r.sent = sender[g].sent \/ sender[g].sent # Chunks,
         r.stage \in {"pause", "tail"} => r.sent = Chunks,
         UNCHANGED <<table, finish>>
  PROVE  /\ sender' \in [Senders ->
                          [stage : {"new", "send", "pause", "tail", "end"},
                           side : Sides \cup {Nil},
                           obj : Objs \cup {Nil}, sent : 0 .. Chunks]]
         /\ Locals'
         /\ \A t \in Sides, o \in Objs : Uses(t, o)' => Uses(t, o)
         /\ \A t \in Sides : SentAll(t) => SentAll(t)'
<1>1. \A h \in Senders : sender'[h] = IF h = g THEN r ELSE sender[h]
  BY DEF IInv, TypeOK
<1>2. sender' \in [Senders -> [stage : {"new", "send", "pause", "tail", "end"},
                               side : Sides \cup {Nil},
                               obj : Objs \cup {Nil}, sent : 0 .. Chunks]]
  BY DEF IInv, TypeOK
<1>3. Locals'
  BY <1>1 DEF IInv, Locals
<1>4. \A t \in Sides, o \in Objs : Uses(t, o)' => Uses(t, o)
  BY <1>1 DEF Uses
<1>5. \A t \in Sides : SentAll(t) => SentAll(t)'
  BY <1>1 DEF SentAll
<1>. QED
  BY <1>2, <1>3, <1>4, <1>5

LEMMA SendChunkInv ==
  ASSUME NEW g \in Senders, IInv, Step(SendChunk(g)) PROVE IInv'
<1> DEFINE s == sender[g].side   k == sender[g].sent
           m == [type |-> "data", seq |-> k]
           last == [sender[g] EXCEPT !.stage = "end"]
           more == [sender[g] EXCEPT !.sent = @ + 1]
<1>1. /\ UNCHANGED <<transport, up, table, phase, recv, upl, cancel, finish,
                     emitted, timer>>
      /\ sender[g].stage = "send" /\ k < Chunks
      /\ \/ sender' = [sender EXCEPT ![g] = last] /\ UNCHANGED wireVars
         \/ sender' = [sender EXCEPT ![g] = more] /\ stSend(s, <<m>>)
  BY DEF Step, SendChunk, objVars
<1>2. /\ sender[g] \in [stage : {"new", "send", "pause", "tail", "end"},
                        side : Sides \cup {Nil}, obj : Objs \cup {Nil},
                        sent : 0 .. Chunks]
      /\ s \in Sides /\ sender[g].obj \in Objs /\ k \in 0 .. Chunks - 1
  BY <1>1 DEF IInv, TypeOK, Locals
<1>3. /\ last \in [stage : {"send", "pause", "tail", "end"}, side : Sides,
                   obj : Objs, sent : 0 .. Chunks]
      /\ last.side = s /\ last.obj = sender[g].obj /\ last.sent = k
      /\ last.stage = "end"
  BY <1>2
<1>4. /\ more \in [stage : {"send", "pause", "tail", "end"}, side : Sides,
                   obj : Objs, sent : 0 .. Chunks]
      /\ more.side = s /\ more.obj = sender[g].obj /\ more.stage = "send"
  BY <1>1, <1>2
<1>5. k # Chunks
  BY <1>1, <1>2
<1> HIDE DEF last, more
<1>6. /\ sender' \in [Senders ->
                       [stage : {"new", "send", "pause", "tail", "end"},
                        side : Sides \cup {Nil},
                        obj : Objs \cup {Nil}, sent : 0 .. Chunks]]
      /\ Locals'
      /\ \A t \in Sides, o \in Objs : Uses(t, o)' => Uses(t, o)
      /\ \A t \in Sides : SentAll(t) => SentAll(t)'
  <2>1. CASE sender' = [sender EXCEPT ![g] = last]
    BY <1>1, <1>3, <2>1, SenderMoves
  <2>2. CASE sender' = [sender EXCEPT ![g] = more]
    BY <1>1, <1>4, <1>5, <2>2, SenderMoves
  <2>. QED
    BY <1>1, <2>1, <2>2
<1> HIDE DEF s, k, m
<1>7. WireTypes' /\ NoNews
  <2>1. CASE UNCHANGED wireVars
    BY <2>1 DEF wireVars, Wire, WireTypes, IInv, TypeOK, NoNews
  <2>2. CASE stSend(s, <<m>>)
    <3>1. TypeOK /\ m \in Messages
      BY <1>2, SentTypes DEF IInv, m
    <3>2. <<m>> \in Seq(Messages) /\ Vals(<<m>>) = {m}
      BY <3>1, SentTypes
    <3>3. WireTypes' /\ \A t \in Sides : Wire(t)' \subseteq Wire(t) \cup {m}
      BY <1>2, <3>1, <3>2, <2>2, Said
    <3>4. m # Msg("st_finish") /\ m # Begin("download")
      BY Distinct DEF m
    <3>. QED
      BY <3>3, <3>4 DEF NoNews
  <2>. QED
    BY <1>1, <2>1, <2>2
<1>8. TypeOK'
  BY <1>1, <1>6, <1>7 DEF IInv, TypeOK, WireTypes
<1>9. Owned' /\ Leaving'
  BY <1>1, <1>6, OwnedFrame DEF IInv, Leaving
<1>10. Causal'
  BY <1>1, <1>6, <1>7, CausalFrame DEF NoNews
<1>. QED
  BY <1>6, <1>8, <1>9, <1>10 DEF IInv

(* st_finish leaves a side that has sent all its chunks.                   *)
LEMMA SendFinishInv ==
  ASSUME NEW g \in Senders, IInv, Step(SendFinish(g)) PROVE IInv'
<1> DEFINE next(p) == [sender[g] EXCEPT !.stage = p]
           m == Msg("st_finish")
<1>1. PICK p \in {"pause", "tail"} :
        /\ UNCHANGED <<transport, up, table, phase, recv, upl, cancel, finish,
                       emitted, timer>>
        /\ \/ sender[g].stage = "send" /\ sender[g].sent = Chunks
           \/ sender[g].stage = "pause"
        /\ sender' = [sender EXCEPT ![g] = next(p)]
        /\ stSend(sender[g].side, <<m>>)
  BY DEF Step, SendFinish, objVars
<1>2. /\ sender[g] \in [stage : {"new", "send", "pause", "tail", "end"},
                        side : Sides \cup {Nil}, obj : Objs \cup {Nil},
                        sent : 0 .. Chunks]
      /\ sender[g].side \in Sides /\ sender[g].obj \in Objs
      /\ sender[g].sent = Chunks
  BY <1>1 DEF IInv, TypeOK, Locals
<1>3. /\ next(p) \in [stage : {"send", "pause", "tail", "end"}, side : Sides,
                      obj : Objs, sent : 0 .. Chunks]
      /\ next(p).side = sender[g].side /\ next(p).obj = sender[g].obj
      /\ next(p).sent = Chunks
  BY <1>2
<1> HIDE DEF next
<1>4. /\ sender' \in [Senders ->
                       [stage : {"new", "send", "pause", "tail", "end"},
                        side : Sides \cup {Nil},
                        obj : Objs \cup {Nil}, sent : 0 .. Chunks]]
      /\ Locals'
      /\ \A t \in Sides, o \in Objs : Uses(t, o)' => Uses(t, o)
      /\ \A t \in Sides : SentAll(t) => SentAll(t)'
  BY <1>1, <1>2, <1>3, SenderMoves
<1>5. PICK s \in Sides : s = sender[g].side
  BY <1>2
<1> HIDE DEF m
<1>6. /\ WireTypes' /\ Wire(s)' \subseteq Wire(s)
      /\ \A t \in Sides : Wire(t)' \subseteq Wire(t) \cup {m}
  <2>1. TypeOK /\ m \in Messages
    BY SentTypes DEF IInv, m
  <2>2. <<m>> \in Seq(Messages) /\ Vals(<<m>>) = {m}
    BY <2>1, SentTypes
  <2>. QED
    BY <1>1, <1>5, <2>1, <2>2, Said
<1>7. TypeOK'
  BY <1>1, <1>4, <1>6 DEF IInv, TypeOK, WireTypes
<1>8. Owned' /\ Leaving'
  BY <1>1, <1>4, OwnedFrame DEF IInv, Leaving
<1>9. \A t \in Sides :
        /\ Msg("st_finish") \in Wire(t)' =>
             Msg("st_finish") \in Wire(t) \/ SentAll(Peer(t))'
        /\ Begin("download") \in Wire(t)' => Begin("download") \in Wire(t)
  <2>1. m # Begin("download")
    BY Distinct DEF m
  <2>2. SentAll(s)'
    <3>1. SentAll(s)
      BY <1>2, <1>5 DEF SentAll
    <3>. QED
      BY <1>4, <3>1
  <2>3. \A t \in Sides : t # s => Peer(t) = s
    BY PeerFacts
  <2>. QED
    BY <1>6, <2>1, <2>2, <2>3
<1>10. Causal'
  BY <1>1, <1>4, <1>9, CausalFrame
<1>. QED
  BY <1>4, <1>7, <1>8, <1>10 DEF IInv

(* The tail moves an upload on, after all its chunks went out.             *)
LEMMA SendTailInv ==
  ASSUME NEW g \in Senders, IInv, Step(SendTail(g)) PROVE IInv'
<1> DEFINE o == sender[g].obj
           last == [sender[g] EXCEPT !.stage = "end"]
<1>1. /\ UNCHANGED <<transport, up, table, upl, cancel, queue, net, finish,
                     emitted, timer>>
      /\ sender[g].stage = "tail"
      /\ sender' = [sender EXCEPT ![g] = last]
      /\ \/ /\ phase[o] = "upload"
            /\ phase' = [phase EXCEPT ![o] = "waiting_download"]
            /\ recv' = [recv EXCEPT ![o] = 0]
         \/ UNCHANGED <<phase, recv>>
  BY DEF Step, SendTail, wireVars
<1>2. /\ sender[g] \in [stage : {"new", "send", "pause", "tail", "end"},
                        side : Sides \cup {Nil}, obj : Objs \cup {Nil},
                        sent : 0 .. Chunks]
      /\ sender[g].side \in Sides /\ o \in Objs /\ sender[g].sent = Chunks
  BY <1>1 DEF IInv, TypeOK, Locals
<1>3. /\ last \in [stage : {"send", "pause", "tail", "end"}, side : Sides,
                   obj : Objs, sent : 0 .. Chunks]
      /\ last.side = sender[g].side /\ last.obj = o /\ last.sent = Chunks
      /\ last.stage = "end"
  BY <1>2
<1> HIDE DEF last
<1>4. /\ sender' \in [Senders ->
                       [stage : {"new", "send", "pause", "tail", "end"},
                        side : Sides \cup {Nil},
                        obj : Objs \cup {Nil}, sent : 0 .. Chunks]]
      /\ Locals'
      /\ \A t \in Sides, q \in Objs : Uses(t, q)' => Uses(t, q)
      /\ \A t \in Sides : SentAll(t) => SentAll(t)'
  BY <1>1, <1>2, <1>3, SenderMoves
<1>5. \A q \in Objs : \/ phase'[q] = phase[q]
                      \/ q = o /\ phase'[q] = "waiting_download"
  BY <1>1 DEF IInv, TypeOK
<1>6. phase' \in [Objs -> Phases] /\ recv' \in [Objs -> 0 .. MaxRecv]
  <2> HIDE DEF o
  <2>1. phase \in [Objs -> Phases] /\ recv \in [Objs -> 0 .. MaxRecv]
    BY DEF IInv, TypeOK
  <2>2. "waiting_download" \in Phases /\ 0 \in 0 .. MaxRecv
    BY DEF Phases
  <2>. QED
    BY <1>1, <1>2, <2>1, <2>2
<1>7. TypeOK'
  BY <1>1, <1>4, <1>6 DEF IInv, TypeOK
<1>8. Owned' /\ Leaving'
  BY <1>1, <1>4, <1>5, OwnedFrame DEF IInv, Leaving
<1>9. \/ phase'[Orig] = phase[Orig]
      \/ phase'[Orig] = "waiting_download" /\ SentAll("A")
  <2>1. CASE o # Orig
    BY <2>1, <1>5, ObjFacts
  <2>2. CASE o = Orig
    <3>1. sender[g].side = "A"
      BY <1>2, <2>2 DEF IInv, Owned, Uses, Sides
    <3>2. SentAll("A")
      BY <1>2, <3>1 DEF SentAll
    <3>. QED
      BY <1>5, <3>2, ObjFacts
  <2>. QED
    BY <2>1, <2>2
<1>10. \A t \in Sides : Wire(t)' = Wire(t)
  BY <1>1 DEF Wire
<1>11. Causal'
  BY <1>1, <1>4, <1>9, <1>10, CausalFrame
<1>. QED
  BY <1>4, <1>7, <1>8, <1>11 DEF IInv

LEMMA processSpeedTestDataInv ==
  ASSUME NEW s \in Sides, IInv, Step(processSpeedTestData(s)) PROVE IInv'
<1>1. /\ UNCHANGED <<transport, up, table, phase, upl, cancel, sender,
                     finish, emitted, timer>>
      /\ TakeAndSend(s, <<>>)
      /\ \E k : Reading(s, [type |-> "data", seq |-> k])
  BY DEF Step, processSpeedTestData
<1>2. \/ UNCHANGED recv
      \/ /\ table[s] # Nil /\ recv[table[s]] < MaxRecv
         /\ recv' = [recv EXCEPT ![table[s]] = @ + 1]
  BY DEF Step, processSpeedTestData
<1>3. WireTypes' /\ NoNews
  BY <1>1, Quiet
<1>4. recv' \in [Objs -> 0 .. MaxRecv]
  <2>1. recv \in [Objs -> 0 .. MaxRecv] /\ table[s] \in Objs \cup {Nil}
    BY DEF IInv, TypeOK
  <2>. QED
    BY <1>2, <2>1
<1>5. TypeOK'
  BY <1>1, <1>3, <1>4 DEF IInv, TypeOK, WireTypes
<1>6. Locals' /\ Owned' /\ Leaving'
  BY <1>1 DEF IInv, Locals, Owned, Uses, Leaving
<1>7. Causal'
  BY <1>1, <1>3, CausalQuiet
<1>. QED
  BY <1>5, <1>6, <1>7 DEF IInv

(* The lookup takes the entry: only a side whose peer sent all gets one.   *)
LEMMA FinishLookupInv ==
  ASSUME NEW s \in Sides, IInv, Step(FinishLookup(s)) PROVE IInv'
<1> DEFINE r == IF table[s] = Nil THEN NoFinish
                ELSE [stage |-> "apply", obj |-> table[s]]
<1>1. /\ UNCHANGED <<transport, up, table, phase, recv, upl, cancel, sender,
                     emitted, timer>>
      /\ Reading(s, Msg("st_finish")) /\ TakeAndSend(s, <<>>)
      /\ finish' = [finish EXCEPT ![s] = r]
  BY DEF Step, FinishLookup, objVars
<1>2. Msg("st_finish") \in Wire(s) /\ WireTypes' /\ NoNews
  BY <1>1, Quiet
<1>3. /\ r \in [stage : {"idle", "apply", "delete"}, obj : Objs \cup {Nil}]
      /\ r.stage # "idle" => r.obj \in Objs
      /\ r.obj = table[s] /\ r.stage # "delete"
  BY DEF IInv, TypeOK, NoFinish
<1>4. finish[s].stage = "idle"
  BY <1>1 DEF Reading, NoFinish
<1> HIDE DEF r
<1>5. \A t \in Sides : finish'[t] = IF t = s THEN r ELSE finish[t]
  BY <1>1 DEF IInv, TypeOK
<1>6. TypeOK'
  BY <1>1, <1>2, <1>3 DEF IInv, TypeOK, WireTypes
<1>7. Locals'
  BY <1>1, <1>3, <1>5 DEF IInv, Locals
<1>8. Owned'
  <2>1. \A t \in Sides, o \in Objs : Uses(t, o)' => Uses(t, o)
    BY <1>1, <1>3, <1>5 DEF Uses
  <2>. QED
    BY <1>1, <2>1, OwnedFrame DEF IInv
<1>9. Leaving'
  BY <1>1, <1>4, <1>5 DEF IInv, Leaving
<1>10. Causal'
  BY <1>1, <1>2, <1>5, CausalQuiet
<1>. QED
  BY <1>6, <1>7, <1>8, <1>9, <1>10 DEF IInv

(* Applying a finish: the responder turns around, the initiator is done.   *)
LEMMA FinishApplyInv ==
  ASSUME NEW s \in Sides, IInv, Step(FinishApply(s)) PROVE IInv'
<1>1. PICK o \in Objs : o = finish[s].obj
  BY DEF IInv, Locals, Step, FinishApply
<1>2. /\ UNCHANGED <<transport, up, table, upl, cancel, sender, timer>>
      /\ finish[s].stage = "apply"
  BY DEF Step, FinishApply
<1>3. /\ finish[s] \in [stage : {"idle", "apply", "delete"}, obj : Objs \cup {Nil}]
      /\ table[s] \in {Nil, o} /\ SentAll(Peer(s)) /\ Uses(s, o)
      /\ phase \in [Objs -> Phases] /\ recv \in [Objs -> 0 .. MaxRecv]
      /\ finish \in [Sides -> [stage : {"idle", "apply", "delete"},
                               obj : Objs \cup {Nil}]]
      /\ table \in [Sides -> Objs \cup {Nil}]
  BY <1>1, <1>2 DEF IInv, TypeOK, Locals, Causal, Uses
<1>4. o = Orig => s = "A"
  BY <1>3 DEF IInv, Owned, Sides
<1>5. \A t \in Sides : t # s => table[t] # o
  BY <1>3 DEF IInv, Owned, Uses, Sides
<1>6. CASE phase[o] = "receiving"
  <2>1. /\ phase' = [phase EXCEPT ![o] = "download"]
        /\ recv' = [recv EXCEPT ![o] = 0]
        /\ stSend(s, <<Msg("st_result"), Begin("download")>>)
        /\ finish' = [finish EXCEPT ![s] = NoFinish]
        /\ UNCHANGED emitted
    BY <1>1, <1>6 DEF Step, FinishApply
  <2>2. /\ WireTypes' /\ Wire(s)' \subseteq Wire(s)
        /\ \A t \in Sides : Wire(t)' \subseteq
             Wire(t) \cup {Msg("st_result"), Begin("download")}
    <3>1. TypeOK /\ Msg("st_result") \in Messages /\ Begin("download") \in Messages
      BY SentTypes DEF IInv
    <3>2. /\ <<Msg("st_result"), Begin("download")>> \in Seq(Messages)
          /\ Vals(<<Msg("st_result"), Begin("download")>>)
               = {Msg("st_result"), Begin("download")}
      BY <3>1, SentTypes
    <3>. QED
      BY <2>1, <3>1, <3>2, Said
  <2>3. /\ \A q \in Objs : phase'[q] = IF q = o THEN "download" ELSE phase[q]
        /\ \A t \in Sides : finish'[t] = IF t = s THEN NoFinish ELSE finish[t]
        /\ phase' \in [Objs -> Phases] /\ recv' \in [Objs -> 0 .. MaxRecv]
        /\ finish' \in [Sides -> [stage : {"idle", "apply", "delete"},
                                  obj : Objs \cup {Nil}]]
    BY <1>3, <2>1 DEF Phases, NoFinish
  <2>4. TypeOK'
    BY <1>2, <2>1, <2>2, <2>3 DEF IInv, TypeOK, WireTypes
  <2>5. Locals'
    BY <1>2, <2>3 DEF IInv, Locals, NoFinish
  <2>6. Owned'
    <3>1. \A t \in Sides, q \in Objs : Uses(t, q)' => Uses(t, q)
      BY <1>2, <2>3, ObjFacts DEF Uses, NoFinish
    <3>. QED
      BY <2>3, <3>1, OwnedFrame DEF IInv
  <2>7. Leaving'
    <3> SUFFICES ASSUME NEW t \in Sides, NEW q \in Objs,
                        table[t] = q, phase'[q] = "done"
                 PROVE  finish'[t].stage = "delete"
      BY <1>2 DEF Leaving
    <3>1. q # o /\ phase[q] = "done"
      BY <2>3
    <3>2. t # s
      BY <1>3, <3>1, ObjFacts
    <3>. QED
      BY <2>3, <3>1, <3>2 DEF IInv, Leaving
  <2>8. \A t \in Sides :
          /\ Msg("st_finish") \in Wire(t)' => Msg("st_finish") \in Wire(t)
          /\ Begin("download") \in Wire(t)' =>
               Begin("download") \in Wire(t) \/ t = "B" \/ SentAll("A")
    <3>1. s = "A" \/ SentAll("A")
      BY <1>3 DEF Peer, Sides
    <3>2. Msg("st_finish") # Msg("st_result") /\ Msg("st_finish") # Begin("download")
      BY Distinct
    <3>3. \A t \in Sides : t = "A" \/ t = "B"
      BY DEF Sides
    <3>. QED
      BY <2>2, <3>1, <3>2, <3>3
  <2>9. phase'[Orig] = phase[Orig]
    BY <1>6, <2>3, ObjFacts DEF IInv, Causal
  <2>10. \A t : SentAll(t)' = SentAll(t)
    BY <1>2 DEF SentAll
  <2>11. \A t \in Sides : finish'[t].stage # "idle" => finish[t].stage # "idle"
    BY <2>3 DEF NoFinish
  <2>12. Causal'
    BY <2>8, <2>9, <2>10, <2>11, CausalFrame
  <2>. QED
    BY <2>4, <2>5, <2>6, <2>7, <2>12 DEF IInv
<1>7. CASE phase[o] \in {"waiting_download", "download"}
  <2>1. /\ phase' = [phase EXCEPT ![o] = "done"]
        /\ Emit(s, "result")
        /\ finish' = [finish EXCEPT ![s].stage = "delete"]
        /\ UNCHANGED <<recv, wireVars>>
    BY <1>1, <1>7 DEF Step, FinishApply
  <2>2. emitted' \in [Sides -> Seq(Outcomes)]
    <3>1. "result" \in Outcomes
      BY DEF Outcomes
    <3>. QED
      BY <2>1, <3>1, EmitType DEF IInv
  <2>3. /\ \A q \in Objs : phase'[q] = IF q = o THEN "done" ELSE phase[q]
        /\ \A t \in Sides : /\ finish'[t].obj = finish[t].obj
                            /\ t # s => finish'[t].stage = finish[t].stage
        /\ finish'[s].stage = "delete"
        /\ phase' \in [Objs -> Phases]
        /\ finish' \in [Sides -> [stage : {"idle", "apply", "delete"},
                                  obj : Objs \cup {Nil}]]
    BY <1>3, <2>1 DEF Phases
  <2>4. TypeOK'
    BY <1>2, <2>1, <2>2, <2>3 DEF IInv, TypeOK, wireVars
  <2>5. Locals'
    BY <1>1, <1>2, <1>3, <2>3 DEF IInv, Locals
  <2>6. Owned'
    <3>1. \A t \in Sides, q \in Objs : Uses(t, q)' => Uses(t, q)
      BY <1>2, <2>3 DEF Uses
    <3>. QED
      BY <2>3, <3>1, OwnedFrame DEF IInv
  <2>7. Leaving'
    BY <1>2, <1>5, <2>3 DEF IInv, Leaving
  <2>8. NoNews
    BY <2>1 DEF NoNews, Wire, wireVars
  <2>9. \/ phase'[Orig] = phase[Orig]
        \/ phase'[Orig] = "done" /\ SentAll("A") /\ SentAll("B")
    <3>1. CASE o # Orig
      BY <2>3, <3>1, ObjFacts
    <3>2. CASE o = Orig
      <4>1. SentAll("B")
        BY <1>3, <1>4, <3>2 DEF Peer
      <4>2. SentAll("A")
        BY <1>7, <3>2 DEF IInv, Causal
      <4>. QED
        BY <2>3, <3>2, <4>1, <4>2
    <3>. QED
      BY <3>1, <3>2
  <2>10. \A t \in Sides : finish'[t].stage # "idle" => finish[t].stage # "idle"
    BY <1>2, <2>3
  <2>11. Causal'
    BY <1>2, <2>8, <2>9, <2>10, CausalQuiet
  <2>. QED
    BY <2>4, <2>5, <2>6, <2>7, <2>11 DEF IInv
<1>8. CASE phase[o] \notin {"receiving", "waiting_download", "download"}
  <2>1. /\ finish' = [finish EXCEPT ![s] = NoFinish]
        /\ UNCHANGED <<phase, recv, emitted, wireVars>>
    BY <1>1, <1>8 DEF Step, FinishApply
  <2>2. /\ \A t \in Sides : finish'[t] = IF t = s THEN NoFinish ELSE finish[t]
        /\ finish' \in [Sides -> [stage : {"idle", "apply", "delete"},
                                  obj : Objs \cup {Nil}]]
    BY <1>3, <2>1 DEF NoFinish
  <2>3. TypeOK'
    BY <1>2, <2>1, <2>2 DEF IInv, TypeOK, wireVars
  <2>4. Locals'
    BY <1>2, <2>2 DEF IInv, Locals, NoFinish
  <2>5. Owned'
    <3>1. \A t \in Sides, q \in Objs : Uses(t, q)' => Uses(t, q)
      BY <1>2, <2>2, ObjFacts DEF Uses, NoFinish
    <3>. QED
      BY <2>1, <3>1, OwnedFrame DEF IInv
  <2>6. Leaving'
    <3>1. \A q \in Objs : table[s] = q => phase[q] # "done"
      BY <1>2 DEF IInv, Leaving
    <3>. QED
      BY <1>2, <2>1, <2>2, <3>1 DEF IInv, Leaving
  <2>7. NoNews
    BY <2>1 DEF NoNews, Wire, wireVars
  <2>8. \A t \in Sides : finish'[t].stage # "idle" => finish[t].stage # "idle"
    BY <2>2 DEF NoFinish
  <2>9. Causal'
    BY <1>2, <2>1, <2>7, <2>8, CausalQuiet
  <2>. QED
    BY <2>3, <2>4, <2>5, <2>6, <2>9 DEF IInv
<1>. QED
  BY <1>6, <1>7, <1>8

LEMMA FinishDeleteInv ==
  ASSUME NEW s \in Sides, IInv, Step(FinishDelete(s)) PROVE IInv'
<1>1. /\ UNCHANGED <<transport, up, phase, recv, upl, cancel, sender, queue,
                     net, emitted, timer>>
      /\ table' = [table EXCEPT ![s] = Nil]
      /\ finish' = [finish EXCEPT ![s] = NoFinish]
  BY DEF Step, FinishDelete, objVars, wireVars
<1>2. /\ \A t \in Sides : /\ finish'[t] = IF t = s THEN NoFinish ELSE finish[t]
                          /\ table'[t] = IF t = s THEN Nil ELSE table[t]
      /\ table' \in [Sides -> Objs \cup {Nil}]
      /\ finish' \in [Sides -> [stage : {"idle", "apply", "delete"},
                                obj : Objs \cup {Nil}]]
  BY <1>1 DEF IInv, TypeOK, NoFinish
<1>3. TypeOK'
  BY <1>1, <1>2 DEF IInv, TypeOK
<1>4. Locals'
  BY <1>1, <1>2 DEF IInv, Locals, NoFinish
<1>5. Owned'
  <2>1. \A t \in Sides, o \in Objs : Uses(t, o)' => Uses(t, o)
    BY <1>1, <1>2, ObjFacts DEF Uses, NoFinish
  <2>. QED
    BY <1>1, <2>1, OwnedFrame DEF IInv
<1>6. Leaving'
  BY <1>1, <1>2, ObjFacts DEF IInv, Leaving
<1>7. NoNews
  BY <1>1 DEF NoNews, Wire
<1>8. \A t \in Sides : finish'[t].stage # "idle" => finish[t].stage # "idle"
  BY <1>2 DEF NoFinish
<1>9. Causal'
  BY <1>1, <1>7, <1>8, CausalQuiet
<1>. QED
  BY <1>3, <1>4, <1>5, <1>6, <1>9 DEF IInv

LEMMA handleSTResultInv ==
  ASSUME NEW s \in Sides, IInv, Step(handleSTResult(s)) PROVE IInv'
<1>1. /\ UNCHANGED <<transport, up, table, phase, recv, cancel, sender,
                     finish, emitted, timer>>
      /\ Reading(s, Msg("st_result")) /\ TakeAndSend(s, <<>>)
      /\ upl' = upl \/ upl' = [upl EXCEPT ![table[s]] = TRUE]
  BY DEF Step, handleSTResult
<1>2. WireTypes' /\ NoNews
  BY <1>1, Quiet
<1>3. TypeOK'
  BY <1>1, <1>2 DEF IInv, TypeOK, WireTypes
<1>4. Locals' /\ Owned' /\ Leaving'
  BY <1>1 DEF IInv, Locals, Owned, Uses, Leaving
<1>5. Causal'
  BY <1>1, <1>2, CausalQuiet
<1>. QED
  BY <1>3, <1>4, <1>5 DEF IInv

LEMMA RelayDropInv ==
  ASSUME NEW s \in Sides, IInv, Step(RelayDrop(s)) PROVE IInv'
<1>1. /\ UNCHANGED <<transport, up, table, phase, recv, upl, cancel, sender,
                     net, finish, emitted, timer>>
      /\ queue[s] # <<>> /\ queue' = [queue EXCEPT ![s] = Tail(queue[s])]
  BY DEF Step, RelayDrop, objVars
<1>2. queue \in [Sides -> Seq(Messages)]
  BY DEF IInv, TypeOK
<1>3. /\ Tail(queue[s]) \in Seq(Messages)
      /\ {Tail(queue[s])[i] : i \in DOMAIN Tail(queue[s])}
           \subseteq {queue[s][i] : i \in DOMAIN queue[s]}
  <2>1. queue[s] \in Seq(Messages) /\ queue[s] # <<>>
    BY <1>1, <1>2
  <2>. QED
    BY <2>1, TailValues
<1>4. /\ queue' \in [Sides -> Seq(Messages)]
      /\ queue'[s] = Tail(queue[s])
      /\ \A t \in Sides : t # s => queue'[t] = queue[t]
  BY <1>1, <1>2, <1>3
<1>5. \A t \in Sides : Wire(t)' \subseteq Wire(t)
  <2>1. Wire(s)' \subseteq Wire(s)
    BY <1>1, <1>3, <1>4 DEF Wire
  <2>2. \A t \in Sides : t # s => Wire(t)' = Wire(t)
    BY <1>1, <1>4 DEF Wire
  <2>. QED
    BY <2>1, <2>2
<1>6. NoNews
  BY <1>5 DEF NoNews
<1>7. TypeOK'
  BY <1>1, <1>4 DEF IInv, TypeOK
<1>8. Locals' /\ Owned' /\ Leaving'
  BY <1>1 DEF IInv, Locals, Owned, Uses, Leaving
<1>9. Causal'
  BY <1>1, <1>6, CausalQuiet
<1>. QED
  BY <1>7, <1>8, <1>9 DEF IInv

-----------------------------------------------------------------------------
(* The invariant holds of the test StartSpeedTest just began.              *)
LEMMA InitInv == Init => IInv
<1> SUFFICES ASSUME Init PROVE IInv
  OBVIOUS
<1>1. TypeOK
  <2>1. /\ transport \in Transports /\ up \in [Sides -> BOOLEAN]
        /\ recv \in [Objs -> 0 .. MaxRecv] /\ upl \in [Objs -> BOOLEAN]
        /\ cancel \in [Objs -> {"nil", "open", "closed"}]
        /\ timer \in {"sleeping", "done"}
    BY DEF Init
  <2>2. table \in [Sides -> Objs \cup {Nil}] /\ phase \in [Objs -> Phases]
    BY ObjFacts DEF Init, Phases
  <2>3. sender \in [Senders ->
                     [stage : {"new", "send", "pause", "tail", "end"},
                      side : Sides \cup {Nil}, obj : Objs \cup {Nil},
                      sent : 0 .. Chunks]]
    BY DEF Init
  <2>4. finish \in [Sides -> [stage : {"idle", "apply", "delete"},
                              obj : Objs \cup {Nil}]]
    BY DEF Init, NoFinish
  <2>5. Begin("upload") \in Messages /\ <<>> \in Seq(Messages)
    BY SentTypes
  <2>6. <<Begin("upload")>> \in Seq(Messages)
    BY <2>5, SentTypes
  <2>7. queue \in [Sides -> Seq(Messages)] /\ net \in [Sides -> SUBSET Messages]
    BY <2>5, <2>6 DEF Init
  <2>8. emitted \in [Sides -> Seq(Outcomes)]
    BY DEF Init
  <2>. QED
    BY <2>1, <2>2, <2>3, <2>4, <2>7, <2>8 DEF TypeOK
<1>2. Locals
  BY DEF Init, Locals, NoFinish
<1>3. \A s \in Sides, o \in Objs : Uses(s, o) => s = "A" /\ o = Orig
  BY ObjFacts DEF Init, Uses, NoFinish, Sides
<1>4. Owned
  <2>1. phase[Orig] = "upload" /\ "A" \in Sides /\ "B" \in Sides
    BY ObjFacts DEF Init, Sides
  <2>. QED
    BY <1>3, <2>1, ObjFacts DEF Owned
<1>5. Leaving
  BY DEF Init, Leaving
<1>6. \A s \in Sides : Wire(s) \subseteq {Begin("upload")}
  BY DEF Init, Wire
<1>7. Causal
  <2>1. Begin("upload") # Msg("st_finish") /\ Begin("upload") # Begin("download")
    BY DEF Begin, Msg
  <2>2. phase[Orig] = "upload" /\ \A s \in Sides : finish[s].stage = "idle"
    BY ObjFacts DEF Init, NoFinish
  <2>. QED
    BY <1>6, <2>1, <2>2 DEF Causal, Sides
<1>. QED
  BY <1>1, <1>2, <1>4, <1>5, <1>7 DEF IInv

(* Every step keeps it.                                                    *)
LEMMA NextInv == IInv /\ [Next]_vars => IInv'
<1> SUFFICES ASSUME IInv, [Next]_vars PROVE IInv'
  OBVIOUS
<1>1. CASE UNCHANGED vars
  <2>1. UNCHANGED <<transport, up, table, phase, recv, upl, cancel, sender,
                    queue, net, finish, emitted, timer>>
    BY <1>1 DEF vars, objVars, wireVars
  <2>2. TypeOK'
    BY <2>1 DEF IInv, TypeOK
  <2>3. Locals' /\ Owned' /\ Leaving' /\ Causal'
    BY <2>1 DEF IInv, Locals, Owned, Uses, Leaving, Causal, Wire, SentAll
  <2>. QED
    BY <2>2, <2>3 DEF IInv
<1>2. ASSUME NEW s \in Sides, Step(Reader(s)) PROVE IInv'
  <2>1. \/ Step(handleSTCancel(s)) \/ Step(handleSTBegin(s))
        \/ Step(handleSTReady(s)) \/ Step(processSpeedTestData(s))
        \/ Step(FinishLookup(s)) \/ Step(FinishApply(s))
        \/ Step(FinishDelete(s)) \/ Step(handleSTResult(s))
    BY <1>2 DEF Step, Reader
  <2>. QED
    BY <2>1, handleSTCancelInv, handleSTBeginInv, handleSTReadyInv,
       processSpeedTestDataInv, FinishLookupInv, FinishApplyInv,
       FinishDeleteInv, handleSTResultInv
<1>3. ASSUME NEW g \in Senders, Step(Sender(g)) PROVE IInv'
  <2>1. Step(SendChunk(g)) \/ Step(SendFinish(g)) \/ Step(SendTail(g))
    BY <1>3 DEF Step, Sender
  <2>. QED
    BY <2>1, SendChunkInv, SendFinishInv, SendTailInv
<1>. QED
  BY <1>1, <1>2, <1>3, CancelInv, RelayDropInv, TimeoutInv DEF Next

(* The inductive invariant holds in every reachable state.                 *)
THEOREM Invariance == Spec => []IInv
  BY InitInv, NextInv, PTL DEF Spec

(* Both clients' state keeps its shape, for every number of chunks,        *)
(* objects and senders (activeSpeedTest, speedtest.go:76).                 *)
THEOREM TypeCorrect == Spec => []TypeOK
<1>1. IInv => TypeOK
  BY DEF IInv
<1>. QED
  BY <1>1, Invariance, PTL

(* The initiator shows a result only after both directions were sent       *)
(* completely (processSTFinish, speedtest.go:479), however many senders a  *)
(* repeated st_ready started and whatever the network lost or repeated.    *)
THEOREM ResultIsCausalHolds == Spec => []ResultIsCausal
<1>1. IInv => ResultIsCausal
  BY DEF IInv, Causal, ResultIsCausal
<1>. QED
  BY <1>1, Invariance, PTL

(* Which phase may follow which.                                           *)
Follows(p, q) == \/ p = q
                 \/ p = "new" /\ q = "receiving"
                 \/ p = "upload" /\ q = "waiting_download"
                 \/ p \in Phases \ {"done"} /\ q = "download"
                 \/ p \in {"waiting_download", "download"} /\ q = "done"

LEMMA PhaseStep ==
  ASSUME IInv, [Next]_vars, NEW o \in Objs PROVE Follows(phase[o], phase'[o])
<1>0. phase \in [Objs -> Phases] /\ phase[o] \in Phases
  BY DEF IInv, TypeOK
<1>1. CASE UNCHANGED phase
  BY <1>1 DEF Follows
<1>2. ASSUME NEW s \in Sides, handleSTBegin(s) PROVE Follows(phase[o], phase'[o])
  <2>1. CASE table[s] \in Objs /\ phase' = [phase EXCEPT ![table[s]] = "download"]
    <3>1. finish[s].stage = "idle"
      BY <1>2 DEF handleSTBegin, Reading, NoFinish
    <3>2. phase[table[s]] # "done"
      BY <2>1, <3>1 DEF IInv, Leaving
    <3>. QED
      BY <1>0, <2>1, <3>2 DEF Follows
  <2>2. CASE \E q \in Objs : Fresh(q) /\ phase' = [phase EXCEPT ![q] = "receiving"]
    BY <1>0, <2>2 DEF Follows, Fresh
  <2>3. table[s] # Nil => table[s] \in Objs
    BY DEF IInv, TypeOK
  <2>. QED
    BY <1>2, <2>1, <2>2, <2>3 DEF handleSTBegin
<1>3. ASSUME NEW g \in Senders, SendTail(g) PROVE Follows(phase[o], phase'[o])
  BY <1>0, <1>3 DEF SendTail, Follows
<1>4. ASSUME NEW s \in Sides, FinishApply(s) PROVE Follows(phase[o], phase'[o])
  BY <1>0, <1>4 DEF FinishApply, Follows, Phases
<1>5. CASE UNCHANGED vars
  BY <1>5, <1>1 DEF vars, objVars
<1>6. ASSUME NEW s \in Sides, Step(Reader(s)) PROVE Follows(phase[o], phase'[o])
  <2>1. handleSTBegin(s) \/ FinishApply(s) \/ UNCHANGED phase
    BY <1>6 DEF Step, Reader, handleSTCancel, handleSTReady, FinishLookup,
         processSpeedTestData, FinishDelete, handleSTResult, objVars
  <2>. QED
    BY <1>1, <1>2, <1>4, <2>1
<1>7. ASSUME NEW g \in Senders, Step(Sender(g)) PROVE Follows(phase[o], phase'[o])
  <2>1. SendTail(g) \/ UNCHANGED phase
    BY <1>7 DEF Step, Sender, SendChunk, SendFinish, objVars
  <2>. QED
    BY <1>1, <1>3, <2>1
<1>8. ASSUME \/ \E s \in Sides : Step(CancelSpeedTest(s)) \/ Step(RelayDrop(s))
             \/ Step(Timeout)
      PROVE  UNCHANGED phase
  BY <1>8 DEF Step, CancelSpeedTest, RelayDrop, Timeout, objVars
<1>. QED
  BY <1>1, <1>5, <1>6, <1>7, <1>8 DEF Next

(* No goroutine moves the phase of a test back: not the late tail of       *)
(* stSendData (speedtest.go:378), not a second st_begin, not a repeated    *)
(* st_finish.                                                              *)
THEOREM PhaseForwardHolds == Spec => PhaseForward
<1>1. ASSUME NEW p \in Phases, NEW q \in Phases, Follows(p, q)
      PROVE  Rank[q] >= Rank[p]
  <2>1. /\ Rank["new"] = 0 /\ Rank["upload"] = 1 /\ Rank["receiving"] = 2
        /\ Rank["waiting_download"] = 2 /\ Rank["download"] = 3
        /\ Rank["done"] = 4
    BY DEF Rank, Phases
  <2>. QED
    BY <1>1, <2>1 DEF Follows, Phases
<1>2. IInv /\ IInv' /\ [Next]_vars =>
        [\A o \in Objs : Rank[phase'[o]] >= Rank[phase[o]]]_vars
  <2> SUFFICES ASSUME IInv, IInv', [Next]_vars, NEW o \in Objs
               PROVE  Rank[phase'[o]] >= Rank[phase[o]]
    OBVIOUS
  <2>1. phase[o] \in Phases /\ phase'[o] \in Phases
    BY DEF IInv, TypeOK
  <2>. QED
    BY <2>1, <1>1, PhaseStep
<1>. QED
  BY <1>2, Invariance, PTL DEF Spec, PhaseForward
=============================================================================
