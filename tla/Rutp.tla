-------------------------------- MODULE Rutp --------------------------------
(***************************************************************************)
(* One direction of a tunnel over "reliable UDP" (client/core/             *)
(* udp_reliable.go, tunnelReadUDP and handleTunnelData of tunnel.go, the   *)
(* "TF:" branch of the UDP read loop of stun.go).                          *)
(*                                                                         *)
(* The sender frames what it reads from its TCP connection, numbers it,    *)
(* sends it by UDP, repeats it twice and then hands it to the relay.  The  *)
(* receiver acknowledges, drops numbers it has seen, drops relayed data    *)
(* whose hash it has seen, and writes the rest to its TCP connection in    *)
(* the order of arrival.  A peer that only bridges two tunnels (multihop)  *)
(* has no tunnel of that ID: it ignores UDP data and passes relayed data   *)
(* on.                                                                     *)
(*                                                                         *)
(* UDP loses, repeats and reorders: a copy once sent may arrive any number *)
(* of times.  The relay keeps order and is taken to lose nothing, as the   *)
(* code does ("guaranteed delivery").  Ages only order the transmissions   *)
(* of one packet, so time is not modelled.                                 *)
(***************************************************************************)
EXTENDS Integers, Sequences

CONSTANTS MaxSeq,      \* bound: segments read from the sender's connection
          Content,     \* the data of each segment; segments may be equal
          Bridges,     \* whether the receiver may be a bridge
          CleanEvery,  \* 500
          Keep,        \* 5000
          Modulus,     \* 2^32
          MaxOut,      \* bound: writes after which no UDP copy is read
          CloseTunnel, \* the close_tunnel message
          Nil

Segs     == 1 .. MaxSeq
Contents == {Content[n] : n \in Segs}

ASSUME RutpAssumption ==
  /\ MaxSeq \in Nat /\ MaxOut \in Nat
  /\ CleanEvery \in Nat \ {0} /\ Keep \in Nat
  /\ Modulus \in Nat /\ Modulus > MaxSeq
  /\ DOMAIN Content = Segs
  /\ Bridges \subseteq BOOLEAN
  /\ Nil \notin Int /\ CloseTunnel \notin Int

VARIABLES
  bridge,    \* the receiver bridges this tunnel (hopBridgeByTunnel)
  reading,   \* tunnelReadUDP runs: the sender's tunnel is open
  loop,      \* fallbackLoop runs
  seq,       \* rutpSender.seq
  pending,   \* rutpSender.pending
  retries,   \* rutpPendingPkt.retries
  data,      \* DATA frames ever sent
  acks,      \* ACK frames ever sent
  relay,     \* tunnel_data and close_tunnel on the relay
  open,      \* the receiver has the tunnel, or the bridge
  rutpRecv,  \* TunnelConn.RutpRecv is set
  seen,      \* rutpReceiver.seen
  filter,    \* TunnelConn.RelayDedup is set
  dedup,     \* the hashes in TunnelConn.RelayDedup
  fresh,     \* the receiver's own tunnelReadUDP has not started yet
  hand,      \* the segment the UDP reader is about to write, or Nil
  out        \* what the receiver wrote

sendVars == <<reading, loop, seq, pending, retries>>
recvVars == <<open, rutpRecv, seen, filter, dedup, fresh, hand, out>>
vars     == <<bridge, sendVars, recvVars, data, acks, relay>>

Init ==
  /\ bridge \in Bridges
  /\ reading = TRUE /\ loop = TRUE
  /\ seq = 0 /\ pending = {} /\ retries = [n \in Segs |-> 0]
  /\ data = {} /\ acks = {} /\ relay = <<>>
  /\ open = TRUE
  /\ rutpRecv = FALSE /\ seen = {} /\ fresh = TRUE
  /\ filter = FALSE /\ dedup = {}
  /\ hand = Nil /\ out = <<>>

-----------------------------------------------------------------------------
(* The sender.                                                             *)

Send ==
  /\ reading /\ seq < MaxSeq
  /\ seq' = seq + 1
  /\ pending' = pending \cup {seq + 1}
  /\ data' = data \cup {seq + 1}
  /\ UNCHANGED <<bridge, reading, loop, retries, recvVars, acks, relay>>

OnACK(n) ==
  /\ reading /\ n \in acks
  /\ pending' = pending \ {n}
  /\ UNCHANGED <<bridge, reading, loop, seq, retries, recvVars, data, acks,
                 relay>>

(* Mutant: one more copy by UDP instead of two.                            *)
MutRetransmit(n) ==
  /\ loop /\ n \in pending /\ retries[n] < 1
  /\ retries' = [retries EXCEPT ![n] = @ + 1]
  /\ data' = data \cup {n}
  /\ UNCHANGED <<bridge, reading, loop, seq, pending, recvVars, acks, relay>>

(* fallbackLoop: two more copies by UDP ...                                *)
Retransmit(n) ==
  /\ loop /\ n \in pending /\ retries[n] < 2
  /\ retries' = [retries EXCEPT ![n] = @ + 1]
  /\ data' = data \cup {n}
  /\ UNCHANGED <<bridge, reading, loop, seq, pending, recvVars, acks, relay>>

(* Mutant: a packet that was repeated twice is given up.                   *)
MutFallback(n) ==
  /\ loop /\ n \in pending /\ retries[n] = 2
  /\ retries' = [retries EXCEPT ![n] = @ + 1]
  /\ pending' = pending \ {n}
  /\ UNCHANGED <<bridge, reading, loop, seq, recvVars, data, acks, relay>>

(* Mutant: the packet stays pending until the next round removes it.       *)
MutFallbackWaits(n) ==
  /\ loop /\ n \in pending /\ retries[n] >= 2
  /\ retries' = [retries EXCEPT ![n] = @ + 1]
  /\ UNCHANGED <<bridge, reading, loop, seq, pending, recvVars, data, acks,
                 relay>>

(* ... and then one by the relay.  pending.Range visits the packets in no  *)
(* particular order.                                                       *)
Fallback(n) ==
  /\ loop /\ n \in pending /\ retries[n] = 2
  /\ retries' = [retries EXCEPT ![n] = @ + 1]
  /\ relay' = Append(relay, n)
  /\ pending' = pending \ {n}
  /\ UNCHANGED <<bridge, reading, loop, seq, recvVars, data, acks>>

(* The TCP connection ends, or the peer closes the tunnel: tunnelReadUDP   *)
(* returns, stops its sender, the tunnel leaves the table and the peer is  *)
(* told.                                                                   *)
Close ==
  /\ reading
  /\ reading' = FALSE
  /\ relay' = Append(relay, CloseTunnel)
  /\ UNCHANGED <<bridge, loop, seq, pending, retries, recvVars, data, acks>>

(* fallbackLoop notices Stop at its next tick, with or without one more    *)
(* round before.                                                           *)
LoopExit ==
  /\ loop /\ ~reading
  /\ loop' = FALSE
  /\ UNCHANGED <<bridge, reading, seq, pending, retries, recvVars, data, acks,
                 relay>>

-----------------------------------------------------------------------------
(* The receiver.                                                           *)

(* Periodic cleanup of OnData.  The subtraction is on uint32.              *)
Cleaned(n, S) == IF n % CleanEvery = 0
                   THEN {k \in S : k >= (n - Keep) % Modulus}
                   ELSE S

(* The UDP reader looks the tunnel up, acknowledges, and drops a number it *)
(* has seen.  It holds the *TunnelConn from here to the write.             *)
RecvData(n) ==
  /\ open /\ ~bridge /\ n \in data /\ hand = Nil /\ Len(out) < MaxOut
  /\ rutpRecv' = TRUE
  /\ filter' = (filter \/ ~rutpRecv)
  /\ acks' = acks \cup {n}
  /\ IF n \in seen
       THEN UNCHANGED <<seen, hand>>
       ELSE /\ seen' = Cleaned(n, seen \cup {n})
            /\ hand' = n
  /\ UNCHANGED <<bridge, sendVars, open, dedup, fresh, out, data, relay>>

WriteData ==
  /\ hand # Nil
  /\ hand' = Nil
  /\ dedup' = dedup \cup {Content[hand]}
  /\ out' = IF open THEN Append(out, hand) ELSE out
  /\ UNCHANGED <<bridge, sendVars, open, rutpRecv, seen, filter, fresh, data,
                 acks, relay>>

(* handleTunnelData: a bridge passes the data on.                          *)
Bridged ==
  /\ bridge /\ relay # <<>> /\ Head(relay) # CloseTunnel
  /\ relay' = Tail(relay)
  /\ out' = IF open THEN Append(out, Head(relay)) ELSE out
  /\ UNCHANGED <<bridge, sendVars, open, rutpRecv, seen, filter, dedup, fresh,
                 hand, data, acks>>

(* handleTunnelData: an end point drops data whose hash it has seen.       *)
RecvRelay ==
  /\ ~bridge /\ relay # <<>> /\ Head(relay) # CloseTunnel
  /\ relay' = Tail(relay)
  /\ LET n == Head(relay)
     IN IF ~open \/ (filter /\ Content[n] \in dedup)
          THEN UNCHANGED <<dedup, out>>
          ELSE /\ dedup' = IF filter THEN dedup \cup {Content[n]} ELSE dedup
               /\ out' = Append(out, n)
  /\ UNCHANGED <<bridge, sendVars, open, rutpRecv, seen, filter, fresh, hand,
                 data, acks>>

(* handleCloseTunnel: the tunnel, or the bridge, is gone.                  *)
RecvClose ==
  /\ relay # <<>> /\ Head(relay) = CloseTunnel
  /\ relay' = Tail(relay)
  /\ open' = FALSE
  /\ UNCHANGED <<bridge, sendVars, rutpRecv, seen, filter, dedup, fresh,
                 hand, out, data, acks>>

(* The receiver's own connection ends, or the far side of the bridge: the  *)
(* tunnel is gone and the sender is told (Close then happens there).       *)
RecvEnd ==
  /\ open
  /\ open' = FALSE
  /\ UNCHANGED <<bridge, sendVars, rutpRecv, seen, filter, dedup, fresh,
                 hand, out, data, acks, relay>>

(* The receiver's own tunnelReadUDP, for the other direction, installs a   *)
(* new RelayDedup in the TunnelConn that both directions share.            *)
OwnSender ==
  /\ open /\ ~bridge /\ fresh
  /\ fresh' = FALSE
  /\ filter' = TRUE /\ dedup' = {}
  /\ UNCHANGED <<bridge, sendVars, open, rutpRecv, seen, hand, out, data, acks,
                 relay>>

Next == \/ Send \/ Close \/ LoopExit
        \/ \E n \in Segs : OnACK(n) \/ Retransmit(n) \/ Fallback(n)
        \/ \E n \in Segs : RecvData(n)
        \/ WriteData \/ Bridged \/ RecvRelay \/ RecvClose \/ RecvEnd
        \/ OwnSender

Spec == Init /\ [][Next]_vars

(* The fallback ticker fires, the readers run, the close_tunnel of a       *)
(* receiver that ended arrives.  No UDP frame need arrive.                 *)
Fairness ==
  /\ \A n \in Segs : WF_vars(Retransmit(n) \/ Fallback(n))
  /\ WF_vars(~open /\ Close)
  /\ WF_vars(WriteData) /\ WF_vars(Bridged \/ RecvRelay \/ RecvClose)

LiveSpec == Spec /\ Fairness

-----------------------------------------------------------------------------
Written == {out[i] : i \in DOMAIN out}
Relayed == {relay[i] : i \in DOMAIN relay}

(* Every variable keeps its type; in particular a packet is transmitted at *)
(* most three times before it goes to the relay (udp_reliable.go:119-134). *)
TypeOK ==
  /\ bridge \in BOOLEAN /\ reading \in BOOLEAN /\ loop \in BOOLEAN
  /\ seq \in 0 .. MaxSeq
  /\ pending \subseteq Segs /\ retries \in [Segs -> 0 .. 3]
  /\ data \subseteq Segs /\ acks \subseteq Segs
  /\ relay \in Seq(Segs \cup {CloseTunnel})
  /\ open \in BOOLEAN /\ rutpRecv \in BOOLEAN /\ fresh \in BOOLEAN
  /\ seen \subseteq Segs
  /\ filter \in BOOLEAN /\ dedup \subseteq Contents
  /\ hand \in Segs \cup {Nil}
  /\ out \in Seq(Segs)

(* While both ends are open, every segment that was read is still pending, *)
(* on the relay, in the reader's hand or written: neither a lost frame, a  *)
(* late, repeated or early ACK, the ACK sent before the write              *)
(* (udp_reliable.go:146-152), the forgetting of seen numbers nor the two   *)
(* duplicate filters lose data.  It needs that no two segments carry the   *)
(* same data, because the relay's filter compares hashes (tunnel.go:589).  *)
Distinct == \A m, n \in Segs : Content[m] = Content[n] => m = n
KeptWhileOpen ==
  Distinct /\ reading /\ open =>
    1 .. seq \subseteq pending \cup Relayed \cup Written \cup {hand}

(* What the receiver relies on: it forgets or repeats, but it never        *)
(* acknowledges, marks as seen or filters out what it has not written or   *)
(* is not about to write.                                                  *)
Honest ==
  open => /\ acks \cup seen \subseteq Written \cup {hand}
          /\ \A c \in dedup : \E n \in Written : Content[n] = c

IInv == TypeOK /\ Honest /\ KeptWhileOpen

(* The tunnel implements the abstract one-way pipe of module Pipe, with    *)
(* its fairness: every segment is written although no UDP frame need       *)
(* arrive, unless the tunnel is closed, and nothing is written after it    *)
(* (udp_reliable.go:14, "guaranteed delivery").                            *)
P == INSTANCE Pipe WITH Max <- MaxSeq, taken <- seq, got <- Written,
                        src <- reading, dst <- open
ImplementsPipe == P!Spec
=============================================================================
