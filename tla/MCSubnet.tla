------------------------------ MODULE MCSubnet ------------------------------
(* A responder with a subnet of two hosts.                                 *)
EXTENDS Subnet

CONSTANTS h1, h2

F(proto, h, s, rest, mss) ==
  [proto |-> proto, dst |-> h, sport |-> s, dport |-> 1, rest |-> rest, mss |-> mss]
Env(flows, ops, masq, snat, raw, stk, ticks) ==
  [flows |-> flows, live |-> {h1}, ops |-> ops, masq |-> masq, snat |-> snat,
   raw |-> raw, ns |-> stk, ticks |-> ticks]
T   == TRUE
N   == FALSE
Lose == <<"lose">>
Stop == <<"stop">>
Tcp(rest) == F("tcp", h1, 2, rest, 3)
Udp  == F("udp", h1, 2, 1, 0)
Ping == [F("icmp", h1, 2, 0, 0) EXCEPT !.dport = 2]

(* With the stack: the set-up overtakes a connection on any other way.     *)
Full   == {Env({f}, {Lose, Stop}, T, T, T, T, N) : f \in {Tcp(0), Tcp(1), Ping}}
          \cup {Env({Udp, F("tcp", h2, 1, 2, 1)}, {}, N, T, T, T, T)}
(* Without it: SNAT, the ICMP socket, or the kernel's NAT.                 *)
Snated == {Env({Tcp(r)}, {Lose, <<"stray", h2, Tcp(r)>>}, T, T, T, N, T) :
             r \in 0 .. 3}
          \cup {Env({Udp, Ping}, {<<"stray", h1, F("udp", h1, 1, 0, 0)>>},
                    N, T, raw, N, T) : raw \in BOOLEAN}
Plain  == {Env({F("tcp", Me, 2, 1, 3), Udp}, {}, m, N, T, N, N) : m \in BOOLEAN}
Mixed  == Full \cup Snated \cup Plain
=============================================================================
