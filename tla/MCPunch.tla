------------------------------ MODULE MCPunch ------------------------------
(* Two clients: both behind cone NATs, with and without a reconnection or  *)
(* a firewall that blocks UDP, or one behind a symmetric NAT.              *)
EXTENDS Punch

CONSTANTS a, b

Env(s, d, n, r) == [sym |-> s, drops |-> d, net |-> n, retries |-> r]
Cone      == {Env({}, {}, 3, 1)}
Sym       == {Env({b}, {}, 1, 0)}
Drop      == {Env({}, {a}, 1, 1)}
Blocked   == {Env({}, {}, 0, 1)}
Mixed     == Cone \cup Sym \cup Drop \cup Blocked
=============================================================================
