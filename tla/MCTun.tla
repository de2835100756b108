------------------------------- MODULE MCTun -------------------------------
(* Two clients with one VPN and an outage or a stop, both starting at once, *)
(* and a client that accepts two VPNs while it starts one.                  *)
EXTENDS Tun, TLC

CONSTANTS a, b, e

Octets == a :> 253 @@ b :> 253 @@ e :> 9

Env(ops, no, room) == [ops |-> ops, noroot |-> no, room |-> room]
Two(ops) == Env(ops, {}, {a, b})

Outage  == {Two({<<"start", a, b>>, <<"again", a, b>>, <<"drop", b, b>>}),
            Two({<<"start", a, b>>, <<"routes", a, b>>, <<"drop", b, b>>,
                 <<"stop", b, a>>})}
Away    == {Two({<<"start", a, b>>, <<"again", a, b>>, <<"stop", a, b>>,
                 <<"drop", a, a>>, <<"drop", b, b>>})}
Pair    == {Env({<<"drop", b, b>>, <<"drop", e, e>>}, {}, {a, b, e})}
Glare   == {Two({<<"start", a, b>>, <<"start", b, a>>, <<"again", a, b>>,
                 <<"stop", a, b>>, <<"drop", b, b>>})}
Busy    == {Env({<<"start", a, b>>, <<"start", e, b>>, <<"start", b, e>>,
                 <<"stop", a, b>>, <<"again", a, b>>}, {}, {a, b, e})}
Changes == {Two({<<"start", a, b>>, <<"again", a, b>>, <<"routes", a, b>>,
                 <<"stop", b, a>>, <<"quit", a, a>>})}
Denied  == {Two({<<"start", a, b>>, <<"again", a, b>>, <<"deny", b, b>>}),
            Env({<<"start", a, b>>, <<"start", b, a>>}, {a}, {a, b})}
Mixed   == Outage \cup Away \cup Glare \cup Busy \cup Changes \cup Denied
           \cup Pair
=============================================================================
