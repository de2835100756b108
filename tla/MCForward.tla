------------------------------ MODULE MCForward ------------------------------
(* Two clients with forwards in one or both directions, three with a hop,  *)
(* and three that change whom they reach.                                  *)
EXTENDS Forward

CONSTANTS a, b, e, web, lan, k1, k2, h1

Env(ops, deny, only, dead, dir, ticks) ==
  [ops |-> ops, deny |-> deny, localOnly |-> only, local |-> {web},
   dead |-> dead, direct |-> dir, ticks |-> ticks]
Plain(ops) == Env(ops, {}, {}, {}, {}, {})
Sym(P)     == P \cup {<<p[2], p[1]>> : p \in P}
AB         == Sym({<<a, b>>})
Chain      == Sym({<<a, b>>, <<b, e>>})

For(t) == <<"forward", a, b, t>>
App1   == <<"app", a, web, k1>>
App2   == <<"app", a, lan, k2>>

Both   == {Env({For(web), For(lan), App1, App2, <<"rekey", b, a>>,
                <<"close", k1>>, <<"tclose", k2>>}, {}, {}, {}, AB, {}),
           Env({For(web), App1, <<"rekey", a, b>>, <<"relay", a, web>>,
                <<"punch", a, b>>, <<"tclose", k1>>}, {}, {}, {}, AB, {}),
           Env({For(web), For(lan), App1, App2, <<"rekey", a, b>>},
               {}, {}, {}, AB, {})}
Glare  == {Plain({For(web), App1, <<"expose", a, b, lan>>,
                  <<"app", b, lan, k2>>, <<"tclose", k1>>})}
Refuse == {Env({For(web), For(lan), App1, App2, <<"stop", a, web>>}, {}, {b},
               {<<b, web>>}, {}, {}),
           Env({<<"expose", a, b, web>>, For(web), App1}, {b}, {}, {}, {}, {}),
           Env({<<"expose", b, a, web>>, For(web), App1, <<"stop", a, web>>,
                <<"close", k1>>}, {}, {}, {}, {}, {})}
Outage == {Plain({For(web), For(lan), App1, App2, <<"drop", a>>}),
           Plain({For(web), App1, <<"close", k1>>, <<"drop", b>>})}

OnHop  == {<<"app", a, web, k1>>, <<"app", a, web, k2>>, <<"data", k1>>,
           <<"data", k2>>}
Hop1   == {Env({<<"hop", a, b, web>>, <<"close", k1>>, <<"tclose", h1>>} \cup OnHop,
               {}, {}, {}, dir, {}) : dir \in {{}, Chain}}
Auto   == {Env({<<"forward", a, e, web>>, <<"fail", a, e>>, <<"close", k2>>} \cup OnHop,
               {}, {}, {}, Chain, {})}
NoHops == {Env({<<"hop", a, b, web>>, App1, <<"data", k1>>, <<"close", k1>>,
                <<"forward", a, b, web>>}, deny, {}, {}, {}, {}) :
             deny \in {{b}, {e}}}
          \cup {Env({<<"hop", a, b, web>>, App1, <<"app", a, web, k2>>},
                    {}, {}, {<<e, web>>}, {}, {})}

Roam   == {Env({<<"punch", b, a>>, <<"punch", b, e>>, <<"drop", b>>}, {}, {}, {},
               Sym({<<b, e>>}), {b}),
           Env({<<"fail", a, e>>, <<"rekey", e, b>>, <<"quit", b>>}, {}, {}, {},
               Chain, {e})}
Mixed  == Both \cup Glare \cup Refuse \cup Outage \cup Hop1 \cup Auto
          \cup NoHops \cup Roam
=============================================================================
