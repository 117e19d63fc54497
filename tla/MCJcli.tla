-------------------------------- MODULE MCJcli --------------------------------
(* TLC's instance of Jcli.  Letters are a, b and "/".  One command resolves    *)
(* with every shape of one group and many of two; or after a sync; or lists    *)
(* and resolves while two syncs of different trees run.                        *)
EXTENDS Jcli

Shapes == [template  : {<<>>, <<PH>>, <<"a", PH>>, <<PH, "b">>, <<PH, PH>>, <<"b">>},
           templates : {<<>>} \union [{<<"a">>} -> {<<PH, "b">>, <<"a", PH>>}]
                       \union [{<<"a">>, <<"a", "b">>} -> {<<PH, "b">>, <<"b", "/", PH>>}],
           overrides : {<<>>} \union [{<<"a">>} -> {<<"a", "b">>, <<"b", "/", "a">>}]]
Plain  == {g \in Shapes : g.overrides = <<>> /\ g.templates = <<>>}
Bare   == [template |-> <<>>, templates |-> <<>>, overrides |-> <<>>]

One == [{"g"} -> Shapes]
Two == {[g |-> x, h |-> y] : x \in Shapes, y \in Plain}

Verb(v)   == [verb |-> v, service |-> <<>>, job |-> <<>>, group |-> ""]
ByService == {[Verb("target") EXCEPT !.service = s] : s \in {<<"a">>, <<"b">>, <<"a", "b">>}}
ByJob     == {[Verb("target") EXCEPT !.job = j, !.group = g] :
                j \in {<<"a", "b">>, <<"a", "a", "b">>, <<"b", "/", "a">>, <<"b">>},
                g \in {"", "x"}}

Errand(configs, flags, second, third) ==
    {[groups |-> c, errand |-> [c1 |-> f, c2 |-> Verb(second), c3 |-> Verb(third)]] :
        c \in configs, f \in flags}

JobTrees ==
    {{<<"a">>, <<"b">>, <<"b", "/", "a">>},
     {<<"b">>, <<"b", "/", "b">>, <<"b", "/", "b", "/", "a">>, <<"a", "b">>, <<"b", "a">>}}

ErrandSets ==
    Errand(One \union Two, ByJob, "none", "none")
    \union Errand(One, ByService \union {Verb("target")}, "none", "none")
    \union Errand({[g |-> x, h |-> y] : x, y \in Plain}, ByService, "sync", "none")
    \union Errand({[g |-> x] : x \in Plain} \union {[g |-> x, h |-> Bare] : x \in Plain},
                  {[f EXCEPT !.group = g] : f \in ByService, g \in {"g", "h"}}, "sync", "none")
    \union Errand({[g |-> Bare], [g |-> [Bare EXCEPT !.template = <<PH>>],
                                  h |-> [Bare EXCEPT !.template = <<"b", PH>>]]},
                  {Verb("list"), [Verb("target") EXCEPT !.service = <<"a">>]}, "sync", "sync")
    \union {[groups |-> [g |-> Bare], errand |-> [c \in Clis |-> Verb("none")]]}
===============================================================================
