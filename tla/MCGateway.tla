----------------------------- MODULE MCGateway -----------------------------
(***************************************************************************)
(* Gateway for TLC: a development environment and a production one, the    *)
(* keys and switches of each varied together and everything else one       *)
(* variable at a time, and one environment whose clients write every short *)
(* amount.                                                                 *)
(***************************************************************************)
EXTENDS Gateway

\* Both assets with two decimals, so that an amount of five characters
\* reaches every branch.
MCSymbols  == {"BTC", "tBTC"}
MCDecimals == [s \in MCSymbols |-> 2]
MCAssetOf  == [c \in Chains |-> IF c = "bitcoin" THEN "BTC" ELSE "tBTC"]
MCGenerated == <<"generated1", "generated2">>

Live == Text("live")
Sbx  == Text("sandbox")
Padded(t) == [t EXCEPT !.padded = TRUE]

Bearer(t) == [Nobody EXCEPT !.scheme = "bearer", !.bearer = t]
XKey(t)   == [Nobody EXCEPT !.xkey = t]
MCHeaders ==
    {Nobody, Bearer(Live), XKey(Text("generated1")), XKey(Text("generated2")),
     [XKey(Sbx) EXCEPT !.scheme = "other"], [Bearer(Live) EXCEPT !.xkey = Sbx]}

Development ==
    [mode |-> "", secret |-> FALSE, url |-> "", db |-> "", expiry |-> "", durations |-> "",
     sandbox |-> "", bitcoin |-> "", confs |-> -1, apiKey |-> Live, sandboxKey |-> Unset]
Production ==
    [Development EXCEPT !.mode = "production", !.secret = TRUE, !.url = "https"]

ByKeys(e) ==
    {[e EXCEPT !.sandbox = on, !.apiKey = live, !.sandboxKey = sbx] :
        on \in {"", "false"}, live \in {Unset, Live, Sbx}, sbx \in {Unset, Sbx}}

\* On a database of its own: the process is started again within the group.
OneByOne ==
    LET e == [Development EXCEPT !.db = "file"] IN
    {e} \cup
    UNION {{[e EXCEPT !.url = v]        : v \in {"http", "slashes"}},
           {[e EXCEPT !.db = v]         : v \in {"memory", "nopath", "postgres", "noscheme"}},
           {[e EXCEPT !.expiry = v]     : v \in {"15m", "0s", "unreadable"}},
           {[e EXCEPT !.durations = v]  : v \in {"5s", "unreadable"}},
           {[e EXCEPT !.sandbox = v]    : v \in {"true", "off"}},
           {[e EXCEPT !.bitcoin = v]    : v \in {"true", "false"}},
           {[e EXCEPT !.confs = v]      : v \in {0, 2}},
           {[e EXCEPT !.apiKey = v]     : v \in {Padded(Live)}},
           {[e EXCEPT !.sandboxKey = v] : v \in {Padded(Sbx)}}}

\* What production refuses, and what it does not.
Unsafe == {[Production EXCEPT !.secret = FALSE], [Production EXCEPT !.url = ""],
           [Production EXCEPT !.url = "http"], [Production EXCEPT !.mode = "other"]}

\* Few amounts where keys and restarts are the question.
Few == [asked |-> {<<"1">>, <<"0">>},
        paid  |-> {<<"-", "1">>, <<"x">>}]

\* Every text of three characters and some longer ones, in an environment
\* without the simulator.
Chars == {"0", "1", "5", ".", "-", "+"}
Many == [asked |-> UNION {[1..n -> Chars] : n \in 1..3} \cup
                   {<<" ", "1", " ">>, <<" ">>, <<"1", " ", "5">>, <<"1", "0", "5">> \o <<".", "5">>,
                    <<"1", ".", "0", "5">>, <<"1", ".", "0", "0", "5">>, <<"1", ".", "5", ".">>},
         paid  |-> {}]

MCTrials ==
    {[env |-> e, menu |-> Few] :
        e \in ByKeys(Development) \cup ByKeys(Production) \cup OneByOne \cup Unsafe}
    \cup {[env |-> [Development EXCEPT !.sandbox = "false"], menu |-> Many]}
=============================================================================
