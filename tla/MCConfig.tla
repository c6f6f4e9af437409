------------------------------ MODULE MCConfig ------------------------------
(***************************************************************************)
(* Config with two words, texts of one or two pieces, and every kind of    *)
(* source over them.                                                       *)
(***************************************************************************)
EXTENDS Config, TLC

a == <<"a">>
b == <<"b">>

MCNames == {a, b}
MCGood == {<<"one">>, <<"two">>}
MCRefused == <<"two">>

Texts == {<<"one">>, <<"two">>, <<"bad">>, <<"one", "bad">>}

\* What a deployment says of a and a.b; nothing when the text is empty.
Says(va, vab) ==
    [p \in {q \in {<<a>>, <<a, b>>} : IF q = <<a>> THEN va # <<>> ELSE vab # <<>>} |->
        IF p = <<a>> THEN va ELSE vab]

Documents == {Says(va, vab) : va, vab \in Texts \cup {<<>>}}

AsEntries(document) ==
    [k \in {environmentKey(p) : p \in DOMAIN document} |->
        document[CHOOSE p \in DOMAIN document : environmentKey(p) = k]]

Swap == (a :> b) @@ (b :> a)

EveryDeployment ==
    {Nil, Unreachable}
      \cup {FromMap(d) : d \in Documents}
      \cup {EnvironmentOf(AsEntries(d)) : d \in Documents}
      \cup {Sources(<<EnvironmentOf(AsEntries(Says(<<>>, <<"two">>))), FromMap(d)>>) : d \in Documents}
      \cup {Sources(<<FromMap(Says(<<"one">>, <<>>)), Unreachable, FromMap(Says(<<"two">>, <<"one">>))>>)}
      \cup {Sources(<<Nil, Unreachable>>), Sources(<<>>)}
      \cup {Beneath(FromMap(Says(<<"one">>, <<"two">>)), <<a>>),
            MapInput(FromMap(Says(<<"one">>, <<"bad">>)), Swap)}

\* A few of them, for the largest descriptions: nothing set, a value missing or wrong in
\* either place, in a map and in the environment, alone and before another source.
FewDeployments ==
    {FromMap(Says(<<>>, <<>>)), FromMap(Says(<<"bad">>, <<"one">>)),
     EnvironmentOf(AsEntries(Says(<<"one", "bad">>, <<>>))),
     Sources(<<EnvironmentOf(AsEntries(Says(<<>>, <<"bad">>))), FromMap(Says(<<"one">>, <<"one">>))>>)}

MCDeployments(constructors) == IF constructors < 5 THEN EveryDeployment ELSE FewDeployments
=============================================================================
