-------------------------------- MODULE MCIperf --------------------------------
(* Instances of Iperf for TLC.                                                   *)
EXTENDS Iperf

HostOfDef == (near :> <<"n">>) @@ (far :> <<"f">>)
Abbrevs == ("i" :> {"interval", "ipv6_domain"}) @@ ("ti" :> {"time"})
Numbers == (<<"0">> :> 0) @@ (<<"1">> :> 1) @@ (<<"2">> :> 2) @@ (<<"5">> :> 5) @@ (<<"8">> :> 8) @@ (<<"9">> :> 9)
           @@ (<<"6001">> :> 6001) @@ (<<"5", "pps">> :> 5)
Multicasts == {<<"224.0.0.1">>}

NoEnv == <<>>
S == <<"-", "s">>
C == <<<<"-", "c">>, <<"f">>>>
P2 == <<<<"-", "P">>, <<"2">>>>
P1 == <<<<"-", "P">>, <<"1">>>>
Given(farLine, nearLine) == (near :> [env |-> NoEnv, argv |-> nearLine]) @@ (far :> [env |-> NoEnv, argv |-> farLine])
Of(lines, nearInt, farInt, run) ==
    [line |-> lines, interrupts |-> (near :> nearInt) @@ (far :> farInt), launch |-> run]

(* Tests: one way, both ways at once and in turn, parallel, limited, interrupted.*)
TestSeq == <<
    Of(Given(<<S>>, C), 1, 2, TRUE),
    Of(Given(<<S>> \o P2, C \o P2 \o <<<<"-", "n", "9">>>>), 0, 0, TRUE),
    Of(Given(<<S>>, C \o <<<<"-", "d">>, <<"-", "n", "9">>>>), 0, 0, TRUE),
    Of(Given(<<S>>, C \o <<<<"-", "r">>, <<"-", "n", "9">>>>), 0, 0, TRUE),
    Of(Given(<<S, <<"-", "D">>, <<"-", "t">>, <<"5">>>>, C \o <<<<"-", "t">>, <<"0">>>>), 1, 0, TRUE),
    Of(Given(<<S, <<"-", "1">>, <<"-", "c">>, <<"x">>>>, C \o <<<<"-", "n", "9">>>>), 0, 1, TRUE),
    Of(Given(<<S>> \o P1, C \o <<<<"-", "r">>, <<"-", "L", "6001">>>>), 0, 0, TRUE),
    Of(Given(<<S, <<"-", "1">>>> \o P1, C), 0, 1, TRUE),
    Of(Given(<<S, <<"-", "1">>>> \o P2, C), 0, 0, TRUE),
    Of(Given(<<S, <<"-", "c">>, <<"x">>>>, C), 0, 0, TRUE),
    Of(Given(<<S, <<"--", "time", "=", "9">>>>, C), 0, 0, TRUE),
    Of([near |-> [env |-> [P |-> <<"2">>, n |-> <<"9">>], argv |-> C],
        far |-> [env |-> [s |-> <<>>, P |-> <<"1">>], argv |-> <<>>]], 0, 0, TRUE),
    Of([near |-> [env |-> [c |-> <<"f">>], argv |-> <<<<"-", "C", "d">>>>],
        far |-> [env |-> [t |-> <<"2">>], argv |-> <<S>>]], 0, 0, TRUE),
    Of([near |-> [env |-> [b |-> <<"x">>], argv |-> C], far |-> [env |-> NoEnv, argv |-> <<<<"-", "s">>, <<"-", "v">>>>]], 0, 0, TRUE)>>
Tests == ToSet(TestSeq)

(* Command lines that are only read, made of three words: an option with or      *)
(* without its argument, or a word that is no option.                            *)
Word == {<<<<"-", "c", "f">>>>, <<S>>, <<<<"-", "u">>>>, <<<<"-", "b", "5">>>>, <<<<"--", "len">>, <<"8">>>>,
         <<<<"-", "n">>, <<"9">>>>, <<<<"--", "ti", "=", "2">>>>, <<<<"-", "d">>>>, <<<<"-", "u", "C">>>>,
         <<<<"-", "i">>>>, <<<<"--", "i">>, <<"5">>>>, <<<<"--", "tradeoff">>>>, <<<<"-", "L">>, <<"6001">>>>,
         <<<<"--">>, <<"x">>>>}
Lines == {Of(Given(<<S>>, a \o b \o c), 0, 0, FALSE) : a \in Word, b \in Word, c \in Word}
ScenarioDef == Tests \cup Lines
================================================================================
