---------------------------- MODULE MCIncrementalBuild ----------------------------
(* Instances of IncrementalBuild for TLC: two sources and a configuration     *)
(* with and without the first action.                                         *)
EXTENDS IncrementalBuild

TwoSources == {"s1", "s2"}
Contents == [x \in TwoSources |->
    IF x = "s1" THEN {"reads", "lists", "quiet"} ELSE {"lists", "quiet"}]
Habits == [c \in {"plain", "reads", "lists", "quiet"} |-> c]

A(input, output, phase, kind, cached, also, glob) ==
    [input |-> input, output |-> output, phase |-> phase, kind |-> kind,
     cached |-> cached, also |-> also, glob |-> glob]
Of(actions) ==
    [actions |-> actions, configs |-> {DOMAIN actions, DOMAIN actions \ {1}}]

\* An optional chain, consumers that read, list or omit, post-process actions
\* on ordinary and optional outputs.
Mixed == Of(<<
    A("s1", "g", 1, "normal", FALSE, <<"s2">>, {"s1", "s2"}),
    A("s2", "o", 1, "optional", TRUE, <<>>, {}),
    A("o", "oo", 2, "optional", TRUE, <<>>, {}),
    A("g", "c", 3, "normal", TRUE, <<"oo">>, {"s2", "o", "g"}),
    A("g", "gp", 4, "post", TRUE, <<>>, {}),
    A("o", "op", 4, "post", TRUE, <<>>, {}) >>)

\* Optional actions that list what others generate, demanded by reading one
\* or both of them, or by listing.
Lazy == Of(<<
    A("s1", "g", 1, "normal", FALSE, <<"s2">>, {"s1", "s2"}),
    A("s2", "l", 2, "optional", FALSE, <<"g">>, {"g", "s1"}),
    A("l", "m", 3, "optional", TRUE, <<"g">>, {"g", "s1"}),
    A("g", "c", 4, "normal", TRUE, <<"m", "l">>, {"l", "s2"}),
    A("l", "lp", 5, "post", TRUE, <<>>, {}) >>)

\* Three generations: the last is skipped because the second was.
Chain == [Of(<<
    A("s1", "g", 1, "normal", FALSE, <<"s2">>, {"s2"}),
    A("g", "c", 2, "normal", TRUE, <<"s2">>, {"s2"}),
    A("c", "d", 3, "normal", TRUE, <<"s2">>, {"s2"}) >>) EXCEPT !.configs = {1..3}]

Usual == {Mixed, Lazy}
OfChain == {Chain}
=============================================================================
