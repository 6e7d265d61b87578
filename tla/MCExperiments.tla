--------------------------- MODULE MCExperiments ----------------------------
(* Two consoles; suite a has two scripts, suite b has one or, after an     *)
(* edit, two, and a skip.py that comes and goes.                           *)
EXTENDS Experiments

CONSTANTS c1, c2

MCPlans ==
    LET p(one, two) == [c \in {c1, c2} |-> IF c = c1 THEN one ELSE two]
    IN  {p(<<"suites">>, <<"reload">>),
         p(<<"edit", "suites">>, <<"reload suite">>),
         p(<<"edit", "suite">>, <<"reload">>),
         p(<<"suite">>, <<"script">>),
         p(<<"script">>, <<"script", "report">>)}
MCDisks ==
    LET a(skip) == [scripts |-> {1, 2}, skip |-> skip]
        b(xs) == [scripts |-> xs, skip |-> NoSkipFile]
    IN  {[s \in {"a", "b"} |-> IF s = "a" THEN a({2}) ELSE b({1})],
         [s \in {"a", "b"} |-> IF s = "a" THEN a(NoSkipFile) ELSE b({})]}
=============================================================================
