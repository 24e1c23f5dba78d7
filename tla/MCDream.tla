------------------------------ MODULE MCDream ------------------------------
(* Small instances of Dream: raw memories a and b, an earlier output d. *)
EXTENDS Dream

CONSTANTS a, b, d, o1, o2

TwoOutputs == <<o1, o2>>
OneOutput == <<o1>>
Link == {<<a, d>>}

\* A cited output, an edge between sources and a supersession; an output that
\* supersedes the first run's; a supersession alone.
TypicalPlans ==
    { Plan({a}, <<<<a, d>>>>, <<d>>), Plan({b}, <<>>, <<o1>>), Plan({}, <<>>, <<d>>) }

\* The dreamer names the same memory twice.
TwicePlan == { Plan({a}, <<>>, <<d, d>>) }
=============================================================================
