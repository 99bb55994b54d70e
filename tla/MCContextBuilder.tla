------------------------- MODULE MCContextBuilder -------------------------
(* Every store of three memories: two types, contents that differ in case   *)
(* and spacing only, short and long ones, three scores.                     *)
EXTENDS ContextBuilder

CONSTANTS k1, k2

MCKeys == {k1, k2}
MCScores == 0..2
MCTokens == {1, 3}

\* All types, and one of them twice; budgets of one long memory, and of a long
\* and a short one.
MCRequests ==
  [types : {<<"working", "episodic", "semantic">>, <<"episodic", "working", "episodic">>},
   candidates : 1..3, tokens : {3, 4}]
=============================================================================
