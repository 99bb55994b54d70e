-------------------------- MODULE MCTierScheduler --------------------------
(* One object, the five tiers and default thresholds of the code, a         *)
(* periodic scheduler and a caller.                                         *)
EXTENDS TierScheduler

CONSTANTS o1, periodic, caller

MCObjects == {o1}
MCPeriodic == {periodic}
MCCallers == {caller}

Plain(base, relevance) ==
  [base |-> base, relevance |-> relevance,
   pinned |-> FALSE, migratable |-> TRUE, expired |-> FALSE]

\* On both sides of each threshold, on it, and on either side of it depending
\* on what migrations cost.
MCSignals ==
  {Plain(62, 0), Plain(50, 88), Plain(28, 87),
   [Plain(90, 90) EXCEPT !.pinned = TRUE],
   [Plain(8, 0) EXCEPT !.expired = TRUE]}

\* Migrations for free, at the full cost, the network down, the two hot tiers
\* full.  The default cost_weight is 0.1.
MCResources ==
  {[network |-> TRUE, up |-> Tiers, down |-> Tiers, cheap |-> 10],
   [network |-> TRUE, up |-> Tiers, down |-> Tiers, cheap |-> 0],
   [network |-> FALSE, up |-> Tiers, down |-> Tiers, cheap |-> 0],
   [network |-> TRUE, up |-> {2, 3, 4}, down |-> {2, 3, 4}, cheap |-> 0]}
=============================================================================
