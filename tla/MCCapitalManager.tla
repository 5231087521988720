-------------------------- MODULE MCCapitalManager --------------------------
(***************************************************************************)
(* A small instance of CapitalManager: two agents, two pools with limits   *)
(* of their own, and requests that together ask for more than there is.    *)
(***************************************************************************)
EXTENDS CapitalManager, TLC

CONSTANTS trader, hedger     \* model values

TwoAgents  == {trader, hedger}
SmallPools == {8}
Loose      == [maxPerAgent |-> 6, maxPerOperation |-> 6, reserveRatio |-> 20, rebalanceThreshold |-> 10]
Strict     == [maxPerAgent |-> 3, maxPerOperation |-> 5, reserveRatio |-> 0, rebalanceThreshold |-> 50]
TwoLimits  == {Loose, Strict}
SomeAmount == {3, 5}
WinOrLose  == {-1, 1}
AnyAgent   == Permutations(TwoAgents)
=============================================================================
