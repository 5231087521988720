------------------------- MODULE MCStrategyExecutor -------------------------
(***************************************************************************)
(* A small instance of StrategyExecutor.                                   *)
(***************************************************************************)
EXTENDS StrategyExecutor

CONSTANTS owner, ai, stranger   \* model values

OneOrchestrator == {ai}
NoOthers        == {}
OneOther        == {stranger}

\* A profit, and losses of one and two units.
SomePnls == {-2, -1, 1}

\* Both may lose two units and expire at 1; the first may execute twice.
TwoTerms == {[maxPosition |-> 1, maxLoss |-> 2, maxExecutions |-> 2, expiresAt |-> 1],
             [maxPosition |-> 1, maxLoss |-> 2, maxExecutions |-> 0, expiresAt |-> 1]}
=============================================================================
