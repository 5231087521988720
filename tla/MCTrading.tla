----------------------------- MODULE MCTrading -----------------------------
(***************************************************************************)
(* A small instance of Trading: one wallet, one or two strategies.         *)
(***************************************************************************)
EXTENDS Trading

CONSTANTS owner, ai, exec, bot, dex, none   \* model values

OneOrchestrator == {ai}
NoOne           == {}
MCAddress       == {owner, exec, bot, dex}
TwoAgents       == {exec, bot}
OneSafe         == {owner}
OneVenue        == {dex}

\* The wallet's limits: trades of 1 or 2, 2 units in a window.
OneLimit == {[maxTrade |-> 2, daily |-> 2, timeLock |-> 0]}

\* A strategy that executes once, and one without such a limit.
TwoTerms == {[maxPosition |-> 1, maxLoss |-> 0, maxExecutions |-> 1, expiresAt |-> 0],
             [maxPosition |-> 1, maxLoss |-> 0, maxExecutions |-> 0, expiresAt |-> 0]}
=============================================================================
