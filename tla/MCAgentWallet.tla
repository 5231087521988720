--------------------------- MODULE MCAgentWallet ---------------------------
(***************************************************************************)
(* Small instances of AgentWallet.                                         *)
(***************************************************************************)
EXTENDS AgentWallet

CONSTANTS owner, bot, venue     \* model values

MCAddress == {owner, bot, venue}

OneAgent  == {bot}
TwoAgents == {bot, venue}
TwoSafes  == {bot, venue}
OnePayee  == {venue}
NoVenue   == {}
TwoVenues == {bot, venue}

\* Limits for the runs that look at custody: with and without a time lock.
CustodyLimits == {[maxTrade |-> 1, daily |-> 2, timeLock |-> 2],
                  [maxTrade |-> 2, daily |-> 2, timeLock |-> 0]}

\* Limits for the run that looks at the spending window.
BudgetLimits == {[maxTrade |-> 1, daily |-> 1, timeLock |-> 0],
                 [maxTrade |-> 2, daily |-> 2, timeLock |-> 0]}
=============================================================================
