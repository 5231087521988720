-------------------------- MODULE MCSigningSession --------------------------
(***************************************************************************)
(* A small instance of SigningSession: 2 of 3 shares, two request ids and  *)
(* two messages.                                                           *)
(***************************************************************************)
EXTENDS SigningSession, TLC

CONSTANTS pay, swap, invoice, receipt, none     \* model values

TwoRequests == {pay, swap}
TwoMessages == {invoice, receipt}
AnyName     == Permutations(TwoRequests) \cup Permutations(TwoMessages)
=============================================================================
