-------------------------- MODULE MCAgentFactory ---------------------------
(***************************************************************************)
(* A small instance of AgentFactory: the owner and two administrators, two *)
(* agents, two proposals.  Keys have three bits.  The first agent of ann   *)
(* gets the key of bob's second, and so for their approvals; the owner and *)
(* carl have addresses that differ in a bit no key contains.               *)
(***************************************************************************)
EXTENDS AgentFactory

CONSTANTS owner, ann, bob, carl     \* model values

MCAddress    == {owner, ann, bob}
MCAdmins     == {ann, bob}
MCUsers      == {ann, bob, carl, owner}
MCTreasuries == {owner}

MCSlice == [a \in MCUsers |-> CASE a = ann   -> {0}
                                [] a = bob   -> {0, 1, 2}
                                [] a = carl  -> {0, 1, 3}
                                [] a = owner -> {0, 1}]
MCMultiple == <<{2}, {1}>>
=============================================================================
