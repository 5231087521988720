--------------------------- MODULE TimeLockQueue ---------------------------
(***************************************************************************)
(* What AgentWallet promises about large withdrawals, with everything else *)
(* of the wallet left out: an order, once queued, waits unchanged until    *)
(* its unlock time, is issued at most once after it, and an identifier is  *)
(* never given to a second order.                                          *)
(***************************************************************************)
EXTENDS Integers

CONSTANTS
    Id,          \* identifiers an order may be given
    Order        \* what is paid and when: [to, amount, unlocksAt]

VARIABLES
    clock,       \* current time
    queued,      \* set of <<id, order>>: orders that wait
    issued       \* set of <<id, to, amount, instant>>: payments issued

vars == <<clock, queued, issued>>

Ids == {q[1] : q \in queued} \cup {i[1] : i \in issued}

Init ==
    /\ clock \in Nat
    /\ queued = {}
    /\ issued = {}

Enqueue(id, order) ==
    /\ id \notin Ids
    /\ order.unlocksAt > clock
    /\ queued' = queued \cup {<<id, order>>}
    /\ UNCHANGED <<clock, issued>>

Issue(id, order) ==
    /\ <<id, order>> \in queued
    /\ clock >= order.unlocksAt
    /\ queued' = queued \ {<<id, order>>}
    /\ issued' = issued \cup {<<id, order.to, order.amount, clock>>}
    /\ UNCHANGED clock

Pass ==
    /\ clock' \in Nat
    /\ clock' > clock
    /\ UNCHANGED <<queued, issued>>

Next ==
    \/ \E id \in Id, order \in Order : Enqueue(id, order)
    \/ \E id \in Id, order \in Order : Issue(id, order)
    \/ Pass

Spec == Init /\ [][Next]_vars
=============================================================================
