--------------------------- MODULE CapitalManager ---------------------------
(***************************************************************************)
(* core/multi-agent/resources/capital-manager.ts: pools of capital that    *)
(* agents request, use and release, and that rebalance() takes back from   *)
(* agents that do badly.  requestCapital() picks a pool, awaits, and then  *)
(* decides on the pool as it is by then: other requests, releases, profits *)
(* and rebalancing come in between.                                        *)
(*                                                                         *)
(* Capital is counted in a smallest unit, ratios are percentages and       *)
(* shares are rounded down: what floating point rounds is left out, and so *)
(* are expiry and dailyLimit, which the code never looks at, and the       *)
(* request history.  Pool ids are distinct.                                *)
(***************************************************************************)
EXTENDS Integers, Sequences, Sums

CONSTANTS
    Agents,
    Limits,                          \* the CapitalLimits pools are created with
    Totals, Amounts, Results,        \* inputs: new pools, requests, profits and losses
    MaxPools, MaxOpen, MaxTotal, MaxPerformance     \* bounds

ASSUME LimitsAssumption ==
    Limits \subseteq [maxPerAgent : Nat, maxPerOperation : Nat,
                      reserveRatio : 0..100, rebalanceThreshold : 0..100]
ASSUME InputsAssumption == Totals \subseteq Nat /\ Amounts \subseteq Nat \ {0} /\ Results \subseteq Int
ASSUME BoundsAssumption ==
    MaxPools \in Nat /\ MaxOpen \in Nat /\ MaxTotal \in Nat /\ MaxPerformance \in Nat

VARIABLES
    pools,       \* in the order they were created
    waiting      \* requests at their await, in order

vars == <<pools, waiting>>

Allocation == [agentId : Agents, amount : Nat \ {0}, performance : Int]
Pool == [totalCapital : Nat, availableCapital : Nat, reservedCapital : Nat,
         allocations : Seq(Allocation), limits : Limits]

\* urgent: PARTIAL_ALLOCATION_MAX_PRIORITY or better.  Pool 0 is null.
Request == [agentId : Agents, amount : Amounts, urgent : BOOLEAN, highRisk : BOOLEAN, pool : 0..MaxPools]

Init == pools = << >> /\ waiting = << >>

-----------------------------------------------------------------------------
(* Faulty variants: bugs this code could have had.                         *)

Granted_Unchecked(pool, q)   == q.amount
WithinLimits_One(pool, q)    == q.amount <= pool.limits.maxPerAgent /\ q.amount <= pool.limits.maxPerOperation
Released_Asked(held, amount) == amount

-----------------------------------------------------------------------------
AmountsOf(allocations) == [i \in DOMAIN allocations |-> allocations[i].amount]

\* The same for one agent: what others hold counts as nothing.
HeldBy(allocations, a) ==
    [i \in DOMAIN allocations |-> IF allocations[i].agentId = a THEN allocations[i].amount ELSE 0]

CreatePool(total, limits) ==
    LET reserved == (total * limits.reserveRatio) \div 100 IN
    /\ Len(pools) < MaxPools /\ total <= MaxTotal
    /\ pools' = Append(pools, [totalCapital     |-> total,
                               availableCapital |-> total - reserved,
                               reservedCapital  |-> reserved,
                               allocations      |-> << >>,
                               limits           |-> limits])
    /\ UNCHANGED waiting

\* findPoolForRequest(): the first pool with enough, or else one with the most.
Sufficient(amount) == {p \in DOMAIN pools : pools[p].availableCapital >= amount}
Fullest == {p \in DOMAIN pools : /\ pools[p].availableCapital > 0
                                 /\ \A o \in DOMAIN pools : pools[o].availableCapital <= pools[p].availableCapital}
First(P) == IF P = {} THEN 0 ELSE CHOOSE p \in P : \A o \in P : p <= o
PoolFor(amount) == First(IF Sufficient(amount) # {} THEN Sufficient(amount) ELSE Fullest)

\* How many allocations there are (for the bound on open requests).
Allocations == Total([p \in DOMAIN pools |-> Len(pools[p].allocations)])

\* requestCapital() up to its await.
RequestCapital(a, amount, urgent, highRisk) ==
    /\ Len(waiting) + Allocations < MaxOpen
    /\ waiting' = Append(waiting, [agentId |-> a, amount |-> amount, urgent |-> urgent,
                                   highRisk |-> highRisk, pool |-> PoolFor(amount)])
    /\ UNCHANGED pools

WithinLimits(pool, q) ==
    /\ Total(HeldBy(pool.allocations, q.agentId)) + q.amount <= pool.limits.maxPerAgent
    /\ q.amount <= pool.limits.maxPerOperation
    /\ q.highRisk => 2 * q.amount <= pool.limits.maxPerOperation

\* All that is asked for, all there is for an urgent request, or nothing.
Granted(pool, q) ==
    IF q.amount <= pool.availableCapital THEN q.amount
    ELSE IF q.urgent THEN pool.availableCapital ELSE 0

Allocated(pool, q) ==
    [pool EXCEPT !.allocations = Append(@, [agentId |-> q.agentId, amount |-> Granted(pool, q), performance |-> 0]),
                 !.availableCapital = @ - Granted(pool, q)]

\* requestCapital() after its await.
Decide ==
    /\ waiting # << >>
    /\ waiting' = Tail(waiting)
    /\ LET q == Head(waiting) IN
         \/ /\ q.pool # 0
            /\ WithinLimits(pools[q.pool], q) /\ Granted(pools[q.pool], q) > 0
            /\ pools' = [pools EXCEPT ![q.pool] = Allocated(@, q)]
         \/ /\ q.pool # 0 => ~WithinLimits(pools[q.pool], q) \/ Granted(pools[q.pool], q) = 0
            /\ UNCHANGED pools

\* The pool and the allocation that the loops over all pools come to first.
Held(p, a) == {i \in DOMAIN pools[p].allocations : pools[p].allocations[i].agentId = a}
PoolOf(a) == First({p \in DOMAIN pools : Held(p, a) # {}})

Released(held, amount) == IF amount < held THEN amount ELSE held

Without(allocations, i) == SubSeq(allocations, 1, i - 1) \o SubSeq(allocations, i + 1, Len(allocations))

AfterRelease(pool, i, amount) ==
    LET held     == pool.allocations[i].amount
        released == Released(held, amount)
    IN  [pool EXCEPT !.availableCapital = @ + released,
                     !.allocations = IF released >= held THEN Without(@, i)
                                     ELSE [@ EXCEPT ![i].amount = held - released]]

ReleaseCapital(a, amount) ==
    /\ PoolOf(a) # 0
    /\ pools' = [pools EXCEPT ![PoolOf(a)] = AfterRelease(@, First(Held(PoolOf(a), a)), amount)]
    /\ UNCHANGED waiting

\* A profit is new capital, a loss is only remembered.
Profit(pnl) == IF pnl > 0 THEN pnl ELSE 0

AfterResult(pool, i, pnl) ==
    [pool EXCEPT !.allocations[i].performance = @ + pnl,
                 !.totalCapital = @ + Profit(pnl),
                 !.availableCapital = @ + Profit(pnl)]

UpdatePerformance(a, pnl) ==
    LET p == PoolOf(a)
        i == First(Held(p, a))
    IN  /\ p # 0
        /\ pools[p].totalCapital + Profit(pnl) <= MaxTotal
        /\ pools[p].allocations[i].performance + pnl \in (-MaxPerformance)..MaxPerformance
        /\ pools' = [pools EXCEPT ![p] = AfterResult(@, i, pnl)]
        /\ UNCHANGED waiting

\* rebalancePool(): a fifth of every allocation that does worse than half the
\* average goes back.
Reductions(allocations) ==
    LET performance == Total([i \in DOMAIN allocations |-> allocations[i].performance])
    IN  [i \in DOMAIN allocations |->
           IF 2 * Len(allocations) * allocations[i].performance < performance
           THEN allocations[i].amount \div 5 ELSE 0]

Reduced(allocations, cut) ==
    [i \in DOMAIN allocations |-> [allocations[i] EXCEPT !.amount = @ - cut[i]]]

Rebalanced(pool) ==
    LET cut == Reductions(pool.allocations)
    IN  [pool EXCEPT !.availableCapital = @ + Total(cut),
                     !.allocations = Reduced(@, cut)]

\* rebalance() awaits between two pools, so each is a step of its own.
RebalancePool(p) ==
    /\ 100 * Total(AmountsOf(pools[p].allocations)) >=
         pools[p].limits.rebalanceThreshold * (pools[p].totalCapital - pools[p].reservedCapital)
    /\ pools' = [pools EXCEPT ![p] = Rebalanced(@)]
    /\ UNCHANGED waiting

Next ==
    \/ \E total \in Totals, limits \in Limits : CreatePool(total, limits)
    \/ \E a \in Agents, amount \in Amounts :
         \/ \E urgent, highRisk \in BOOLEAN : RequestCapital(a, amount, urgent, highRisk)
         \/ ReleaseCapital(a, amount)
    \/ Decide
    \/ \E a \in Agents, pnl \in Results : UpdatePerformance(a, pnl)
    \/ \E p \in DOMAIN pools : RebalancePool(p)

Spec == Init /\ [][Next]_vars

-----------------------------------------------------------------------------
(* Properties.                                                             *)

\* No pool is overdrawn, whatever was taken between the choice of the pool and
\* the decision, and no allocation is kept that holds nothing.
TypeOK == pools \in Seq(Pool) /\ waiting \in Seq(Request)

\* A pool's capital is available, reserved or lent: none is lost or made by a
\* request, a release, a profit or rebalancing.
BooksBalance ==
    \A p \in DOMAIN pools :
        pools[p].availableCapital + pools[p].reservedCapital + Total(AmountsOf(pools[p].allocations))
          = pools[p].totalCapital

\* maxPerAgent, "Maximum capital per agent" (docs/multi-agent.md:394), holds in
\* every pool through concurrent requests of the same agent.
PerAgentLimit ==
    \A p \in DOMAIN pools, a \in Agents :
        Total(HeldBy(pools[p].allocations, a)) <= pools[p].limits.maxPerAgent
=============================================================================
