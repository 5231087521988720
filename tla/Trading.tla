------------------------------ MODULE Trading ------------------------------
(***************************************************************************)
(* A signal's way from the StrategyExecutor contract to an AgentWallet     *)
(* that has the executor as its agent (contracts/strategy-executor.tact:   *)
(* 322-329, contracts/agent-wallet.tact:226-263).                          *)
(*                                                                         *)
(* ExecuteSignal books the signal and sends the wallet a message that      *)
(* carries msg.amount as its value and the orchestrator's payload as its   *)
(* body.  The network is external: it delivers the messages between two    *)
(* contracts in the order they were sent, each of them once, and any       *)
(* number of steps of either contract can come first.  The payload is      *)
(* opaque to the executor: an AgentExecute body names a destination and an *)
(* amount of its own, and without a payload the empty body is a deposit.   *)
(* A body that the wallet rejects bounces; the executor has no bounced()   *)
(* receiver, so nothing it has booked is undone.                           *)
(***************************************************************************)
EXTENDS Integers, Sequences, FiniteSets

CONSTANTS
    \* of the executor
    ExecutorOwner, Orchestrators, Others, StrategyIds, Nonces, NonceLimit, SeqnoLimit,
    SignalAmounts, Pnls, Terms, SendResults, MaxReports,
    \* of the wallet
    Address, Owner, Agents, Safes, Venues, Payees, Reserve, Day, MaxFee, Amounts, Values,
    LimitChoices, MaxOutbox, MaxBalance, MaxNonce, MaxTimeLock,
    \* of both
    MaxClock,
    Executor,       \* the executor's own address
    NoBody          \* the payload of a signal that has none

VARIABLES
    authorizedOrchestrator, strategies, auditLog, nonceToSeqno, isHalted, trades, reported,
    agent, safeAddress, limits, dailySpent, dayStart, allowedDexes, whitelistActive,
    pendingWithdrawals, withdrawalNonce, isPaused, balance, outbox,
    clock,
    inFlight,       \* messages from the executor to the wallet (external)
    settled         \* history: what became of the delivered messages, in order

E == INSTANCE StrategyExecutor WITH Owner <- ExecutorOwner, Amounts <- SignalAmounts
W == INSTANCE AgentWallet

executorState == <<authorizedOrchestrator, strategies, auditLog, nonceToSeqno, isHalted,
                   trades, reported>>
walletState   == <<agent, safeAddress, limits, dailySpent, dayStart, allowedDexes,
                   whitelistActive, pendingWithdrawals, withdrawalNonce, isPaused,
                   balance, outbox>>
wire          == <<inFlight, settled>>
vars          == <<executorState, walletState, clock, wire>>

\* A payload: the AgentExecute the orchestrator encoded, or none.
Body == [to : Venues, amount : Amounts] \cup {NoBody}

\* What the executor assumes of its parameters.
ASSUME ExecutorAssumption == /\ E!KeyAssumption /\ E!DataAssumption /\ E!TermsAssumption
                             /\ E!SendAssumption /\ E!BoundsAssumption
ASSUME ExecutorAddress == Executor \in Address
ASSUME FreshNoBody     == NoBody \notin [to : Venues, amount : Amounts]
ASSUME ValuesCovered   == \A a \in SignalAmounts, fee \in 0..MaxFee : fee <= a => a - fee \in Values

Init ==
    /\ E!Init
    /\ W!Init
    /\ inFlight = << >>
    /\ settled = << >>

-----------------------------------------------------------------------------
(* Steps of one contract alone.                                            *)

Tick == E!Tick /\ W!Tick /\ UNCHANGED wire

ManageExecutor ==
    /\ \E from \in E!Sender : E!Manage(from) \/ E!Report(from)
    /\ UNCHANGED <<walletState, wire>>

\* Every message to the wallet but the executor's own.
UseWallet ==
    /\ Len(outbox) < MaxOutbox
    /\ \E from \in Address \ {Executor}, v \in Values :
          /\ W!MyBalance(v) <= MaxBalance
          /\ W!Message(from, v)
    /\ UNCHANGED <<executorState, wire>>

-----------------------------------------------------------------------------
(* From one contract to the other.                                         *)

\* The message ExecuteSignal sends; value is what the forwarding fee leaves.
Forward(id, nonce, amount, body) ==
    \E fee \in 0..MaxFee :
        /\ fee <= amount
        /\ inFlight' = Append(inFlight, [strategyId |-> id, signalNonce |-> nonce,
                                         value |-> amount - fee, body |-> body])

Signal ==
    \E from \in E!Sender, id \in StrategyIds, nonce \in Nonces, amount \in SignalAmounts,
       pnl \in Pnls, sent \in SendResults, body \in Body :
        /\ E!ExecuteSignal(from, id, nonce, amount, pnl, sent)
        /\ IF sent THEN Forward(id, nonce, amount, body) ELSE inFlight' = inFlight
        /\ UNCHANGED <<walletState, settled>>

\* The wallet has dealt with the oldest message; transfer is the position in
\* the outbox of the transfer it made, 0 if it made none.
Settle(transfer) ==
    /\ inFlight' = Tail(inFlight)
    /\ settled' = Append(settled, [strategyId |-> Head(inFlight).strategyId,
                                   signalNonce |-> Head(inFlight).signalNonce,
                                   transfer |-> transfer])
    /\ UNCHANGED executorState

Arrived(m) ==
    /\ inFlight # << >>
    /\ m = Head(inFlight)
    /\ Len(outbox) < MaxOutbox
    /\ W!MyBalance(m.value) <= MaxBalance

Trade(m) ==
    /\ Arrived(m)
    /\ m.body # NoBody
    /\ W!AgentExecute(Executor, m.value, m.body.to, m.body.amount)
    /\ Settle(Len(outbox) + 1)

EmptyBody(m) ==
    /\ Arrived(m)
    /\ m.body = NoBody
    /\ W!Deposit(m.value)
    /\ Settle(0)

\* A check fails, or the attached value does not pay for the gas.
Bounce(m) ==
    /\ Arrived(m)
    /\ \/ m.value <= MaxFee
       \/ /\ m.body # NoBody
          /\ ~W!TradeAllowed(Executor, m.value, m.body.to, m.body.amount)
    /\ Settle(0)
    /\ UNCHANGED <<walletState, clock>>

Deliver == \E m \in {inFlight[i] : i \in DOMAIN inFlight} : Trade(m) \/ EmptyBody(m) \/ Bounce(m)

Next == Tick \/ ManageExecutor \/ UseWallet \/ Signal \/ Deliver

Spec == Init /\ [][Next]_vars

-----------------------------------------------------------------------------
(* Properties.                                                             *)

Traded == {i \in DOMAIN settled : settled[i].transfer > 0}

\* strategy-executor.tact:4-6, "records all executed trades": whatever the
\* wallet pays out for a signal was booked before, under that signal's nonce,
\* and the booking is still there.
TradesAreAudited ==
    \A i \in Traded : \E k \in DOMAIN auditLog :
        /\ auditLog[k].strategyId = settled[i].strategyId
        /\ auditLog[k].signalNonce = settled[i].signalNonce
        /\ auditLog[k].executedAt <= outbox[settled[i].transfer].at

\* One signal moves money at most once, and the signals of a strategy move it
\* in the order of their nonces, whatever is delayed, rejected or sent again.
TradesInSignalOrder ==
    \A i, j \in Traded :
        i < j /\ settled[i].strategyId = settled[j].strategyId
            => settled[i].signalNonce < settled[j].signalNonce

\* The wallet makes no more trades for a strategy than its maxExecutions, even
\* when the executor is halted, restarted or given another orchestrator.
TradesWithinExecutions ==
    \A id \in DOMAIN strategies :
        strategies[id].terms.maxExecutions > 0 =>
            Cardinality({i \in Traded : settled[i].strategyId = id})
                <= strategies[id].terms.maxExecutions

\* After EmergencyHalt only what was already on its way can still be traded:
\* the executor adds nothing to it, so the wallet's trades for it dry up.
HaltDrains ==
    [][isHalted /\ isHalted' =>
         /\ Len(settled') + Len(inFlight') = Len(settled) + Len(inFlight)
         /\ Len(inFlight') <= Len(inFlight)]_vars
=============================================================================
