-------------------------- MODULE StrategyExecutor --------------------------
(***************************************************************************)
(* contracts/strategy-executor.tact: registers strategies, checks the      *)
(* orchestrator's signals against their limits, keeps an audit log and     *)
(* forwards each accepted signal to the strategy's wallet.                 *)
(*                                                                         *)
(* Every receive() handler is one action with the sender as a parameter; a *)
(* message whose require() fails is rolled back and is a stuttering step,  *)
(* and so is the Deploy message of the Deployable trait, which returns     *)
(* what is left of its value and changes nothing.                          *)
(* What a strategy is allowed to do (the maxima, the expiry and the wallet *)
(* it trades for) is one member of the constant Terms.                     *)
(***************************************************************************)
EXTENDS Integers, FiniteSets

CONSTANTS
    Owner,          \* the owner given to init(); no handler changes it
    Orchestrators,  \* accounts the owner may make the orchestrator
    Others,         \* every other sender
    StrategyIds,    \* strategy identifiers in use
    Nonces,         \* signal nonces in use
    NonceLimit,     \* 2^64: nonces are stored in 64 bits
    SeqnoLimit,     \* 2^32: execution counts are stored in 32 bits
    Amounts,        \* trade sizes a signal may carry
    Pnls,           \* expected and actual profits; a loss is negative
    Terms,          \* terms a strategy may be registered with
    SendResults,    \* whether SendIgnoreErrors may skip a message to a wallet
    MaxReports,     \* bound: number of different outcomes reported
    MaxClock        \* bound: last instant explored

TermsType == [maxPosition : Nat, maxLoss : Nat, maxExecutions : Nat, expiresAt : Nat]

ASSUME KeyAssumption   == /\ StrategyIds \subseteq Nat
                          /\ NonceLimit \in Nat \ {0} /\ Nonces \subseteq 0..NonceLimit - 1
                          /\ SeqnoLimit \in Nat \ {0}
ASSUME DataAssumption  == Amounts \subseteq Nat /\ Pnls \subseteq Int
ASSUME TermsAssumption == Terms \subseteq TermsType
ASSUME SendAssumption  == SendResults \subseteq BOOLEAN
ASSUME BoundsAssumption == MaxClock \in Nat /\ MaxReports \in Nat

VARIABLES
    authorizedOrchestrator,
    strategies,      \* the registered strategies: id -> record
    auditLog,        \* audit key -> entry
    nonceToSeqno,    \* nonce key -> sequence number
    isHalted,
    clock,           \* now() (external)
    trades,          \* history: the messages ExecuteSignal sent to wallets
    reported         \* history: the outcomes ReportOutcome was given

books == <<strategies, auditLog, nonceToSeqno>>
vars  == <<authorizedOrchestrator, books, isHalted, clock, trades, reported>>

Sender == {Owner} \cup Orchestrators \cup Others

Status == {"pending", "running", "stopped", "completed"}

StrategyRecord == [terms : Terms, status : Status, executionCount : Nat,
                   cumulativeLoss : Nat, lastSignalNonce : Nat]

AuditEntry == [strategyId : StrategyIds, seqno : Nat, signalNonce : Nonces, amount : Amounts,
               expectedPnl : Pnls, actualPnl : Int, executedAt : Nat]

Init ==
    /\ authorizedOrchestrator \in Orchestrators
    /\ strategies = << >>
    /\ auditLog = << >>
    /\ nonceToSeqno = << >>
    /\ isHalted = FALSE
    /\ clock = 0
    /\ trades = {}
    /\ reported = {}

-----------------------------------------------------------------------------
(* Helpers.                                                                *)

\* map.set(): f with k bound to x.
Put(f, k, x) == [j \in DOMAIN f \cup {k} |-> IF j = k THEN x ELSE f[j]]

\* auditKey() and nonceKey(): shift the id above the 32 or 64 low bits.
\* (The first two are faulty: one forgets the id, one the sequence number.)
AuditKey_NoId(id, seqno)    == seqno
AuditKey_NoSeqno(id, seqno) == id * SeqnoLimit
AuditKey(id, seqno) == id * SeqnoLimit + seqno
NonceKey(id, nonce) == id * NonceLimit + nonce

Loss(pnl) == IF pnl < 0 THEN -pnl ELSE 0

Larger(a, b) == IF a > b THEN a ELSE b

(* Faulty variants, each named after the definition it replaces.           *)
NotHalted_Ignored               == TRUE
MayStart_Any(r)                 == TRUE
Exhausted_OffByOne(t, n)        == t.maxExecutions > 0 /\ n > t.maxExecutions
LossAfter_Overwrites(r, pnl)    == IF pnl < 0 THEN -pnl ELSE r.cumulativeLoss
SeqnoOf_Latest(id, nonce)       == strategies[id].executionCount
FreshNonce_Repeats(r, nonce)    == nonce >= r.lastSignalNonce

NotHalted == ~isHalted

MayManage(from) == from = Owner \/ from = authorizedOrchestrator

-----------------------------------------------------------------------------
(* The handlers.                                                           *)

RegisterStrategy(from, id, terms) ==
    /\ MayManage(from)
    /\ NotHalted
    /\ id \notin DOMAIN strategies
    /\ terms.maxPosition > 0
    /\ strategies' = Put(strategies, id,
                         [terms |-> terms, status |-> "pending", executionCount |-> 0,
                          cumulativeLoss |-> 0, lastSignalNonce |-> 0])
    /\ UNCHANGED <<authorizedOrchestrator, auditLog, nonceToSeqno, isHalted, clock, trades, reported>>

MayStart(r) == r.status = "pending"

StartStrategy(from, id) ==
    /\ MayManage(from)
    /\ NotHalted
    /\ id \in DOMAIN strategies
    /\ MayStart(strategies[id])
    /\ strategies' = [strategies EXCEPT ![id].status = "running"]
    /\ UNCHANGED <<authorizedOrchestrator, auditLog, nonceToSeqno, isHalted, clock, trades, reported>>

\* Any status, and also while halted.
StopStrategy(from, id) ==
    /\ MayManage(from)
    /\ id \in DOMAIN strategies
    /\ strategies' = [strategies EXCEPT ![id].status = "stopped"]
    /\ UNCHANGED <<authorizedOrchestrator, auditLog, nonceToSeqno, isHalted, clock, trades, reported>>

FreshNonce(r, nonce) == nonce > r.lastSignalNonce

\* The execution limit is used up after n executions; 0 means no limit.
Exhausted(t, n) == t.maxExecutions > 0 /\ n >= t.maxExecutions

\* The signal is within the strategy's terms, now.
WithinTerms(r, amount, pnl) ==
    /\ r.terms.expiresAt > 0 => clock < r.terms.expiresAt
    /\ amount <= r.terms.maxPosition
    /\ r.terms.maxExecutions > 0 => r.executionCount < r.terms.maxExecutions
    /\ r.terms.maxLoss > 0 => r.cumulativeLoss + Loss(pnl) <= r.terms.maxLoss

\* (Faulty: the execution is not counted.)
AfterSignal_NotCounted(r, nonce, pnl) ==
    [r EXCEPT !.lastSignalNonce = nonce, !.cumulativeLoss = r.cumulativeLoss + Loss(pnl)]

AfterSignal(r, nonce, pnl) ==
    [r EXCEPT !.lastSignalNonce = nonce,
              !.executionCount = r.executionCount + 1,
              !.cumulativeLoss = r.cumulativeLoss + Loss(pnl),
              !.status = IF Exhausted(r.terms, r.executionCount + 1) THEN "completed" ELSE r.status]

\* The count is stored in 32 bits: the TVM aborts when it no longer fits.
\* sent is FALSE when SendIgnoreErrors skipped the message to the wallet,
\* which depends on a balance this contract keeps no account of.
ExecuteSignal(from, id, nonce, amount, pnl, sent) ==
    /\ from = authorizedOrchestrator
    /\ NotHalted
    /\ id \in DOMAIN strategies
    /\ LET r     == strategies[id]
           seqno == r.executionCount + 1
       IN  /\ r.status = "running"
           /\ FreshNonce(r, nonce)
           /\ WithinTerms(r, amount, pnl)
           /\ seqno < SeqnoLimit
           /\ strategies' = [strategies EXCEPT ![id] = AfterSignal(r, nonce, pnl)]
           /\ auditLog' = Put(auditLog, AuditKey(id, seqno),
                              [strategyId |-> id, seqno |-> seqno, signalNonce |-> nonce,
                               amount |-> amount, expectedPnl |-> pnl, actualPnl |-> 0,
                               executedAt |-> clock])
           /\ nonceToSeqno' = Put(nonceToSeqno, NonceKey(id, nonce), seqno)
    /\ trades' = trades \cup {[strategyId |-> id, signalNonce |-> nonce, amount |-> amount, sent |-> sent]}
    /\ UNCHANGED <<authorizedOrchestrator, isHalted, clock, reported>>

\* The larger of the running total and this one loss, not their sum.
LossAfter(r, pnl) == IF pnl < 0 THEN Larger(-pnl, r.cumulativeLoss) ELSE r.cumulativeLoss

AfterReport(r, pnl) ==
    LET loss == LossAfter(r, pnl)
    IN  [r EXCEPT !.cumulativeLoss = loss,
                  !.status = IF /\ pnl < 0 /\ r.status = "running"
                                /\ r.terms.maxLoss > 0 /\ loss >= r.terms.maxLoss
                             THEN "stopped" ELSE r.status]

\* The sequence number the signal was executed under.
SeqnoOf(id, nonce) == nonceToSeqno[NonceKey(id, nonce)]

\* Not blocked by a halt or by the status.
ReportOutcome(from, id, nonce, pnl) ==
    /\ from = authorizedOrchestrator
    /\ id \in DOMAIN strategies
    /\ strategies' = [strategies EXCEPT ![id] = AfterReport(@, pnl)]
    /\ auditLog' =
         IF NonceKey(id, nonce) \in DOMAIN nonceToSeqno
            /\ AuditKey(id, SeqnoOf(id, nonce)) \in DOMAIN auditLog
         THEN [auditLog EXCEPT ![AuditKey(id, SeqnoOf(id, nonce))].actualPnl = pnl]
         ELSE auditLog
    /\ reported' = reported \cup {[strategyId |-> id, signalNonce |-> nonce, pnl |-> pnl]}
    /\ UNCHANGED <<authorizedOrchestrator, nonceToSeqno, isHalted, clock, trades>>

SetOrchestrator(from, new) ==
    /\ from = Owner
    /\ authorizedOrchestrator' = new
    /\ UNCHANGED <<books, isHalted, clock, trades, reported>>

EmergencyHalt(from) ==
    /\ from = Owner
    /\ isHalted' = TRUE
    /\ UNCHANGED <<authorizedOrchestrator, books, clock, trades, reported>>

Tick ==
    /\ clock < MaxClock
    /\ clock' = clock + 1
    /\ UNCHANGED <<authorizedOrchestrator, books, isHalted, trades, reported>>

Signal(from) ==
    \E id \in StrategyIds, nonce \in Nonces, amount \in Amounts, pnl \in Pnls, sent \in SendResults :
        ExecuteSignal(from, id, nonce, amount, pnl, sent)

Report(from) ==
    /\ Cardinality(reported) < MaxReports
    /\ \E id \in StrategyIds, nonce \in Nonces, pnl \in Pnls : ReportOutcome(from, id, nonce, pnl)

Manage(from) ==
    \/ \E id \in StrategyIds, terms \in Terms : RegisterStrategy(from, id, terms)
    \/ \E id \in StrategyIds : StartStrategy(from, id) \/ StopStrategy(from, id)
    \/ \E new \in Orchestrators : SetOrchestrator(from, new)
    \/ EmergencyHalt(from)

Message(from) == Signal(from) \/ Report(from) \/ Manage(from)

Next == Tick \/ \E from \in Sender : Message(from)

Spec == Init /\ [][Next]_vars

-----------------------------------------------------------------------------
(* Properties.                                                             *)

TypeOK ==
    /\ authorizedOrchestrator \in Orchestrators
    /\ DOMAIN strategies \subseteq StrategyIds
    /\ strategies \in [DOMAIN strategies -> StrategyRecord]
    /\ auditLog \in [DOMAIN auditLog -> AuditEntry]
    /\ nonceToSeqno \in [DOMAIN nonceToSeqno -> 1..SeqnoLimit - 1]
    /\ isHalted \in BOOLEAN
    /\ clock \in Nat

\* The audit log of a strategy is the gapless list 1..executionCount, each
\* entry under its own key, and the nonces in it strictly increase (replay
\* protection, SE-I-04): two strategies never share or overwrite an entry.
Entry(id, n) == auditLog[AuditKey(id, n)]

EntriesPresent ==
    \A id \in DOMAIN strategies :
        /\ strategies[id].executionCount < SeqnoLimit
        /\ \A n \in 1..strategies[id].executionCount :
             /\ AuditKey(id, n) \in DOMAIN auditLog
             /\ Entry(id, n).strategyId = id
             /\ Entry(id, n).seqno = n
             /\ Entry(id, n).signalNonce <= strategies[id].lastSignalNonce

NoncesIncrease ==
    \A id \in DOMAIN strategies :
        \A m, n \in 1..strategies[id].executionCount :
            m < n => Entry(id, m).signalNonce < Entry(id, n).signalNonce

EntriesAccountedFor ==
    \A k \in DOMAIN auditLog :
        /\ auditLog[k].strategyId \in DOMAIN strategies
        /\ auditLog[k].seqno \in 1..strategies[auditLog[k].strategyId].executionCount
        /\ k = AuditKey(auditLog[k].strategyId, auditLog[k].seqno)

AuditComplete == EntriesPresent /\ NoncesIncrease /\ EntriesAccountedFor

\* The nonce index and the audit log agree in both directions, so that a
\* report finds the entry of its own signal however many came after it.
EntriesIndexed ==
    \A k \in DOMAIN auditLog :
        /\ NonceKey(auditLog[k].strategyId, auditLog[k].signalNonce) \in DOMAIN nonceToSeqno
        /\ SeqnoOf(auditLog[k].strategyId, auditLog[k].signalNonce) = auditLog[k].seqno

IndexSound ==
    \A id \in StrategyIds, nonce \in Nonces :
        NonceKey(id, nonce) \in DOMAIN nonceToSeqno =>
            /\ id \in DOMAIN strategies
            /\ SeqnoOf(id, nonce) \in 1..strategies[id].executionCount
            /\ Entry(id, SeqnoOf(id, nonce)).signalNonce = nonce

IndexAgrees == EntriesIndexed /\ IndexSound

\* An outcome in the audit log was reported for that very signal.
OutcomesBelongToTheirSignal ==
    \A k \in DOMAIN auditLog :
        auditLog[k].actualPnl # 0 =>
            [strategyId |-> auditLog[k].strategyId, signalNonce |-> auditLog[k].signalNonce,
             pnl |-> auditLog[k].actualPnl] \in reported

\* An execution, once logged, stays logged as it was; only its outcome may
\* be filled in ("append-only audit trail").
AuditAppendOnly ==
    [][\A k \in DOMAIN auditLog :
         /\ k \in DOMAIN auditLog'
         /\ auditLog'[k] = [auditLog[k] EXCEPT !.actualPnl = auditLog'[k].actualPnl]]_vars

\* A strategy that stopped or completed never executes again and never leaves
\* those two states, whatever arrives late or is sent again.
FinishedStaysFinished ==
    [][\A id \in DOMAIN strategies :
         strategies[id].status \in {"stopped", "completed"} =>
            /\ strategies'[id].status \in {"stopped", "completed"}
            /\ strategies'[id].executionCount = strategies[id].executionCount]_vars

\* After EmergencyHalt nothing is registered, started, executed or sent, and
\* there is no way back (SE-I-08).
HaltIsFinal ==
    [][isHalted =>
         /\ isHalted'
         /\ trades' = trades /\ DOMAIN auditLog' = DOMAIN auditLog
         /\ DOMAIN strategies' = DOMAIN strategies
         /\ \A id \in DOMAIN strategies :
              strategies'[id].status = "running" => strategies[id].status = "running"]_vars

\* SE-I-07: what the accepted signals of a strategy expected to lose, added
\* up over its whole life and whatever was reported in between, stays within
\* maxLossNano: the running totals of those losses never leave 0..maxLoss.
ProjectedLosses(id, total) ==
    /\ total[0] = 0
    /\ \A n \in 1..strategies[id].executionCount :
         total[n] = total[n - 1] + Loss(Entry(id, n).expectedPnl)

ProjectedLossBounded ==
    \A id \in DOMAIN strategies :
        strategies[id].terms.maxLoss > 0 =>
            \E total \in [0..strategies[id].executionCount -> 0..strategies[id].terms.maxLoss] :
                ProjectedLosses(id, total)

\* A limited strategy is "completed" exactly when its executions are used up
\* (unless it was stopped), and never runs beyond them (SE-I-05).
CompletionIsExact ==
    \A id \in DOMAIN strategies :
        LET r == strategies[id]
        IN  /\ r.status = "completed" => r.executionCount = r.terms.maxExecutions
            /\ r.status = "running" /\ r.terms.maxExecutions > 0 =>
                 r.executionCount < r.terms.maxExecutions
            /\ r.terms.maxExecutions > 0 => r.executionCount <= r.terms.maxExecutions
=============================================================================
