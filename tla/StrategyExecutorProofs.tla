----------------------- MODULE StrategyExecutorProofs -----------------------
(***************************************************************************)
(* Proofs about StrategyExecutor, for any number of strategies, signals,   *)
(* limits and instants.                                                    *)
(***************************************************************************)
EXTENDS StrategyExecutor, TLAPS

USE DEF StrategyRecord, AuditEntry, TermsType, Status

-----------------------------------------------------------------------------
(* Packed keys.                                                            *)

\* Shifting the id above the low part makes pairs and keys correspond one to
\* one, as long as the low part fits: no two strategies share a key.
LEMMA PackedKeysDiffer ==
    ASSUME NEW limit \in Nat \ {0}, NEW a \in Nat, NEW b \in Nat,
           NEW m \in 0..limit - 1, NEW n \in 0..limit - 1,
           a * limit + m = b * limit + n
    PROVE  a = b /\ m = n
  <1>1. \A x, y \in Nat : x < y => x * limit + limit <= y * limit
    <2> TAKE x \in Nat, y \in Nat
    <2> HAVE x < y
    <2>1. PICK d \in Nat : y = x + 1 + d
      <3>1. y - x - 1 \in Nat /\ y = x + 1 + (y - x - 1)
        OBVIOUS
      <3> QED
        BY <3>1
    <2>2. y * limit = x * limit + limit + d * limit
      BY <2>1
    <2>3. d * limit \in Nat /\ x * limit \in Nat
      OBVIOUS
    <2> QED
      BY <2>2, <2>3
  <1>2. a * limit \in Nat /\ b * limit \in Nat
    OBVIOUS
  <1>3. ~(a < b)
    BY <1>1, <1>2
  <1>4. ~(b < a)
    BY <1>1, <1>2
  <1>5. a = b
    BY <1>3, <1>4
  <1> QED
    BY <1>2, <1>5

\* Two audit keys are equal only for the same strategy and number.
LEMMA AuditKeysDiffer ==
    ASSUME NEW id \in StrategyIds, NEW other \in StrategyIds,
           NEW m \in 0..SeqnoLimit - 1, NEW n \in 0..SeqnoLimit - 1,
           AuditKey(id, m) = AuditKey(other, n)
    PROVE  id = other /\ m = n
  BY KeyAssumption, PackedKeysDiffer DEF AuditKey

\* Two nonce keys are equal only for the same strategy and nonce.
LEMMA NonceKeysDiffer ==
    ASSUME NEW id \in StrategyIds, NEW other \in StrategyIds,
           NEW m \in Nonces, NEW n \in Nonces,
           NonceKey(id, m) = NonceKey(other, n)
    PROVE  id = other /\ m = n
  BY KeyAssumption, PackedKeysDiffer DEF NonceKey

-----------------------------------------------------------------------------
(* Every step is one of six things to the books.                           *)

Executes(id, nonce, amount, pnl, sent) ==
    /\ id \in DOMAIN strategies
    /\ ExecuteSignal(authorizedOrchestrator, id, nonce, amount, pnl, sent)

Reports(id, nonce, pnl) ==
    /\ id \in DOMAIN strategies
    /\ ReportOutcome(authorizedOrchestrator, id, nonce, pnl)

Registers(id, terms) ==
    /\ \E from \in Sender : RegisterStrategy(from, id, terms)

Starts(id) == id \in DOMAIN strategies /\ \E from \in Sender : StartStrategy(from, id)
Stops(id)  == id \in DOMAIN strategies /\ \E from \in Sender : StopStrategy(from, id)

\* SetOrchestrator, EmergencyHalt, Tick and stuttering.
LeavesBooks ==
    /\ UNCHANGED <<books, trades, reported>>
    /\ authorizedOrchestrator' \in Orchestrators \cup {authorizedOrchestrator}
    /\ isHalted' \in {isHalted, TRUE}
    /\ clock' \in {clock, clock + 1}

\* Every step is one of the six.
LEMMA StepCases ==
    ASSUME [Next]_vars
    PROVE  \/ \E id \in StrategyIds, nonce \in Nonces, amount \in Amounts, pnl \in Pnls,
                 sent \in BOOLEAN : Executes(id, nonce, amount, pnl, sent)
           \/ \E id \in StrategyIds, nonce \in Nonces, pnl \in Pnls : Reports(id, nonce, pnl)
           \/ \E id \in StrategyIds, terms \in Terms : Registers(id, terms)
           \/ \E id \in StrategyIds : Starts(id)
           \/ \E id \in StrategyIds : Stops(id)
           \/ LeavesBooks
  <1> DEFINE Goal ==
           \/ \E id \in StrategyIds, nonce \in Nonces, amount \in Amounts, pnl \in Pnls,
                 sent \in BOOLEAN : Executes(id, nonce, amount, pnl, sent)
           \/ \E id \in StrategyIds, nonce \in Nonces, pnl \in Pnls : Reports(id, nonce, pnl)
           \/ \E id \in StrategyIds, terms \in Terms : Registers(id, terms)
           \/ \E id \in StrategyIds : Starts(id)
           \/ \E id \in StrategyIds : Stops(id)
           \/ LeavesBooks
  <1>1. CASE Tick
    BY <1>1 DEF Tick, LeavesBooks
  <1>2. ASSUME NEW from \in Sender, Message(from)
        PROVE  Goal
    <2>1. CASE Signal(from)
      <3>1. PICK id \in StrategyIds, nonce \in Nonces, amount \in Amounts, pnl \in Pnls,
                 sent \in SendResults : ExecuteSignal(from, id, nonce, amount, pnl, sent)
        BY <2>1 DEF Signal
      <3>2. Executes(id, nonce, amount, pnl, sent) /\ sent \in BOOLEAN
        BY <3>1, SendAssumption DEF Executes, ExecuteSignal
      <3> QED
        BY <3>2
    <2>2. CASE Report(from)
      <3>1. PICK id \in StrategyIds, nonce \in Nonces, pnl \in Pnls :
              ReportOutcome(from, id, nonce, pnl)
        BY <2>2 DEF Report
      <3>2. Reports(id, nonce, pnl)
        BY <3>1 DEF Reports, ReportOutcome
      <3> QED
        BY <3>2
    <2>3. ASSUME NEW id \in StrategyIds, NEW terms \in Terms, RegisterStrategy(from, id, terms)
          PROVE  Goal
      BY <2>3 DEF Registers
    <2>4. ASSUME NEW id \in StrategyIds, StartStrategy(from, id)
          PROVE  Goal
      BY <2>4 DEF Starts, StartStrategy
    <2>5. ASSUME NEW id \in StrategyIds, StopStrategy(from, id)
          PROVE  Goal
      BY <2>5 DEF Stops, StopStrategy
    <2>6. ASSUME NEW new \in Orchestrators, SetOrchestrator(from, new)
          PROVE  Goal
      BY <2>6 DEF SetOrchestrator, LeavesBooks
    <2>7. CASE EmergencyHalt(from)
      BY <2>7 DEF EmergencyHalt, LeavesBooks
    <2> HIDE DEF Goal
    <2> QED
      BY <1>2, <2>1, <2>2, <2>3, <2>4, <2>5, <2>6, <2>7 DEF Message, Manage
  <1>3. CASE UNCHANGED vars
    BY <1>3 DEF vars, LeavesBooks
  <1> QED
    BY <1>1, <1>2, <1>3 DEF Next

-----------------------------------------------------------------------------
(* Type correctness.                                                       *)

\* What an accepted signal makes of the strategy's record.
LEMMA AfterSignalFacts ==
    ASSUME NEW r \in StrategyRecord, NEW nonce \in Nonces, NEW pnl \in Pnls
    PROVE  /\ AfterSignal(r, nonce, pnl) \in StrategyRecord
           /\ AfterSignal(r, nonce, pnl).executionCount = r.executionCount + 1
           /\ AfterSignal(r, nonce, pnl).lastSignalNonce = nonce
           /\ AfterSignal(r, nonce, pnl).terms = r.terms
           /\ AfterSignal(r, nonce, pnl).cumulativeLoss = r.cumulativeLoss + Loss(pnl)
           /\ AfterSignal(r, nonce, pnl).status =
                IF Exhausted(r.terms, r.executionCount + 1) THEN "completed" ELSE r.status
  <1> DEFINE s     == IF Exhausted(r.terms, r.executionCount + 1) THEN "completed" ELSE r.status
             loss  == r.cumulativeLoss + Loss(pnl)
             count == r.executionCount + 1
  <1>1. s \in Status
    OBVIOUS
  <1>2. loss \in Nat
    BY DataAssumption DEF Loss
  <1>3. count \in Nat /\ nonce \in Nat
    BY KeyAssumption
  <1>4. AfterSignal(r, nonce, pnl) = [r EXCEPT !.lastSignalNonce = nonce, !.executionCount = count,
                                               !.cumulativeLoss = loss, !.status = s]
    BY DEF AfterSignal
  <1> HIDE DEF s, loss, count
  <1>5. /\ AfterSignal(r, nonce, pnl) \in StrategyRecord
        /\ AfterSignal(r, nonce, pnl).executionCount = count
        /\ AfterSignal(r, nonce, pnl).lastSignalNonce = nonce
        /\ AfterSignal(r, nonce, pnl).terms = r.terms
        /\ AfterSignal(r, nonce, pnl).cumulativeLoss = loss
        /\ AfterSignal(r, nonce, pnl).status = s
    BY <1>1, <1>2, <1>3, <1>4
  <1> QED
    BY <1>5 DEF s, count, loss

\* What a report makes of the strategy's record: at most it stops it.
LEMMA AfterReportFacts ==
    ASSUME NEW r \in StrategyRecord, NEW pnl \in Pnls
    PROVE  /\ AfterReport(r, pnl) \in StrategyRecord
           /\ AfterReport(r, pnl).executionCount = r.executionCount
           /\ AfterReport(r, pnl).lastSignalNonce = r.lastSignalNonce
           /\ AfterReport(r, pnl).terms = r.terms
           /\ AfterReport(r, pnl).cumulativeLoss >= r.cumulativeLoss
           /\ \/ AfterReport(r, pnl).status = r.status
              \/ r.status = "running" /\ AfterReport(r, pnl).status = "stopped"
  <1> DEFINE loss == LossAfter(r, pnl)
             stop == /\ pnl < 0 /\ r.status = "running"
                     /\ r.terms.maxLoss > 0 /\ loss >= r.terms.maxLoss
             s    == IF stop THEN "stopped" ELSE r.status
  <1>1. s \in Status /\ (s = r.status \/ (r.status = "running" /\ s = "stopped"))
    OBVIOUS
  <1>2. loss \in Nat /\ loss >= r.cumulativeLoss
    BY DataAssumption DEF LossAfter, Larger
  <1>3. AfterReport(r, pnl) = [r EXCEPT !.cumulativeLoss = loss, !.status = s]
    BY DEF AfterReport
  <1> HIDE DEF s, loss
  <1>4. /\ AfterReport(r, pnl) \in StrategyRecord
        /\ AfterReport(r, pnl).executionCount = r.executionCount
        /\ AfterReport(r, pnl).lastSignalNonce = r.lastSignalNonce
        /\ AfterReport(r, pnl).terms = r.terms
        /\ AfterReport(r, pnl).cumulativeLoss = loss
        /\ AfterReport(r, pnl).status = s
    BY <1>1, <1>2, <1>3
  <1> QED
    BY <1>1, <1>2, <1>4

\* Init gives every variable its type.
LEMMA InitTypeOK == Init => TypeOK
  <1> SUFFICES ASSUME Init PROVE TypeOK
    OBVIOUS
  <1>1. /\ DOMAIN strategies = {} /\ strategies \in [DOMAIN strategies -> StrategyRecord]
        /\ auditLog \in [DOMAIN auditLog -> AuditEntry]
        /\ nonceToSeqno \in [DOMAIN nonceToSeqno -> 1..SeqnoLimit - 1]
    BY DEF Init
  <1> QED
    BY <1>1 DEF Init, TypeOK

\* Every step keeps the types.
LEMMA NextTypeOK ==
    ASSUME TypeOK, [Next]_vars
    PROVE  TypeOK'
  <1>1. ASSUME NEW id \in StrategyIds, NEW nonce \in Nonces, NEW amount \in Amounts,
               NEW pnl \in Pnls, NEW sent \in BOOLEAN, Executes(id, nonce, amount, pnl, sent)
        PROVE  TypeOK'
    <2> DEFINE r == strategies[id]
               seqno == r.executionCount + 1
    <2>1. /\ id \in DOMAIN strategies /\ seqno < SeqnoLimit
          /\ strategies' = [strategies EXCEPT ![id] = AfterSignal(r, nonce, pnl)]
          /\ auditLog' = Put(auditLog, AuditKey(id, seqno),
                              [strategyId |-> id, seqno |-> seqno, signalNonce |-> nonce,
                               amount |-> amount, expectedPnl |-> pnl, actualPnl |-> 0,
                               executedAt |-> clock])
          /\ nonceToSeqno' = Put(nonceToSeqno, NonceKey(id, nonce), seqno)
          /\ UNCHANGED <<authorizedOrchestrator, isHalted, clock>>
      BY <1>1 DEF Executes, ExecuteSignal
    <2>2. r \in StrategyRecord /\ seqno \in 1..SeqnoLimit - 1
      BY <2>1, KeyAssumption DEF TypeOK
    <2>3. /\ DOMAIN strategies' = DOMAIN strategies
          /\ strategies' \in [DOMAIN strategies' -> StrategyRecord]
      BY <2>1, <2>2, AfterSignalFacts DEF TypeOK
    <2>4. auditLog' \in [DOMAIN auditLog' -> AuditEntry]
      BY <2>1, <2>2 DEF TypeOK, Put
    <2>5. nonceToSeqno' \in [DOMAIN nonceToSeqno' -> 1..SeqnoLimit - 1]
      BY <2>1, <2>2 DEF TypeOK, Put
    <2> QED
      BY <2>1, <2>3, <2>4, <2>5 DEF TypeOK
  <1>2. ASSUME NEW id \in StrategyIds, NEW nonce \in Nonces, NEW pnl \in Pnls, Reports(id, nonce, pnl)
        PROVE  TypeOK'
    <2>1. /\ DOMAIN strategies' = DOMAIN strategies
          /\ strategies' \in [DOMAIN strategies' -> StrategyRecord]
      BY <1>2, AfterReportFacts DEF TypeOK, Reports, ReportOutcome
    <2>2. auditLog' \in [DOMAIN auditLog' -> AuditEntry]
      BY <1>2, DataAssumption DEF TypeOK, Reports, ReportOutcome
    <2> QED
      BY <1>2, <2>1, <2>2 DEF TypeOK, Reports, ReportOutcome
  <1>3. ASSUME NEW id \in StrategyIds, NEW terms \in Terms, Registers(id, terms)
        PROVE  TypeOK'
    <2>1. /\ DOMAIN strategies' \subseteq StrategyIds
          /\ strategies' \in [DOMAIN strategies' -> StrategyRecord]
      BY <1>3, TermsAssumption DEF TypeOK, Registers, RegisterStrategy, Put
    <2> QED
      BY <1>3, <2>1 DEF TypeOK, Registers, RegisterStrategy
  <1>4. ASSUME NEW id \in StrategyIds, Starts(id)
        PROVE  TypeOK'
    <2>1. /\ DOMAIN strategies' = DOMAIN strategies
          /\ strategies' \in [DOMAIN strategies' -> StrategyRecord]
      BY <1>4 DEF TypeOK, Starts, StartStrategy
    <2> QED
      BY <1>4, <2>1 DEF TypeOK, Starts, StartStrategy
  <1>5. ASSUME NEW id \in StrategyIds, Stops(id)
        PROVE  TypeOK'
    <2>1. /\ DOMAIN strategies' = DOMAIN strategies
          /\ strategies' \in [DOMAIN strategies' -> StrategyRecord]
      BY <1>5 DEF TypeOK, Stops, StopStrategy
    <2> QED
      BY <1>5, <2>1 DEF TypeOK, Stops, StopStrategy
  <1>6. CASE LeavesBooks
    <2>1. UNCHANGED <<strategies, auditLog, nonceToSeqno>>
      BY <1>6 DEF LeavesBooks, books
    <2>2. isHalted' \in BOOLEAN
      BY <1>6 DEF TypeOK, LeavesBooks
    <2>3. clock' \in Nat /\ authorizedOrchestrator' \in Orchestrators
      BY <1>6 DEF TypeOK, LeavesBooks
    <2> QED
      BY <2>1, <2>2, <2>3 DEF TypeOK
  <1> QED
    BY <1>1, <1>2, <1>3, <1>4, <1>5, <1>6, StepCases

\* Every variable keeps its type.
THEOREM TypeCorrect == Spec => []TypeOK
  <1>1. TypeOK /\ [Next]_vars => TypeOK'
    BY NextTypeOK
  <1> QED
    BY <1>1, InitTypeOK, PTL DEF Spec

-----------------------------------------------------------------------------
(* The audit log and its index.                                            *)

BookInv == TypeOK /\ AuditComplete /\ IndexAgrees

\* What an accepted signal does to the books: its audit key and its nonce key
\* are new, so it adds one entry and overwrites none.
LEMMA ExecuteFacts ==
    ASSUME BookInv, NEW id \in StrategyIds, NEW nonce \in Nonces, NEW amount \in Amounts,
           NEW pnl \in Pnls, NEW sent \in BOOLEAN, Executes(id, nonce, amount, pnl, sent),
           NEW seqno, seqno = strategies[id].executionCount + 1
    PROVE  /\ id \in DOMAIN strategies /\ seqno \in 1..SeqnoLimit - 1
           /\ strategies[id].executionCount \in Nat
           /\ nonce > strategies[id].lastSignalNonce
           /\ AuditKey(id, seqno) \notin DOMAIN auditLog
           /\ NonceKey(id, nonce) \notin DOMAIN nonceToSeqno
           /\ strategies[id].status = "running"
           /\ strategies' = [strategies EXCEPT ![id] = AfterSignal(strategies[id], nonce, pnl)]
           /\ auditLog' = Put(auditLog, AuditKey(id, seqno),
                              [strategyId |-> id, seqno |-> seqno, signalNonce |-> nonce,
                               amount |-> amount, expectedPnl |-> pnl, actualPnl |-> 0,
                               executedAt |-> clock])
           /\ nonceToSeqno' = Put(nonceToSeqno, NonceKey(id, nonce), seqno)
  <1>1. /\ id \in DOMAIN strategies /\ seqno < SeqnoLimit
        /\ nonce > strategies[id].lastSignalNonce
        /\ strategies[id].status = "running"
        /\ strategies' = [strategies EXCEPT ![id] = AfterSignal(strategies[id], nonce, pnl)]
        /\ auditLog' = Put(auditLog, AuditKey(id, seqno),
                           [strategyId |-> id, seqno |-> seqno, signalNonce |-> nonce,
                            amount |-> amount, expectedPnl |-> pnl, actualPnl |-> 0,
                            executedAt |-> clock])
        /\ nonceToSeqno' = Put(nonceToSeqno, NonceKey(id, nonce), seqno)
    BY DEF Executes, ExecuteSignal, FreshNonce
  <1>2. /\ strategies[id] \in StrategyRecord /\ strategies[id].executionCount \in Nat
        /\ strategies[id].lastSignalNonce \in Nat /\ seqno \in 1..SeqnoLimit - 1
    BY <1>1, KeyAssumption DEF BookInv, TypeOK
  <1>3. ASSUME AuditKey(id, seqno) \in DOMAIN auditLog
        PROVE  FALSE
    <2> DEFINE e == auditLog[AuditKey(id, seqno)]
    <2>1. /\ e.strategyId \in DOMAIN strategies
          /\ e.seqno \in 1..strategies[e.strategyId].executionCount
          /\ AuditKey(id, seqno) = AuditKey(e.strategyId, e.seqno)
      BY <1>3 DEF BookInv, AuditComplete, EntriesAccountedFor
    <2>2. e.strategyId \in StrategyIds /\ strategies[e.strategyId].executionCount \in Nat
      BY <2>1 DEF BookInv, TypeOK
    <2>3. strategies[e.strategyId].executionCount < SeqnoLimit
      BY <2>1 DEF BookInv, AuditComplete, EntriesPresent
    <2>4. e.seqno \in 0..SeqnoLimit - 1 /\ seqno \in 0..SeqnoLimit - 1
      BY <1>2, <2>1, <2>2, <2>3, KeyAssumption
    <2> HIDE DEF e
    <2>5. id = e.strategyId /\ seqno = e.seqno
      BY <2>1, <2>2, <2>4, AuditKeysDiffer
    <2> QED
      BY <1>2, <2>1, <2>5
  <1>4. ASSUME NonceKey(id, nonce) \in DOMAIN nonceToSeqno
        PROVE  FALSE
    <2>1. /\ SeqnoOf(id, nonce) \in 1..strategies[id].executionCount
          /\ Entry(id, SeqnoOf(id, nonce)).signalNonce = nonce
      BY <1>4 DEF BookInv, IndexAgrees, IndexSound
    <2>2. Entry(id, SeqnoOf(id, nonce)).signalNonce <= strategies[id].lastSignalNonce
      BY <1>1, <2>1 DEF BookInv, AuditComplete, EntriesPresent
    <2>3. nonce \in Nat
      BY KeyAssumption
    <2> QED
      BY <1>1, <1>2, <2>1, <2>2, <2>3
  <1> QED
    BY <1>1, <1>2, <1>3, <1>4

\* The steps that log nothing: every entry keeps its identity, the index and
\* the counters stay, and a strategy that is new has executed nothing.
LogsNothing ==
    /\ DOMAIN auditLog' = DOMAIN auditLog
    /\ \A k \in DOMAIN auditLog :
         /\ auditLog'[k].strategyId = auditLog[k].strategyId
         /\ auditLog'[k].seqno = auditLog[k].seqno
         /\ auditLog'[k].signalNonce = auditLog[k].signalNonce
    /\ nonceToSeqno' = nonceToSeqno
    /\ DOMAIN strategies \subseteq DOMAIN strategies'
    /\ \A id \in DOMAIN strategies :
         /\ strategies'[id].executionCount = strategies[id].executionCount
         /\ strategies'[id].lastSignalNonce = strategies[id].lastSignalNonce
    /\ \A id \in DOMAIN strategies' \ DOMAIN strategies : strategies'[id].executionCount = 0

\* A signal is either accepted, or the step logs nothing.
LEMMA LoggingCases ==
    ASSUME TypeOK, [Next]_vars
    PROVE  \/ \E id \in StrategyIds, nonce \in Nonces, amount \in Amounts, pnl \in Pnls,
                 sent \in BOOLEAN : Executes(id, nonce, amount, pnl, sent)
           \/ LogsNothing
  <1>1. ASSUME NEW id \in StrategyIds, NEW nonce \in Nonces, NEW pnl \in Pnls, Reports(id, nonce, pnl)
        PROVE  LogsNothing
    <2>1. /\ DOMAIN strategies' = DOMAIN strategies
          /\ \A o \in DOMAIN strategies :
               /\ strategies'[o].executionCount = strategies[o].executionCount
               /\ strategies'[o].lastSignalNonce = strategies[o].lastSignalNonce
      BY <1>1, AfterReportFacts DEF TypeOK, Reports, ReportOutcome
    <2>2. DOMAIN auditLog' = DOMAIN auditLog /\ nonceToSeqno' = nonceToSeqno
      BY <1>1 DEF Reports, ReportOutcome
    <2>3. \A k \in DOMAIN auditLog :
            /\ auditLog'[k].strategyId = auditLog[k].strategyId
            /\ auditLog'[k].seqno = auditLog[k].seqno
            /\ auditLog'[k].signalNonce = auditLog[k].signalNonce
      BY <1>1 DEF TypeOK, Reports, ReportOutcome
    <2> QED
      BY <2>1, <2>2, <2>3 DEF LogsNothing
  <1>2. ASSUME NEW id \in StrategyIds, NEW terms \in Terms, Registers(id, terms)
        PROVE  LogsNothing
    BY <1>2 DEF LogsNothing, Registers, RegisterStrategy, Put
  <1>3. ASSUME NEW id \in StrategyIds, Starts(id)
        PROVE  LogsNothing
    BY <1>3 DEF LogsNothing, TypeOK, Starts, StartStrategy
  <1>4. ASSUME NEW id \in StrategyIds, Stops(id)
        PROVE  LogsNothing
    BY <1>4 DEF LogsNothing, TypeOK, Stops, StopStrategy
  <1>5. CASE LeavesBooks
    BY <1>5 DEF LogsNothing, LeavesBooks, books
  <1> QED
    BY <1>1, <1>2, <1>3, <1>4, <1>5, StepCases

\* Init satisfies the invariant: the books are empty.
LEMMA InitBookInv == Init => BookInv
  <1> SUFFICES ASSUME Init PROVE BookInv
    OBVIOUS
  <1>1. DOMAIN strategies = {} /\ DOMAIN auditLog = {} /\ DOMAIN nonceToSeqno = {}
    BY DEF Init
  <1>2. EntriesPresent /\ NoncesIncrease /\ EntriesAccountedFor
    BY <1>1 DEF EntriesPresent, NoncesIncrease, EntriesAccountedFor
  <1>3. EntriesIndexed /\ IndexSound
    BY <1>1 DEF EntriesIndexed, IndexSound
  <1> QED
    BY <1>2, <1>3, InitTypeOK DEF BookInv, AuditComplete, IndexAgrees

\* Steps that log nothing keep the invariant.
LEMMA LogsNothingKeepsBookInv ==
    ASSUME BookInv, TypeOK', LogsNothing
    PROVE  BookInv'
  <1>1. \A id \in DOMAIN strategies : \A n \in 1..strategies[id].executionCount :
           /\ AuditKey(id, n) \in DOMAIN auditLog
           /\ (Entry(id, n).strategyId)' = Entry(id, n).strategyId
           /\ (Entry(id, n).seqno)' = Entry(id, n).seqno
           /\ (Entry(id, n).signalNonce)' = Entry(id, n).signalNonce
    BY DEF BookInv, AuditComplete, EntriesPresent, LogsNothing, Entry
  <1>2. EntriesPresent'
    BY <1>1, KeyAssumption DEF BookInv, AuditComplete, EntriesPresent, LogsNothing
  <1>3. NoncesIncrease'
    BY <1>1 DEF BookInv, AuditComplete, NoncesIncrease, LogsNothing
  <1>4. EntriesAccountedFor'
    BY DEF BookInv, AuditComplete, EntriesAccountedFor, LogsNothing
  <1>5. EntriesIndexed'
    BY DEF BookInv, IndexAgrees, EntriesIndexed, LogsNothing, SeqnoOf
  <1>6. IndexSound'
    <2> SUFFICES ASSUME NEW id \in StrategyIds, NEW nonce \in Nonces,
                        NonceKey(id, nonce) \in DOMAIN nonceToSeqno'
                 PROVE  /\ id \in DOMAIN strategies'
                        /\ SeqnoOf(id, nonce)' \in 1..strategies'[id].executionCount
                        /\ (Entry(id, SeqnoOf(id, nonce)).signalNonce)' = nonce
      BY DEF IndexSound
    <2>1. SeqnoOf(id, nonce)' = SeqnoOf(id, nonce)
      BY DEF LogsNothing, SeqnoOf
    <2>2. /\ id \in DOMAIN strategies
          /\ SeqnoOf(id, nonce) \in 1..strategies[id].executionCount
          /\ Entry(id, SeqnoOf(id, nonce)).signalNonce = nonce
      BY DEF BookInv, IndexAgrees, IndexSound, LogsNothing
    <2>3. AuditKey(id, SeqnoOf(id, nonce)) \in DOMAIN auditLog
      BY <1>1, <2>2
    <2>4. id \in DOMAIN strategies' /\ strategies'[id].executionCount = strategies[id].executionCount
      BY <2>2 DEF LogsNothing
    <2>5. auditLog'[AuditKey(id, SeqnoOf(id, nonce))].signalNonce = nonce
      BY <2>2, <2>3 DEF LogsNothing, Entry
    <2> QED
      BY <2>1, <2>2, <2>4, <2>5 DEF Entry
  <1> QED
    BY <1>2, <1>3, <1>4, <1>5, <1>6 DEF BookInv, AuditComplete, IndexAgrees

\* An accepted signal keeps the invariant.
LEMMA ExecuteKeepsBookInv ==
    ASSUME BookInv, TypeOK', NEW id \in StrategyIds, NEW nonce \in Nonces, NEW amount \in Amounts,
           NEW pnl \in Pnls, NEW sent \in BOOLEAN, Executes(id, nonce, amount, pnl, sent)
    PROVE  BookInv'
  <1>0. PICK seqno : seqno = strategies[id].executionCount + 1
    OBVIOUS
  <1> DEFINE key == AuditKey(id, seqno)
  <1>1. /\ id \in DOMAIN strategies /\ seqno \in 1..SeqnoLimit - 1
        /\ strategies[id].executionCount \in Nat
        /\ nonce > strategies[id].lastSignalNonce
        /\ key \notin DOMAIN auditLog
        /\ NonceKey(id, nonce) \notin DOMAIN nonceToSeqno
        /\ strategies' = [strategies EXCEPT ![id] = AfterSignal(strategies[id], nonce, pnl)]
        /\ auditLog' = Put(auditLog, key,
                           [strategyId |-> id, seqno |-> seqno, signalNonce |-> nonce,
                            amount |-> amount, expectedPnl |-> pnl, actualPnl |-> 0,
                            executedAt |-> clock])
        /\ nonceToSeqno' = Put(nonceToSeqno, NonceKey(id, nonce), seqno)
    BY <1>0, ExecuteFacts
  <1>2. /\ DOMAIN strategies' = DOMAIN strategies
        /\ \A o \in DOMAIN strategies : o # id => strategies'[o] = strategies[o]
        /\ strategies'[id].executionCount = seqno
        /\ strategies'[id].lastSignalNonce = nonce
    BY <1>0, <1>1, AfterSignalFacts DEF BookInv, TypeOK
  <1>3. /\ DOMAIN auditLog' = DOMAIN auditLog \cup {key}
        /\ \A k \in DOMAIN auditLog : auditLog'[k] = auditLog[k]
        /\ auditLog'[key].strategyId = id
        /\ auditLog'[key].seqno = seqno
        /\ auditLog'[key].signalNonce = nonce
    BY <1>1 DEF Put
  <1>4. /\ DOMAIN nonceToSeqno' = DOMAIN nonceToSeqno \cup {NonceKey(id, nonce)}
        /\ \A k \in DOMAIN nonceToSeqno : nonceToSeqno'[k] = nonceToSeqno[k]
        /\ nonceToSeqno'[NonceKey(id, nonce)] = seqno
    BY <1>1 DEF Put
  <1>5. /\ \A o \in DOMAIN strategies : /\ strategies[o].executionCount \in Nat
                                        /\ strategies[o].lastSignalNonce \in Nat
        /\ nonce \in Nat
        /\ \A k \in DOMAIN auditLog : auditLog[k].signalNonce \in Nat
    BY KeyAssumption DEF BookInv, TypeOK
  <1> HIDE DEF key
  <1>6. \A o \in DOMAIN strategies : \A n \in 1..strategies[o].executionCount :
           AuditKey(o, n) \in DOMAIN auditLog /\ Entry(o, n)' = Entry(o, n)
    BY <1>3 DEF BookInv, AuditComplete, EntriesPresent, Entry
  <1>7. \A n : n \in 1..seqno => n \in 1..strategies[id].executionCount \/ n = seqno
    BY <1>0, <1>1
  <1>8. EntriesPresent'
    <2> SUFFICES ASSUME NEW o \in DOMAIN strategies
                 PROVE  /\ strategies'[o].executionCount < SeqnoLimit
                        /\ \A n \in 1..strategies'[o].executionCount :
                             /\ AuditKey(o, n) \in DOMAIN auditLog'
                             /\ Entry(o, n)'.strategyId = o
                             /\ Entry(o, n)'.seqno = n
                             /\ Entry(o, n)'.signalNonce <= strategies'[o].lastSignalNonce
      BY <1>2 DEF EntriesPresent
    <2>0. \A n \in 1..strategies[o].executionCount :
             /\ AuditKey(o, n) \in DOMAIN auditLog'
             /\ Entry(o, n)'.strategyId = o
             /\ Entry(o, n)'.seqno = n
             /\ Entry(o, n)'.signalNonce <= strategies[o].lastSignalNonce
      BY <1>3, <1>6 DEF BookInv, AuditComplete, EntriesPresent
    <2>1. CASE o # id
      BY <1>2, <2>0, <2>1 DEF BookInv, AuditComplete, EntriesPresent
    <2>2. CASE o = id
      <3>1. strategies'[o].executionCount < SeqnoLimit
        BY <1>1, <1>2, <2>2, KeyAssumption
      <3>2. ASSUME NEW n \in 1..strategies[id].executionCount
            PROVE  Entry(o, n)'.signalNonce <= nonce
        <4>1. Entry(o, n)'.signalNonce \in Nat
          BY <1>5, <1>6, <2>2 DEF Entry
        <4> QED
          BY <1>1, <1>5, <2>0, <2>2, <4>1
      <3>3. /\ AuditKey(o, seqno) \in DOMAIN auditLog'
            /\ Entry(o, seqno)'.strategyId = o
            /\ Entry(o, seqno)'.seqno = seqno
            /\ Entry(o, seqno)'.signalNonce <= nonce
        BY <1>3, <1>5, <2>2 DEF key, Entry
      <3> QED
        BY <1>2, <1>7, <2>0, <2>2, <3>1, <3>2, <3>3
    <2> QED
      BY <2>1, <2>2
  <1>9. NoncesIncrease'
    <2> SUFFICES ASSUME NEW o \in DOMAIN strategies,
                        NEW m \in 1..strategies'[o].executionCount,
                        NEW n \in 1..strategies'[o].executionCount, m < n
                 PROVE  Entry(o, m)'.signalNonce < Entry(o, n)'.signalNonce
      BY <1>2 DEF NoncesIncrease
    <2>1. CASE m \in 1..strategies[o].executionCount /\ n \in 1..strategies[o].executionCount
      BY <1>6, <2>1 DEF BookInv, AuditComplete, NoncesIncrease
    <2>2. CASE o = id /\ m \in 1..strategies[o].executionCount /\ n = seqno
      <3>1. Entry(o, m)'.signalNonce <= strategies[o].lastSignalNonce
        BY <1>6, <2>2 DEF BookInv, AuditComplete, EntriesPresent
      <3>2. Entry(o, n)'.signalNonce = nonce
        BY <1>3, <2>2 DEF Entry, key
      <3>3. Entry(o, m)'.signalNonce \in Nat
        BY <1>5, <1>6, <2>2 DEF Entry
      <3> QED
        BY <1>1, <1>5, <2>2, <3>1, <3>2, <3>3
    <2>3. CASE o # id
      BY <1>2, <2>1, <2>3
    <2> QED
      BY <1>1, <1>2, <1>7, <2>1, <2>2, <2>3
  <1>10. EntriesAccountedFor'
    <2> SUFFICES ASSUME NEW k \in DOMAIN auditLog'
                 PROVE  /\ auditLog'[k].strategyId \in DOMAIN strategies
                        /\ auditLog'[k].seqno \in 1..strategies'[auditLog'[k].strategyId].executionCount
                        /\ k = AuditKey(auditLog'[k].strategyId, auditLog'[k].seqno)
      BY <1>2 DEF EntriesAccountedFor
    <2>1. CASE k = key
      BY <1>1, <1>2, <1>3, <2>1 DEF key
    <2>2. CASE k # key
      <3>1. k \in DOMAIN auditLog /\ auditLog'[k] = auditLog[k]
        BY <1>3, <2>2
      <3>2. /\ auditLog[k].strategyId \in DOMAIN strategies
            /\ auditLog[k].seqno \in 1..strategies[auditLog[k].strategyId].executionCount
            /\ k = AuditKey(auditLog[k].strategyId, auditLog[k].seqno)
        BY <3>1 DEF BookInv, AuditComplete, EntriesAccountedFor
      <3>3. strategies[id].executionCount <= strategies'[id].executionCount
        BY <1>0, <1>1, <1>2
      <3> QED
        BY <1>1, <1>2, <3>1, <3>2, <3>3
    <2> QED
      BY <2>1, <2>2
  <1>11. EntriesIndexed'
    <2> SUFFICES ASSUME NEW k \in DOMAIN auditLog'
                 PROVE  /\ NonceKey(auditLog'[k].strategyId, auditLog'[k].signalNonce) \in DOMAIN nonceToSeqno'
                        /\ nonceToSeqno'[NonceKey(auditLog'[k].strategyId, auditLog'[k].signalNonce)]
                             = auditLog'[k].seqno
      BY DEF EntriesIndexed, SeqnoOf
    <2>1. CASE k = key
      BY <1>3, <1>4, <2>1
    <2>2. CASE k # key
      BY <1>3, <1>4, <2>2 DEF BookInv, IndexAgrees, EntriesIndexed, SeqnoOf
    <2> QED
      BY <2>1, <2>2
  <1>12. IndexSound'
    <2> SUFFICES ASSUME NEW o \in StrategyIds, NEW c \in Nonces,
                        NonceKey(o, c) \in DOMAIN nonceToSeqno'
                 PROVE  /\ o \in DOMAIN strategies
                        /\ SeqnoOf(o, c)' \in 1..strategies'[o].executionCount
                        /\ Entry(o, SeqnoOf(o, c))'.signalNonce = c
      BY <1>2 DEF IndexSound, Entry, SeqnoOf
    <2>1. CASE NonceKey(o, c) = NonceKey(id, nonce)
      <3>1. o = id /\ c = nonce
        BY <2>1, NonceKeysDiffer
      <3>2. SeqnoOf(o, c)' = seqno
        BY <1>4, <2>1 DEF SeqnoOf
      <3>3. auditLog'[AuditKey(o, SeqnoOf(o, c)')].signalNonce = nonce
        BY <1>3, <3>1, <3>2 DEF key
      <3>4. SeqnoOf(o, c)' \in 1..strategies'[o].executionCount
        BY <1>1, <1>2, <3>1, <3>2
      <3> QED
        BY <1>1, <3>1, <3>3, <3>4 DEF Entry
    <2>2. CASE NonceKey(o, c) # NonceKey(id, nonce)
      <3>1. NonceKey(o, c) \in DOMAIN nonceToSeqno /\ SeqnoOf(o, c)' = SeqnoOf(o, c)
        BY <1>4, <2>2 DEF SeqnoOf
      <3>2. /\ o \in DOMAIN strategies
            /\ SeqnoOf(o, c) \in 1..strategies[o].executionCount
            /\ Entry(o, SeqnoOf(o, c)).signalNonce = c
        BY <3>1 DEF BookInv, IndexAgrees, IndexSound
      <3>3. auditLog'[AuditKey(o, SeqnoOf(o, c))] = auditLog[AuditKey(o, SeqnoOf(o, c))]
        BY <1>3, <1>6, <3>2
      <3>4. SeqnoOf(o, c) \in 1..strategies'[o].executionCount
        BY <1>0, <1>1, <1>2, <3>2
      <3> QED
        BY <3>1, <3>2, <3>3, <3>4 DEF Entry
    <2> QED
      BY <2>1, <2>2
  <1> QED
    BY <1>8, <1>9, <1>10, <1>11, <1>12 DEF BookInv, AuditComplete, IndexAgrees

\* Every step keeps the invariant.
LEMMA NextBookInv ==
    ASSUME BookInv, [Next]_vars
    PROVE  BookInv'
  <1>1. TypeOK /\ TypeOK'
    BY NextTypeOK DEF BookInv
  <1> QED
    BY <1>1, LoggingCases, LogsNothingKeepsBookInv, ExecuteKeepsBookInv

\* The audit log has no gap and no overwritten entry, and the nonce index
\* points every report at the entry of its own signal (auditKey, nonceKey and
\* the nonce check of ExecuteSignal).
THEOREM BooksAgree == Spec => [](AuditComplete /\ IndexAgrees)
  <1>1. BookInv /\ [Next]_vars => BookInv'
    BY NextBookInv
  <1>2. BookInv => AuditComplete /\ IndexAgrees
    BY DEF BookInv
  <1> QED
    BY <1>1, <1>2, InitBookInv, PTL DEF Spec

-----------------------------------------------------------------------------
(* Outcomes and the append-only log.                                       *)

\* What ReportOutcome changes in the audit log: at most the outcome of the
\* entry of the signal it names.
LEMMA ReportFacts ==
    ASSUME BookInv, NEW id \in StrategyIds, NEW nonce \in Nonces, NEW pnl \in Pnls,
           Reports(id, nonce, pnl), NEW k \in DOMAIN auditLog
    PROVE  \/ auditLog'[k] = auditLog[k]
           \/ /\ auditLog[k].strategyId = id /\ auditLog[k].signalNonce = nonce
              /\ auditLog'[k] = [auditLog[k] EXCEPT !.actualPnl = pnl]
  <1> DEFINE key == AuditKey(id, SeqnoOf(id, nonce))
  <1>1. CASE auditLog' = auditLog
    BY <1>1
  <1>2. CASE /\ NonceKey(id, nonce) \in DOMAIN nonceToSeqno
             /\ auditLog' = [auditLog EXCEPT ![key].actualPnl = pnl]
    <2>1. auditLog' = [auditLog EXCEPT ![key] = [auditLog[key] EXCEPT !.actualPnl = pnl]]
      BY <1>2
    <2>2. CASE k # key
      BY <2>1, <2>2
    <2>3. CASE k = key
      <3>1. /\ id \in DOMAIN strategies
            /\ SeqnoOf(id, nonce) \in 1..strategies[id].executionCount
            /\ Entry(id, SeqnoOf(id, nonce)).signalNonce = nonce
        BY <1>2 DEF BookInv, IndexAgrees, IndexSound
      <3>2. Entry(id, SeqnoOf(id, nonce)).strategyId = id
        BY <3>1 DEF BookInv, AuditComplete, EntriesPresent
      <3> QED
        BY <2>1, <2>3, <3>1, <3>2 DEF Entry
    <2> QED
      BY <2>2, <2>3
  <1> QED
    BY <1>1, <1>2 DEF Reports, ReportOutcome

\* Where the audit log comes from in one step.
LEMMA LogCases ==
    ASSUME BookInv, [Next]_vars
    PROVE  \/ \E id \in StrategyIds, nonce \in Nonces, amount \in Amounts, pnl \in Pnls,
                 sent \in BOOLEAN : Executes(id, nonce, amount, pnl, sent)
           \/ \E id \in StrategyIds, nonce \in Nonces, pnl \in Pnls : Reports(id, nonce, pnl)
           \/ auditLog' = auditLog /\ reported' = reported
  <1>1. ASSUME NEW id \in StrategyIds, NEW terms \in Terms, Registers(id, terms)
        PROVE  auditLog' = auditLog /\ reported' = reported
    BY <1>1 DEF Registers, RegisterStrategy
  <1>2. ASSUME NEW id \in StrategyIds, Starts(id) \/ Stops(id)
        PROVE  auditLog' = auditLog /\ reported' = reported
    BY <1>2 DEF Starts, StartStrategy, Stops, StopStrategy
  <1>3. CASE LeavesBooks
    BY <1>3 DEF LeavesBooks, books
  <1> QED
    BY <1>1, <1>2, <1>3, StepCases

\* Every outcome in the log was reported for that signal (ReportOutcome).
THEOREM OutcomesBelong == Spec => []OutcomesBelongToTheirSignal
  <1> DEFINE Inv == BookInv /\ OutcomesBelongToTheirSignal
  <1>1. Init => Inv
    <2>1. Init => OutcomesBelongToTheirSignal
      BY DEF Init, OutcomesBelongToTheirSignal
    <2> QED
      BY <2>1, InitBookInv
  <1>2. ASSUME Inv, [Next]_vars
        PROVE  Inv'
    <2>1. BookInv'
      BY <1>2, NextBookInv
    <2>2. ASSUME NEW id \in StrategyIds, NEW nonce \in Nonces, NEW amount \in Amounts,
                 NEW pnl \in Pnls, NEW sent \in BOOLEAN, Executes(id, nonce, amount, pnl, sent)
          PROVE  OutcomesBelongToTheirSignal'
      <3>0. PICK seqno : seqno = strategies[id].executionCount + 1
        OBVIOUS
      <3>1. auditLog' = Put(auditLog, AuditKey(id, seqno),
                              [strategyId |-> id, seqno |-> seqno, signalNonce |-> nonce,
                               amount |-> amount, expectedPnl |-> pnl, actualPnl |-> 0,
                               executedAt |-> clock])
        BY <1>2, <2>2, <3>0, ExecuteFacts
      <3>2. reported' = reported
        BY <2>2 DEF Executes, ExecuteSignal
      <3>3. /\ DOMAIN auditLog' = DOMAIN auditLog \cup {AuditKey(id, seqno)}
            /\ \A k \in DOMAIN auditLog' :
                 auditLog'[k].actualPnl = 0 \/ (k \in DOMAIN auditLog /\ auditLog'[k] = auditLog[k])
        BY <3>1 DEF Put
      <3> QED
        BY <1>2, <3>2, <3>3 DEF OutcomesBelongToTheirSignal
    <2>3. ASSUME NEW id \in StrategyIds, NEW nonce \in Nonces, NEW pnl \in Pnls,
                 Reports(id, nonce, pnl)
          PROVE  OutcomesBelongToTheirSignal'
      <3>1. /\ DOMAIN auditLog' = DOMAIN auditLog
            /\ reported' = reported \cup {[strategyId |-> id, signalNonce |-> nonce, pnl |-> pnl]}
        BY <2>3 DEF Reports, ReportOutcome
      <3>2. SUFFICES ASSUME NEW k \in DOMAIN auditLog, auditLog'[k].actualPnl # 0
                     PROVE  [strategyId |-> auditLog'[k].strategyId,
                             signalNonce |-> auditLog'[k].signalNonce,
                             pnl |-> auditLog'[k].actualPnl] \in reported'
        BY <3>1 DEF OutcomesBelongToTheirSignal
      <3>3. CASE auditLog'[k] = auditLog[k]
        BY <1>2, <3>1, <3>2, <3>3 DEF OutcomesBelongToTheirSignal
      <3>4. CASE /\ auditLog[k].strategyId = id /\ auditLog[k].signalNonce = nonce
                 /\ auditLog'[k] = [auditLog[k] EXCEPT !.actualPnl = pnl]
        <4>1. auditLog[k] \in AuditEntry
          BY <1>2 DEF BookInv, TypeOK
        <4>2. /\ auditLog'[k].strategyId = id /\ auditLog'[k].signalNonce = nonce
              /\ auditLog'[k].actualPnl = pnl
          BY <3>4, <4>1
        <4> QED
          BY <3>1, <4>2
      <3> QED
        BY <1>2, <2>3, <3>3, <3>4, ReportFacts
    <2>4. ASSUME auditLog' = auditLog, reported' = reported
          PROVE  OutcomesBelongToTheirSignal'
      <3>1. OutcomesBelongToTheirSignal
        BY <1>2
      <3> QED
        BY <2>4, <3>1 DEF OutcomesBelongToTheirSignal
    <2> QED
      BY <1>2, <2>1, <2>2, <2>3, <2>4, LogCases
  <1> QED
    BY <1>1, <1>2, PTL DEF Spec

\* One step keeps every entry of the log, apart from its outcome.
LEMMA EntryKept ==
    ASSUME BookInv, [Next]_vars, NEW k \in DOMAIN auditLog
    PROVE  /\ k \in DOMAIN auditLog'
           /\ auditLog'[k] = [auditLog[k] EXCEPT !.actualPnl = auditLog'[k].actualPnl]
  <1> DEFINE Kept == /\ k \in DOMAIN auditLog'
                     /\ auditLog'[k] = [auditLog[k] EXCEPT !.actualPnl = auditLog'[k].actualPnl]
  <1>1. auditLog[k] \in AuditEntry
    BY DEF BookInv, TypeOK
  <1>2. auditLog[k] = [auditLog[k] EXCEPT !.actualPnl = auditLog[k].actualPnl]
    BY <1>1
  <1>3. ASSUME NEW id \in StrategyIds, NEW nonce \in Nonces, NEW amount \in Amounts,
               NEW pnl \in Pnls, NEW sent \in BOOLEAN, Executes(id, nonce, amount, pnl, sent)
        PROVE  Kept
    <2>0. PICK seqno : seqno = strategies[id].executionCount + 1
      OBVIOUS
    <2>1. /\ AuditKey(id, seqno) \notin DOMAIN auditLog
          /\ auditLog' = Put(auditLog, AuditKey(id, seqno),
                            [strategyId |-> id, seqno |-> seqno, signalNonce |-> nonce,
                             amount |-> amount, expectedPnl |-> pnl, actualPnl |-> 0,
                             executedAt |-> clock])
      BY <1>3, <2>0, ExecuteFacts
    <2>2. k \in DOMAIN auditLog' /\ auditLog'[k] = auditLog[k]
      BY <2>1 DEF Put
    <2> QED
      BY <1>2, <2>2
  <1>4. ASSUME NEW id \in StrategyIds, NEW nonce \in Nonces, NEW pnl \in Pnls,
               Reports(id, nonce, pnl)
        PROVE  Kept
    <2>1. DOMAIN auditLog' = DOMAIN auditLog
      BY <1>4 DEF Reports, ReportOutcome
    <2>2. auditLog'[k] = auditLog[k] \/ auditLog'[k] = [auditLog[k] EXCEPT !.actualPnl = pnl]
      BY <1>4, ReportFacts
    <2> QED
      BY <1>1, <1>2, <2>1, <2>2
  <1>5. CASE auditLog' = auditLog
    BY <1>2, <1>5
  <1> QED
    BY <1>3, <1>4, <1>5, LogCases

\* No execution that was logged is ever removed, renumbered or altered, apart
\* from its outcome (ExecuteSignal, ReportOutcome).
THEOREM AuditAppendOnlyHolds == Spec => AuditAppendOnly
  <1>1. BookInv /\ [Next]_vars => BookInv'
    BY NextBookInv
  <1>2. BookInv /\ [Next]_vars =>
           [\A k \in DOMAIN auditLog :
              /\ k \in DOMAIN auditLog'
              /\ auditLog'[k] = [auditLog[k] EXCEPT !.actualPnl = auditLog'[k].actualPnl]]_vars
    BY EntryKept
  <1> QED
    BY <1>1, <1>2, InitBookInv, PTL DEF Spec, AuditAppendOnly

\* One step never lowers the last nonce of a registered strategy.
LEMMA NonceGrows ==
    ASSUME BookInv, [Next]_vars, NEW id \in DOMAIN strategies
    PROVE  /\ id \in DOMAIN strategies'
           /\ strategies[id].lastSignalNonce <= strategies'[id].lastSignalNonce
  <1>1. TypeOK /\ strategies[id] \in StrategyRecord
    BY DEF BookInv, TypeOK
  <1>2. ASSUME NEW o \in StrategyIds, NEW nonce \in Nonces, NEW amount \in Amounts,
               NEW pnl \in Pnls, NEW sent \in BOOLEAN, Executes(o, nonce, amount, pnl, sent)
        PROVE  /\ id \in DOMAIN strategies'
               /\ strategies[id].lastSignalNonce <= strategies'[id].lastSignalNonce
    <2>1. /\ strategies' = [strategies EXCEPT ![o] = AfterSignal(strategies[o], nonce, pnl)]
          /\ nonce > strategies[o].lastSignalNonce /\ nonce \in Nat
      BY <1>2, KeyAssumption DEF Executes, ExecuteSignal, FreshNonce
    <2> QED
      BY <1>1, <2>1, AfterSignalFacts
  <1>3. CASE LogsNothing
    BY <1>1, <1>3 DEF LogsNothing
  <1> QED
    BY <1>1, <1>2, <1>3, LoggingCases

\* What an accepted signal leaves in the books: the last nonce is its own and
\* larger than the one before, and an entry of this instant carries it.
LEMMA SignalBooked ==
    ASSUME BookInv, NEW id \in StrategyIds, NEW nonce \in Nonces, NEW amount \in Amounts,
           NEW pnl \in Pnls, NEW sent \in BOOLEAN, Executes(id, nonce, amount, pnl, sent)
    PROVE  /\ id \in DOMAIN strategies /\ id \in DOMAIN strategies'
           /\ strategies[id].lastSignalNonce < nonce
           /\ strategies'[id].lastSignalNonce = nonce
           /\ \E k \in DOMAIN auditLog' : /\ auditLog'[k].strategyId = id
                                         /\ auditLog'[k].signalNonce = nonce
                                         /\ auditLog'[k].executedAt = clock
  <1>0. PICK seqno : seqno = strategies[id].executionCount + 1
    OBVIOUS
  <1>1. /\ id \in DOMAIN strategies /\ nonce > strategies[id].lastSignalNonce
        /\ strategies' = [strategies EXCEPT ![id] = AfterSignal(strategies[id], nonce, pnl)]
        /\ auditLog' = Put(auditLog, AuditKey(id, seqno),
                          [strategyId |-> id, seqno |-> seqno, signalNonce |-> nonce,
                           amount |-> amount, expectedPnl |-> pnl, actualPnl |-> 0,
                           executedAt |-> clock])
    BY <1>0, ExecuteFacts
  <1>2. strategies[id] \in StrategyRecord /\ nonce \in Nat
    BY <1>1, KeyAssumption DEF BookInv, TypeOK
  <1>3. AuditKey(id, seqno) \in DOMAIN auditLog'
    BY <1>1 DEF Put
  <1>4. /\ auditLog'[AuditKey(id, seqno)].strategyId = id
        /\ auditLog'[AuditKey(id, seqno)].signalNonce = nonce
        /\ auditLog'[AuditKey(id, seqno)].executedAt = clock
    BY <1>1 DEF Put
  <1>5. id \in DOMAIN strategies' /\ strategies'[id].lastSignalNonce = nonce
    BY <1>1, <1>2, AfterSignalFacts
  <1> QED
    BY <1>1, <1>2, <1>3, <1>4, <1>5

-----------------------------------------------------------------------------
(* Projected losses.                                                       *)

\* A step accepts a signal of the strategy, or it leaves the executions alone
\* and never lowers the loss that later signals are checked against.
LEMMA LossStep ==
    ASSUME TypeOK, [Next]_vars, NEW id \in DOMAIN strategies
    PROVE  /\ id \in DOMAIN strategies'
           /\ \/ \E nonce \in Nonces, amount \in Amounts, pnl \in Pnls, sent \in BOOLEAN :
                   Executes(id, nonce, amount, pnl, sent)
              \/ /\ strategies'[id].executionCount = strategies[id].executionCount
                 /\ strategies'[id].terms = strategies[id].terms
                 /\ strategies'[id].cumulativeLoss >= strategies[id].cumulativeLoss
  <1> DEFINE Kept == /\ id \in DOMAIN strategies'
                     /\ strategies'[id].executionCount = strategies[id].executionCount
                     /\ strategies'[id].terms = strategies[id].terms
                     /\ strategies'[id].cumulativeLoss >= strategies[id].cumulativeLoss
  <1>0. strategies[id] \in StrategyRecord
    BY DEF TypeOK
  <1>1. ASSUME NEW o \in StrategyIds, NEW nonce \in Nonces, NEW amount \in Amounts,
               NEW pnl \in Pnls, NEW sent \in BOOLEAN, Executes(o, nonce, amount, pnl, sent)
        PROVE  /\ id \in DOMAIN strategies'
               /\ o = id \/ Kept
    BY <1>0, <1>1 DEF Executes, ExecuteSignal
  <1>2. ASSUME NEW o \in StrategyIds, NEW nonce \in Nonces, NEW pnl \in Pnls, Reports(o, nonce, pnl)
        PROVE  Kept
    <2>1. strategies' = [strategies EXCEPT ![o] = AfterReport(strategies[o], pnl)]
      BY <1>2 DEF Reports, ReportOutcome
    <2>2. CASE o # id
      BY <1>0, <2>1, <2>2
    <2>3. CASE o = id
      BY <1>0, <2>1, <2>3, AfterReportFacts
    <2> QED
      BY <2>2, <2>3
  <1>3. ASSUME NEW o \in StrategyIds, NEW terms \in Terms, Registers(o, terms)
        PROVE  Kept
    BY <1>0, <1>3 DEF Registers, RegisterStrategy, Put
  <1>4. ASSUME NEW o \in StrategyIds, Starts(o)
        PROVE  Kept
    BY <1>0, <1>4 DEF Starts, StartStrategy
  <1>5. ASSUME NEW o \in StrategyIds, Stops(o)
        PROVE  Kept
    BY <1>0, <1>5 DEF Stops, StopStrategy
  <1>6. ASSUME LeavesBooks
        PROVE  Kept
    BY <1>0, <1>6 DEF LeavesBooks, books
  <1> HIDE DEF Kept
  <1>7. \/ Kept
        \/ /\ id \in DOMAIN strategies'
           /\ \E nonce \in Nonces, amount \in Amounts, pnl \in Pnls, sent \in BOOLEAN :
                Executes(id, nonce, amount, pnl, sent)
    <2>1. CASE \E o \in StrategyIds, nonce \in Nonces, amount \in Amounts, pnl \in Pnls,
                  sent \in BOOLEAN : Executes(o, nonce, amount, pnl, sent)
      <3>1. PICK o \in StrategyIds, nonce \in Nonces, amount \in Amounts, pnl \in Pnls,
                 sent \in BOOLEAN : Executes(o, nonce, amount, pnl, sent)
        BY <2>1
      <3>2. id \in DOMAIN strategies' /\ (o = id \/ Kept)
        BY <1>1, <3>1
      <3> QED
        BY <3>1, <3>2
    <2> QED
      BY <1>2, <1>3, <1>4, <1>5, <1>6, <2>1, StepCases
  <1> QED
    BY <1>7 DEF Kept

\* A strategy that a step registers has executed nothing.
LEMMA NewStrategy ==
    ASSUME TypeOK, [Next]_vars, NEW id \in DOMAIN strategies' \ DOMAIN strategies
    PROVE  strategies'[id].executionCount = 0
  <1>1. \A o \in StrategyIds, nonce \in Nonces, amount \in Amounts, pnl \in Pnls, sent \in BOOLEAN :
           ~Executes(o, nonce, amount, pnl, sent)
    BY DEF Executes, ExecuteSignal
  <1> QED
    BY <1>1, LoggingCases DEF LogsNothing

\* Running totals of the projected losses that the loss on record covers, and
\* that stay within the limit; a report may raise the former, never the latter.
Accrued(id, total) ==
    /\ total \in [0..strategies[id].executionCount -> Nat]
    /\ ProjectedLosses(id, total)
    /\ total[strategies[id].executionCount] <= strategies[id].cumulativeLoss
    /\ strategies[id].terms.maxLoss > 0 =>
         \A n \in 0..strategies[id].executionCount : total[n] <= strategies[id].terms.maxLoss

LossInv == BookInv /\ \A id \in DOMAIN strategies : \E total : Accrued(id, total)

\* Nothing has been executed: nothing is lost.
LEMMA NothingAccrued ==
    ASSUME TypeOK', NEW id \in DOMAIN strategies', strategies'[id].executionCount = 0
    PROVE  \E total : Accrued(id, total)'
  <1> DEFINE total == [n \in 0..0 |-> 0]
  <1>1. strategies'[id].cumulativeLoss \in Nat /\ strategies'[id].terms.maxLoss \in Nat
    BY TermsAssumption DEF TypeOK
  <1>2. total \in [0..0 -> Nat] /\ total[0] = 0
    OBVIOUS
  <1> HIDE DEF total
  <1>3. Accrued(id, total)'
    BY <1>1, <1>2 DEF Accrued, ProjectedLosses
  <1> QED
    BY <1>3

\* An accepted signal adds one more running total, and WithinTerms has seen to
\* it that this one is within the limit too.
LEMMA OneMoreAccrued ==
    ASSUME BookInv, [Next]_vars, NEW id \in StrategyIds, NEW nonce \in Nonces,
           NEW amount \in Amounts, NEW pnl \in Pnls, NEW sent \in BOOLEAN,
           Executes(id, nonce, amount, pnl, sent), NEW total, Accrued(id, total)
    PROVE  \E t : Accrued(id, t)'
  <1>a. PICK r : r = strategies[id]
    OBVIOUS
  <1>b. PICK n : n = r.executionCount
    OBVIOUS
  <1>c. PICK more : more = [k \in 0..n + 1 |-> IF k = n + 1 THEN total[n] + Loss(pnl) ELSE total[k]]
    OBVIOUS
  <1>0. PICK seqno : seqno = strategies[id].executionCount + 1
    OBVIOUS
  <1>1. /\ id \in DOMAIN strategies /\ n \in Nat /\ seqno = n + 1
        /\ strategies' = [strategies EXCEPT ![id] = AfterSignal(r, nonce, pnl)]
        /\ auditLog' = Put(auditLog, AuditKey(id, seqno),
                           [strategyId |-> id, seqno |-> seqno, signalNonce |-> nonce,
                            amount |-> amount, expectedPnl |-> pnl, actualPnl |-> 0,
                            executedAt |-> clock])
    BY <1>0, <1>a, <1>b, ExecuteFacts
  <1>2. /\ r \in StrategyRecord /\ r.cumulativeLoss \in Nat /\ r.terms.maxLoss \in Nat
        /\ Loss(pnl) \in Nat
    BY <1>1, <1>a, TermsAssumption, DataAssumption DEF BookInv, TypeOK, Loss
  <1>3. r.terms.maxLoss > 0 => r.cumulativeLoss + Loss(pnl) <= r.terms.maxLoss
    BY <1>a DEF Executes, ExecuteSignal, WithinTerms
  <1>4. /\ strategies'[id].executionCount = n + 1
        /\ strategies'[id].terms = r.terms
        /\ strategies'[id].cumulativeLoss = r.cumulativeLoss + Loss(pnl)
    BY <1>1, <1>2, <1>b, AfterSignalFacts
  <1>5. Entry(id, n + 1)'.expectedPnl = pnl
    BY <1>1 DEF Entry, Put, AuditKey
  <1>6. \A k \in 1..n : Entry(id, k)'.expectedPnl = Entry(id, k).expectedPnl
    <2> TAKE k \in 1..n
    <2>1. AuditKey(id, k) \in DOMAIN auditLog
      BY <1>1, <1>a, <1>b DEF BookInv, AuditComplete, EntriesPresent
    <2>2. auditLog[AuditKey(id, k)] \in AuditEntry
      BY <2>1 DEF BookInv, TypeOK
    <2>3. auditLog'[AuditKey(id, k)].expectedPnl = auditLog[AuditKey(id, k)].expectedPnl
      BY <2>1, <2>2, EntryKept
    <2> QED
      BY <2>3 DEF Entry, AuditKey
  <1>7. /\ total \in [0..n -> Nat] /\ total[0] = 0 /\ total[n] <= r.cumulativeLoss
        /\ \A k \in 1..n : total[k] = total[k - 1] + Loss(Entry(id, k).expectedPnl)
        /\ r.terms.maxLoss > 0 => \A k \in 0..n : total[k] <= r.terms.maxLoss
    BY <1>a, <1>b DEF Accrued, ProjectedLosses
  <1>8. more \in [0..n + 1 -> Nat] /\ more[0] = 0 /\ more[n + 1] = total[n] + Loss(pnl)
    BY <1>1, <1>2, <1>7, <1>c
  <1>9. ASSUME NEW k \in 1..n + 1
        PROVE  more[k] = more[k - 1] + Loss(Entry(id, k)'.expectedPnl)
    <2>1. CASE k = n + 1
      <3>1. more[k - 1] = total[n]
        BY <1>1, <1>7, <1>c, <2>1
      <3> QED
        BY <1>5, <1>8, <2>1, <3>1
    <2>2. CASE k \in 1..n
      <3>1. more[k] = total[k] /\ more[k - 1] = total[k - 1]
        BY <1>1, <1>c, <2>2
      <3> QED
        BY <1>6, <1>7, <2>2, <3>1
    <2> QED
      BY <1>1, <2>1, <2>2
  <1>10. more[n + 1] <= r.cumulativeLoss + Loss(pnl)
    BY <1>1, <1>2, <1>7, <1>8
  <1>11. r.terms.maxLoss > 0 => \A k \in 0..n + 1 : more[k] <= r.terms.maxLoss
    <2> SUFFICES ASSUME r.terms.maxLoss > 0, NEW k \in 0..n + 1
                 PROVE  more[k] <= r.terms.maxLoss
      OBVIOUS
    <2>1. CASE k = n + 1
      BY <1>1, <1>2, <1>3, <1>7, <1>8, <1>10, <2>1
    <2>2. CASE k \in 0..n
      BY <1>1, <1>7, <1>c, <2>2
    <2> QED
      BY <1>1, <2>1, <2>2
  <1>12. Accrued(id, more)'
    BY <1>4, <1>8, <1>9, <1>10, <1>11 DEF Accrued, ProjectedLosses
  <1> QED
    BY <1>12

\* Every step keeps the running totals covered.
LEMMA NextLossInv ==
    ASSUME LossInv, [Next]_vars
    PROVE  LossInv'
  <1>1. BookInv' /\ BookInv /\ TypeOK /\ TypeOK'
    BY NextBookInv DEF LossInv, BookInv
  <1>2. ASSUME NEW id \in DOMAIN strategies', id \notin DOMAIN strategies
        PROVE  \E total : Accrued(id, total)'
    <2>1. strategies'[id].executionCount = 0
      BY <1>1, <1>2, NewStrategy
    <2> QED
      BY <1>1, <2>1, NothingAccrued
  <1>3. ASSUME NEW id \in DOMAIN strategies
        PROVE  \E total : Accrued(id, total)'
    <2>1. PICK total : Accrued(id, total)
      BY DEF LossInv
    <2>2. ASSUME NEW nonce \in Nonces, NEW amount \in Amounts, NEW pnl \in Pnls,
                 NEW sent \in BOOLEAN, Executes(id, nonce, amount, pnl, sent)
          PROVE  \E t : Accrued(id, t)'
      <3>1. id \in StrategyIds
        BY <1>1 DEF TypeOK
      <3> QED
        BY <1>1, <2>1, <2>2, <3>1, OneMoreAccrued
    <2>3. ASSUME strategies'[id].executionCount = strategies[id].executionCount,
                 strategies'[id].terms = strategies[id].terms,
                 strategies'[id].cumulativeLoss >= strategies[id].cumulativeLoss
          PROVE  Accrued(id, total)'
      <3>1. \A k \in 1..strategies[id].executionCount :
               Entry(id, k)'.expectedPnl = Entry(id, k).expectedPnl
        <4> TAKE k \in 1..strategies[id].executionCount
        <4>1. AuditKey(id, k) \in DOMAIN auditLog
          BY <1>1 DEF BookInv, AuditComplete, EntriesPresent
        <4>2. auditLog[AuditKey(id, k)] \in AuditEntry
          BY <1>1, <4>1 DEF TypeOK
        <4>3. auditLog'[AuditKey(id, k)].expectedPnl = auditLog[AuditKey(id, k)].expectedPnl
          BY <1>1, <4>1, <4>2, EntryKept
        <4> QED
          BY <4>3 DEF Entry, AuditKey
      <3>2. /\ strategies[id].executionCount \in Nat /\ strategies[id].cumulativeLoss \in Nat
            /\ id \in DOMAIN strategies' /\ strategies'[id].cumulativeLoss \in Nat
        <4>1. id \in DOMAIN strategies'
          BY <1>1, LossStep
        <4>2. strategies[id] \in StrategyRecord /\ strategies'[id] \in StrategyRecord
          BY <1>1, <4>1 DEF TypeOK
        <4> QED
          BY <4>1, <4>2
      <3>3. /\ total \in [0..strategies[id].executionCount -> Nat]
            /\ ProjectedLosses(id, total)
            /\ total[strategies[id].executionCount] \in Nat
            /\ total[strategies[id].executionCount] <= strategies[id].cumulativeLoss
        BY <2>1, <3>2 DEF Accrued
      <3>4. ProjectedLosses(id, total)'
        BY <2>3, <3>1, <3>3 DEF ProjectedLosses
      <3>5. total[strategies[id].executionCount] <= strategies'[id].cumulativeLoss
        BY <2>3, <3>2, <3>3
      <3> QED
        BY <2>1, <2>3, <3>3, <3>4, <3>5 DEF Accrued
    <2> QED
      BY <1>1, <2>2, <2>3, LossStep
  <1> QED
    BY <1>1, <1>2, <1>3 DEF LossInv

\* However many signals a strategy's orchestrator sends and whatever outcomes
\* it reports, losses it announced never add up past maxLossNano
\* (ExecuteSignal adds to cumulativeLossNano, ReportOutcome never lowers it).
THEOREM ProjectedLossBoundedHolds == Spec => []ProjectedLossBounded
  <1>1. Init => LossInv
    BY InitBookInv DEF Init, LossInv
  <1>2. LossInv => ProjectedLossBounded
    <2> SUFFICES ASSUME LossInv, NEW id \in DOMAIN strategies, strategies[id].terms.maxLoss > 0
                 PROVE  \E total \in [0..strategies[id].executionCount -> 0..strategies[id].terms.maxLoss] :
                           ProjectedLosses(id, total)
      BY DEF ProjectedLossBounded
    <2>1. PICK total : Accrued(id, total)
      BY DEF LossInv
    <2>2. strategies[id].terms.maxLoss \in Nat
      BY TermsAssumption DEF LossInv, BookInv, TypeOK
    <2>3. total \in [0..strategies[id].executionCount -> 0..strategies[id].terms.maxLoss]
      BY <2>1, <2>2 DEF Accrued
    <2> QED
      BY <2>1, <2>3 DEF Accrued
  <1>3. LossInv /\ [Next]_vars => LossInv'
    BY NextLossInv
  <1> QED
    BY <1>1, <1>2, <1>3, PTL DEF Spec

-----------------------------------------------------------------------------
(* Statuses.                                                               *)

\* What one step does to a strategy that is already registered.
Keeps(id)  == strategies'[id] = strategies[id]
Counts(id) == /\ strategies[id].status = "running" /\ ~isHalted
              /\ strategies'[id].executionCount = strategies[id].executionCount + 1
              /\ strategies'[id].terms = strategies[id].terms
              /\ strategies'[id].status =
                   IF Exhausted(strategies[id].terms, strategies[id].executionCount + 1)
                   THEN "completed" ELSE "running"
Moves(id)  == /\ strategies'[id].executionCount = strategies[id].executionCount
              /\ strategies'[id].terms = strategies[id].terms
              /\ \/ strategies'[id].status = strategies[id].status
                 \/ strategies'[id].status = "stopped"
                 \/ /\ strategies[id].status = "pending" /\ ~isHalted
                    /\ strategies'[id].status = "running"

\* A registered strategy stays registered, and a step leaves it alone, counts
\* one execution, or moves its status without counting.
LEMMA StrategyStep ==
    ASSUME TypeOK, [Next]_vars, NEW id \in DOMAIN strategies
    PROVE  id \in DOMAIN strategies' /\ (Keeps(id) \/ Counts(id) \/ Moves(id))
  <1>0. strategies[id] \in StrategyRecord
    BY DEF TypeOK
  <1>1. ASSUME NEW o \in StrategyIds, NEW nonce \in Nonces, NEW amount \in Amounts,
               NEW pnl \in Pnls, NEW sent \in BOOLEAN, Executes(o, nonce, amount, pnl, sent)
        PROVE  id \in DOMAIN strategies' /\ (Keeps(id) \/ Counts(id))
    <2>1. /\ strategies' = [strategies EXCEPT ![o] = AfterSignal(strategies[o], nonce, pnl)]
          /\ strategies[o].status = "running" /\ ~isHalted
      BY <1>1 DEF Executes, ExecuteSignal, NotHalted
    <2>2. CASE o # id
      BY <2>1, <2>2 DEF Keeps
    <2>3. CASE o = id
      <3>1. strategies'[id] = AfterSignal(strategies[id], nonce, pnl)
        BY <2>1, <2>3
      <3> QED
        BY <1>0, <2>1, <2>3, <3>1, AfterSignalFacts DEF Counts
    <2> QED
      BY <2>2, <2>3
  <1>2. ASSUME NEW o \in StrategyIds, NEW nonce \in Nonces, NEW pnl \in Pnls, Reports(o, nonce, pnl)
        PROVE  id \in DOMAIN strategies' /\ (Keeps(id) \/ Moves(id))
    <2>1. strategies' = [strategies EXCEPT ![o] = AfterReport(strategies[o], pnl)]
      BY <1>2 DEF Reports, ReportOutcome
    <2>2. CASE o # id
      BY <2>1, <2>2 DEF Keeps
    <2>3. CASE o = id
      <3>1. strategies'[id] = AfterReport(strategies[id], pnl)
        BY <2>1, <2>3
      <3> QED
        BY <1>0, <2>1, <2>3, <3>1, AfterReportFacts DEF Moves
    <2> QED
      BY <2>2, <2>3
  <1>3. ASSUME NEW o \in StrategyIds, NEW terms \in Terms, Registers(o, terms)
        PROVE  id \in DOMAIN strategies' /\ Keeps(id)
    BY <1>3 DEF Registers, RegisterStrategy, Put, Keeps
  <1>4. ASSUME NEW o \in StrategyIds, Starts(o)
        PROVE  id \in DOMAIN strategies' /\ (Keeps(id) \/ Moves(id))
    <2>1. /\ strategies' = [strategies EXCEPT ![o].status = "running"]
          /\ strategies[o].status = "pending" /\ ~isHalted
      BY <1>4 DEF Starts, StartStrategy, NotHalted, MayStart
    <2> QED
      BY <1>0, <2>1 DEF Keeps, Moves
  <1>5. ASSUME NEW o \in StrategyIds, Stops(o)
        PROVE  id \in DOMAIN strategies' /\ (Keeps(id) \/ Moves(id))
    <2>1. strategies' = [strategies EXCEPT ![o].status = "stopped"]
      BY <1>5 DEF Stops, StopStrategy
    <2> QED
      BY <1>0, <2>1 DEF Keeps, Moves
  <1>6. CASE LeavesBooks
    BY <1>6 DEF LeavesBooks, books, Keeps
  <1> QED
    BY <1>1, <1>2, <1>3, <1>4, <1>5, <1>6, StepCases

\* A stopped or completed strategy stays finished and executes no further
\* signal (StartStrategy, ExecuteSignal, ReportOutcome).
THEOREM FinishedStaysFinishedHolds == Spec => FinishedStaysFinished
  <1> DEFINE Stays(id) == strategies[id].status \in {"stopped", "completed"} =>
                            /\ strategies'[id].status \in {"stopped", "completed"}
                            /\ strategies'[id].executionCount = strategies[id].executionCount
  <1>1. ASSUME TypeOK, [Next]_vars, NEW id \in DOMAIN strategies
        PROVE  Stays(id)
    BY <1>1, StrategyStep DEF Keeps, Counts, Moves
  <1>2. TypeOK /\ [Next]_vars => [\A id \in DOMAIN strategies : Stays(id)]_vars
    BY <1>1
  <1> QED
    BY <1>2, TypeCorrect, PTL DEF FinishedStaysFinished, Spec

\* A limited strategy completes with its last execution, neither before nor
\* after it (ExecuteSignal).
THEOREM CompletionExact == Spec => []CompletionIsExact
  <1> DEFINE Exact(r) == /\ r.status = "completed" => r.executionCount = r.terms.maxExecutions
                         /\ r.status = "running" => ~Exhausted(r.terms, r.executionCount)
                         /\ r.status = "pending" => r.executionCount = 0
                         /\ r.terms.maxExecutions > 0 => r.executionCount <= r.terms.maxExecutions
             Inv == TypeOK /\ \A id \in DOMAIN strategies : Exact(strategies[id])
  <1>1. Init => Inv
    BY InitTypeOK DEF Init
  <1>2. ASSUME Inv, [Next]_vars
        PROVE  Inv'
    <2>1. TypeOK /\ TypeOK'
      BY <1>2, NextTypeOK
    <2>2. ASSUME NEW id \in DOMAIN strategies
          PROVE  Exact(strategies'[id])
      <3>1. /\ strategies[id].terms.maxExecutions \in Nat
            /\ strategies[id].executionCount \in Nat
        BY <2>1, TermsAssumption DEF TypeOK
      <3>2. Exact(strategies[id])
        BY <1>2
      <3>3. CASE Keeps(id)
        BY <3>2, <3>3 DEF Keeps
      <3>4. CASE Counts(id)
        BY <3>1, <3>2, <3>4 DEF Counts, Exhausted
      <3>5. CASE Moves(id)
        BY <3>1, <3>2, <3>5 DEF Moves, Exhausted
      <3> QED
        BY <1>2, <2>1, <3>3, <3>4, <3>5, StrategyStep
    <2>3. ASSUME NEW id \in DOMAIN strategies' \ DOMAIN strategies
          PROVE  Exact(strategies'[id])
      <3>1. PICK o \in StrategyIds, terms \in Terms : Registers(o, terms)
        <4>1. \A o \in StrategyIds, nonce \in Nonces, amount \in Amounts, pnl \in Pnls, sent \in BOOLEAN :
                 Executes(o, nonce, amount, pnl, sent) => DOMAIN strategies' = DOMAIN strategies
          BY DEF Executes, ExecuteSignal
        <4>2. \A o \in StrategyIds, nonce \in Nonces, pnl \in Pnls :
                 Reports(o, nonce, pnl) => DOMAIN strategies' = DOMAIN strategies
          BY DEF Reports, ReportOutcome
        <4>3. \A o \in StrategyIds : Starts(o) \/ Stops(o) => DOMAIN strategies' = DOMAIN strategies
          BY DEF Starts, StartStrategy, Stops, StopStrategy
        <4>4. LeavesBooks => DOMAIN strategies' = DOMAIN strategies
          BY DEF LeavesBooks, books
        <4>5. DOMAIN strategies' # DOMAIN strategies
          BY <2>3
        <4> QED
          BY <1>2, <4>1, <4>2, <4>3, <4>4, <4>5, StepCases
      <3>2. /\ strategies'[id].status = "pending" /\ strategies'[id].executionCount = 0
            /\ strategies'[id].terms = terms
        BY <2>3, <3>1 DEF Registers, RegisterStrategy, Put
      <3>3. terms.maxExecutions \in Nat
        BY TermsAssumption
      <3> QED
        BY <3>2, <3>3
    <2> QED
      BY <2>1, <2>2, <2>3
  <1>3. Inv => CompletionIsExact
    <2> SUFFICES ASSUME Inv, NEW id \in DOMAIN strategies
                 PROVE  LET r == strategies[id]
                        IN  /\ r.status = "completed" => r.executionCount = r.terms.maxExecutions
                            /\ r.status = "running" /\ r.terms.maxExecutions > 0 =>
                                 r.executionCount < r.terms.maxExecutions
                            /\ r.terms.maxExecutions > 0 => r.executionCount <= r.terms.maxExecutions
      BY DEF CompletionIsExact
    <2>1. /\ strategies[id].terms.maxExecutions \in Nat
          /\ strategies[id].executionCount \in Nat
      BY TermsAssumption DEF TypeOK, StrategyRecord, TermsType
    <2> QED
      BY <2>1 DEF Exhausted
  <1> QED
    BY <1>1, <1>2, <1>3, PTL DEF Spec

\* EmergencyHalt cannot be undone, and from then on nothing is registered,
\* started, executed or sent (ExecuteSignal, StartStrategy, EmergencyHalt).
THEOREM HaltIsFinalHolds == Spec => HaltIsFinal
  <1> DEFINE Frozen == /\ isHalted'
                       /\ trades' = trades /\ DOMAIN auditLog' = DOMAIN auditLog
                       /\ DOMAIN strategies' = DOMAIN strategies
                       /\ \A id \in DOMAIN strategies :
                            strategies'[id].status = "running" => strategies[id].status = "running"
  <1>1. ASSUME TypeOK, [Next]_vars, isHalted
        PROVE  Frozen
    <2>1. \A id \in DOMAIN strategies :
             strategies'[id].status = "running" => strategies[id].status = "running"
      BY <1>1, StrategyStep DEF Keeps, Counts, Moves
    <2>2. \A id \in StrategyIds, nonce \in Nonces, amount \in Amounts, pnl \in Pnls, sent \in BOOLEAN :
             ~Executes(id, nonce, amount, pnl, sent)
      BY <1>1 DEF Executes, ExecuteSignal, NotHalted
    <2>3. \A id \in StrategyIds, terms \in Terms : ~Registers(id, terms)
      BY <1>1 DEF Registers, RegisterStrategy, NotHalted
    <2>4. ASSUME NEW id \in StrategyIds, NEW nonce \in Nonces, NEW pnl \in Pnls, Reports(id, nonce, pnl)
          PROVE  /\ isHalted' /\ trades' = trades /\ DOMAIN auditLog' = DOMAIN auditLog
                 /\ DOMAIN strategies' = DOMAIN strategies
      BY <1>1, <2>4 DEF Reports, ReportOutcome
    <2>5. ASSUME NEW id \in StrategyIds, Starts(id) \/ Stops(id)
          PROVE  /\ isHalted' /\ trades' = trades /\ DOMAIN auditLog' = DOMAIN auditLog
                 /\ DOMAIN strategies' = DOMAIN strategies
      BY <1>1, <2>5 DEF Starts, StartStrategy, Stops, StopStrategy
    <2>6. ASSUME LeavesBooks
          PROVE  /\ isHalted' /\ trades' = trades /\ DOMAIN auditLog' = DOMAIN auditLog
                 /\ DOMAIN strategies' = DOMAIN strategies
      BY <1>1, <2>6 DEF LeavesBooks, books
    <2> QED
      BY <1>1, <2>1, <2>2, <2>3, <2>4, <2>5, <2>6, StepCases
  <1>2. TypeOK /\ [Next]_vars => [isHalted => Frozen]_vars
    BY <1>1
  <1> QED
    BY <1>2, TypeCorrect, PTL DEF HaltIsFinal, Spec
=============================================================================
