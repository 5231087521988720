--------------------------- MODULE TradingProofs ---------------------------
(***************************************************************************)
(* Proofs about Trading, for any payloads, fees and delays: what the       *)
(* wallet pays for signals was booked, in order and within the strategy's  *)
(* limit, and a halt lets nothing new onto the wire.                       *)
(***************************************************************************)
EXTENDS Trading, FiniteSetTheorems, TLAPS

\* What is proved of the executor alone, about the executor of Trading.
EP == INSTANCE StrategyExecutorProofs WITH Owner <- ExecutorOwner, Amounts <- SignalAmounts

\* The messages from the executor to the wallet.
Cargo == [strategyId : StrategyIds, signalNonce : Nonces, value : Values, body : Body]

\* The inductive invariant of the wire: what travels is a message that the
\* wallet may get.
WireOK == inFlight \in Seq(Cargo)

-----------------------------------------------------------------------------
(* Which variables a contract's step leaves alone.                         *)

\* No handler of the wallet changes the time.
LEMMA WalletKeepsClock ==
    ASSUME NEW from, NEW v, W!Message(from, v)
    PROVE  clock' = clock
  <1>1. CASE W!Deposit(v)
    BY <1>1 DEF W!Deposit
  <1>2. CASE W!OwnerMessage(from, v)
    BY <1>2 DEF W!OwnerMessage, W!WithdrawRequest, W!ClaimWithdrawal, W!UpdateLimits,
                W!SetAllowedDex, W!SetAgent, W!SetPaused, W!SetSafeAddress, W!EmergencyDrain
  <1>3. CASE \E to \in Venues, amount \in Amounts : W!AgentExecute(from, v, to, amount)
    BY <1>3 DEF W!AgentExecute
  <1> QED
    BY <1>1, <1>2, <1>3 DEF W!Message

\* Neither does any handler of the executor.
LEMMA ExecutorKeepsClock ==
    ASSUME NEW from, E!Message(from)
    PROVE  clock' = clock
  <1>1. CASE E!Signal(from)
    BY <1>1 DEF E!Signal, E!ExecuteSignal
  <1>2. CASE E!Report(from)
    BY <1>2 DEF E!Report, E!ReportOutcome
  <1>3. CASE E!Manage(from)
    BY <1>3 DEF E!Manage, E!RegisterStrategy, E!StartStrategy, E!StopStrategy,
                E!SetOrchestrator, E!EmergencyHalt
  <1> QED
    BY <1>1, <1>2, <1>3 DEF E!Message

\* A message of the wire that the wallet deals with keeps the executor as it is.
LEMMA DeliverKeepsExecutor ==
    ASSUME Deliver
    PROVE  UNCHANGED <<executorState, clock>>
  <1> PICK m \in {inFlight[i] : i \in DOMAIN inFlight} : Trade(m) \/ EmptyBody(m) \/ Bounce(m)
    BY DEF Deliver
  <1>1. CASE Trade(m)
    BY <1>1 DEF Trade, Settle, W!AgentExecute
  <1>2. CASE EmptyBody(m)
    BY <1>2 DEF EmptyBody, Settle, W!Deposit
  <1>3. CASE Bounce(m)
    BY <1>3 DEF Bounce, Settle
  <1> QED
    BY <1>1, <1>2, <1>3

-----------------------------------------------------------------------------
(* The executor.                                                           *)

\* A signal that enters the wire is a signal the executor executes.
LEMMA SignalIsExecutorStep ==
    ASSUME Signal
    PROVE  E!Next
  <1>1. PICK from \in E!Sender, id \in StrategyIds, nonce \in Nonces, amount \in SignalAmounts,
             pnl \in Pnls, sent \in SendResults : E!ExecuteSignal(from, id, nonce, amount, pnl, sent)
    BY DEF Signal
  <1>2. E!Signal(from)
    BY <1>1 DEF E!Signal
  <1> QED
    BY <1>2 DEF E!Next, E!Message

\* Every step is one of the executor's own or leaves it be.
LEMMA StepOfExecutor == [Next]_vars => [E!Next]_E!vars
  <1> SUFFICES ASSUME [Next]_vars
               PROVE  E!Next \/ UNCHANGED <<executorState, clock>>
    BY DEF executorState, E!vars, E!books
  <1>1. CASE Tick
    BY <1>1 DEF Tick, E!Next
  <1>2. CASE ManageExecutor
    BY <1>2 DEF ManageExecutor, E!Next, E!Message
  <1>3. CASE UseWallet
    BY <1>3, WalletKeepsClock DEF UseWallet
  <1>4. CASE Signal
    BY <1>4, SignalIsExecutorStep
  <1>5. CASE Deliver
    BY <1>5, DeliverKeepsExecutor
  <1>6. CASE UNCHANGED vars
    BY <1>6 DEF vars
  <1> QED
    BY <1>1, <1>2, <1>3, <1>4, <1>5, <1>6 DEF Next

-----------------------------------------------------------------------------
(* The wire.                                                               *)

LEMMA InitWireOK == Init => WireOK
  BY DEF Init, WireOK

LEMMA SignalWireOK ==
    ASSUME WireOK, Signal
    PROVE  WireOK'
  <1>1. PICK id \in StrategyIds, nonce \in Nonces, amount \in SignalAmounts, body \in Body :
           inFlight' = inFlight \/ Forward(id, nonce, amount, body)
    BY DEF Signal
  <1>2. CASE inFlight' = inFlight
    BY <1>2 DEF WireOK
  <1>3. CASE Forward(id, nonce, amount, body)
    <2>1. PICK fee \in 0..MaxFee :
            /\ fee <= amount
            /\ inFlight' = Append(inFlight, [strategyId |-> id, signalNonce |-> nonce,
                                             value |-> amount - fee, body |-> body])
      BY <1>3 DEF Forward
    <2>2. amount - fee \in Values
      BY <2>1, ValuesCovered
    <2>3. [strategyId |-> id, signalNonce |-> nonce, value |-> amount - fee, body |-> body] \in Cargo
      BY <2>2 DEF Cargo
    <2> QED
      BY <2>1, <2>3 DEF WireOK
  <1> QED
    BY <1>1, <1>2, <1>3

\* Whatever becomes of the oldest message, the others stay as they are.
LEMMA DeliverWire ==
    ASSUME WireOK, NEW m, Trade(m) \/ EmptyBody(m) \/ Bounce(m)
    PROVE  /\ Arrived(m) /\ m \in Cargo
           /\ WireOK'
           /\ Len(inFlight') = Len(inFlight) - 1
  <1>1. Arrived(m) /\ inFlight' = Tail(inFlight)
    BY DEF Trade, EmptyBody, Bounce, Settle
  <1>2. inFlight # << >> /\ m = Head(inFlight)
    BY <1>1 DEF Arrived
  <1> QED
    BY <1>1, <1>2 DEF WireOK

LEMMA NextWireOK == WireOK /\ [Next]_vars => WireOK'
  <1> SUFFICES ASSUME WireOK, [Next]_vars
               PROVE  WireOK'
    OBVIOUS
  <1>1. CASE Signal
    BY <1>1, SignalWireOK
  <1>2. CASE Deliver
    BY <1>2, DeliverWire DEF Deliver
  <1>3. CASE Tick \/ ManageExecutor \/ UseWallet \/ UNCHANGED vars
    BY <1>3 DEF Tick, ManageExecutor, UseWallet, vars, wire, WireOK
  <1> QED
    BY <1>1, <1>2, <1>3 DEF Next

-----------------------------------------------------------------------------
(* The halt.                                                               *)

\* After EmergencyHalt only what was on its way can still be traded: no step
\* adds a message, and each one that leaves the wire is accounted for.
THEOREM HaltDrainsHolds == Spec => HaltDrains
  <1> DEFINE Drains  == /\ Len(settled') + Len(inFlight') = Len(settled) + Len(inFlight)
                        /\ Len(inFlight') <= Len(inFlight)
             Settled == \E S : settled \in Seq(S)
  <1>1. Init => WireOK /\ Settled
    <2>1. << >> \in Seq({})
      OBVIOUS
    <2> QED
      BY <2>1, InitWireOK DEF Init
  <1>2. ASSUME WireOK, Settled, Deliver
        PROVE  Settled' /\ Drains
    <2> PICK m \in {inFlight[i] : i \in DOMAIN inFlight} : Trade(m) \/ EmptyBody(m) \/ Bounce(m)
      BY <1>2 DEF Deliver
    <2>1. Len(inFlight') = Len(inFlight) - 1 /\ Len(inFlight) \in Nat
      BY <1>2, DeliverWire DEF WireOK
    <2>2. PICK e : settled' = Append(settled, e)
      BY DEF Trade, EmptyBody, Bounce, Settle
    <2>3. PICK S : settled \in Seq(S)
      BY <1>2
    <2>4. settled \in Seq(S \cup {e})
      BY <2>3
    <2>5. settled' \in Seq(S \cup {e}) /\ Len(settled') = Len(settled) + 1 /\ Len(settled) \in Nat
      BY <2>2, <2>4
    <2> QED
      BY <2>1, <2>5
  <1>3. ASSUME Signal
        PROVE  settled' = settled /\ ~isHalted
    BY <1>3 DEF Signal, E!ExecuteSignal, E!NotHalted
  <1>4. ASSUME Tick \/ ManageExecutor \/ UseWallet \/ UNCHANGED vars
        PROVE  UNCHANGED wire
    BY <1>4 DEF Tick, ManageExecutor, UseWallet, vars
  <1>5. WireOK /\ Settled /\ [Next]_vars =>
           WireOK' /\ Settled' /\ [isHalted /\ isHalted' => Drains]_vars
    <2> SUFFICES ASSUME WireOK, Settled, [Next]_vars
                 PROVE  Settled' /\ (isHalted => Drains)
      BY NextWireOK
    <2>1. CASE Deliver
      BY <1>2, <2>1
    <2>2. CASE Signal
      BY <1>3, <2>2
    <2>3. CASE Tick \/ ManageExecutor \/ UseWallet \/ UNCHANGED vars
      BY <1>4, <2>3 DEF wire, WireOK
    <2> QED
      BY <2>1, <2>2, <2>3 DEF Next
  <1> HIDE DEF Drains, Settled
  <1> QED
    BY <1>1, <1>5, PTL DEF Spec, HaltDrains, Drains

-----------------------------------------------------------------------------
(* The executor's books, seen from the wire.                               *)

\* The executor's parameters are as its own proofs assume.
LEMMA ExecutorParameters ==
    /\ EP!KeyAssumption /\ EP!DataAssumption /\ EP!TermsAssumption
    /\ EP!SendAssumption /\ EP!BoundsAssumption
  BY ExecutorAssumption DEF E!TermsType, EP!TermsType

\* E and EP are two instances of one module: what is proved of EP is of E.
LEMMA SameExecutor ==
    /\ E!Init => EP!Init
    /\ [E!Next]_E!vars => [EP!Next]_EP!vars
    /\ \A from, id, nonce, amount, pnl, sent :
         E!ExecuteSignal(from, id, nonce, amount, pnl, sent)
            => EP!ExecuteSignal(from, id, nonce, amount, pnl, sent)
  <1> USE DEF E!books, EP!books, E!Put, EP!Put, E!NotHalted, EP!NotHalted, E!Loss, EP!Loss,
              E!FreshNonce, EP!FreshNonce, E!WithinTerms, EP!WithinTerms, E!Exhausted, EP!Exhausted,
              E!AfterSignal, EP!AfterSignal, E!AuditKey, EP!AuditKey, E!NonceKey, EP!NonceKey,
              E!ExecuteSignal, EP!ExecuteSignal
  <1>1. E!Init => EP!Init
    BY DEF E!Init, EP!Init
  <1>2. ASSUME NEW from, NEW id, NEW nonce, NEW amount, NEW pnl, NEW sent,
               E!ExecuteSignal(from, id, nonce, amount, pnl, sent)
        PROVE  EP!ExecuteSignal(from, id, nonce, amount, pnl, sent)
    BY <1>2
  <1>3. ASSUME E!Next
        PROVE  EP!Next
    BY <1>3 DEF E!Next, EP!Next, E!Sender, EP!Sender, E!Tick, EP!Tick, E!Message, EP!Message,
                E!Signal, EP!Signal, E!Report, EP!Report, E!Manage, EP!Manage,
                E!MayManage, EP!MayManage, E!MayStart, EP!MayStart,
                E!RegisterStrategy, EP!RegisterStrategy, E!StartStrategy, EP!StartStrategy,
                E!StopStrategy, EP!StopStrategy, E!SetOrchestrator, EP!SetOrchestrator,
                E!EmergencyHalt, EP!EmergencyHalt, E!ReportOutcome, EP!ReportOutcome,
                E!SeqnoOf, EP!SeqnoOf, E!AfterReport, EP!AfterReport, E!LossAfter, EP!LossAfter,
                E!Larger, EP!Larger, E!Cardinality, EP!Cardinality
  <1>4. E!vars = EP!vars /\ E!vars' = EP!vars'
    BY DEF E!vars, EP!vars
  <1> QED
    BY <1>1, <1>2, <1>3, <1>4

\* The executor's invariants, and the limit on its executions, hold while it
\* is joined to the wallet.
LEMMA BooksHold == Spec => []EP!BookInv /\ []EP!CompletionIsExact
  <1>1. Init => EP!Init
    BY SameExecutor DEF Init
  <1>2. [Next]_vars => [EP!Next]_EP!vars
    BY StepOfExecutor, SameExecutor
  <1>3. EP!Init => EP!BookInv
    BY ExecutorParameters, EP!InitBookInv
  <1>4. EP!BookInv /\ [EP!Next]_EP!vars => EP!BookInv'
    BY ExecutorParameters, EP!NextBookInv
  <1>5. EP!Spec => []EP!CompletionIsExact
    BY ExecutorParameters, EP!CompletionExact
  <1> QED
    BY <1>1, <1>2, <1>3, <1>4, <1>5, PTL DEF Spec, EP!Spec

\* The signal was executed under a nonce the strategy has used up.
Issued(m) ==
    /\ m.strategyId \in DOMAIN strategies
    /\ m.signalNonce <= strategies[m.strategyId].lastSignalNonce

\* The audit log holds the signal, from the instant t at the latest.
Booked(m, t) ==
    \E k \in DOMAIN auditLog :
        /\ auditLog[k].strategyId = m.strategyId
        /\ auditLog[k].signalNonce = m.signalNonce
        /\ auditLog[k].executedAt <= t

\* Of two signals of a strategy, n is the later one.
Later(m, n) == m.strategyId = n.strategyId => m.signalNonce < n.signalNonce

\* No step takes a signal back or unbooks it.
LEMMA BooksOnlyGrow ==
    ASSUME EP!BookInv, EP!BookInv', [Next]_vars
    PROVE  /\ clock \in Nat /\ clock' \in Nat /\ clock <= clock'
           /\ \A m : m.signalNonce \in Nat /\ Issued(m) => Issued(m)'
           /\ \A m, t : Booked(m, t) => Booked(m, t)'
           /\ \A m : Booked(m, clock) => Booked(m, clock)'
  <1>1. [EP!Next]_EP!vars
    BY StepOfExecutor, SameExecutor
  <1>2. /\ clock \in Nat /\ clock' \in Nat
        /\ \A k \in DOMAIN auditLog : auditLog[k] \in EP!AuditEntry
        /\ \A id \in DOMAIN strategies : strategies[id].lastSignalNonce \in Nat
        /\ \A id \in DOMAIN strategies' : strategies'[id].lastSignalNonce \in Nat
    BY DEF EP!BookInv, EP!TypeOK, EP!StrategyRecord
  <1>3. clock <= clock'
    <2>1. CASE Tick
      BY <1>2, <2>1 DEF Tick, E!Tick
    <2>2. CASE ManageExecutor
      BY <1>2, <2>2, ExecutorKeepsClock DEF ManageExecutor, E!Message
    <2>3. CASE UseWallet
      BY <1>2, <2>3, WalletKeepsClock DEF UseWallet
    <2>4. CASE Signal
      BY <1>2, <2>4 DEF Signal, E!ExecuteSignal
    <2>5. CASE Deliver
      BY <1>2, <2>5, DeliverKeepsExecutor
    <2>6. CASE UNCHANGED vars
      BY <1>2, <2>6 DEF vars
    <2> QED
      BY <2>1, <2>2, <2>3, <2>4, <2>5, <2>6 DEF Next
  <1>4. ASSUME NEW m, m.signalNonce \in Nat, Issued(m)
        PROVE  Issued(m)'
    <2>1. /\ m.strategyId \in DOMAIN strategies'
          /\ strategies[m.strategyId].lastSignalNonce <= strategies'[m.strategyId].lastSignalNonce
      BY <1>1, <1>4, ExecutorParameters, EP!NonceGrows DEF Issued
    <2> QED
      BY <1>2, <1>4, <2>1 DEF Issued
  <1>5. ASSUME NEW k \in DOMAIN auditLog
        PROVE  /\ k \in DOMAIN auditLog'
               /\ auditLog'[k].strategyId = auditLog[k].strategyId
               /\ auditLog'[k].signalNonce = auditLog[k].signalNonce
               /\ auditLog'[k].executedAt = auditLog[k].executedAt
               /\ auditLog[k].executedAt \in Nat
    <2>1. /\ k \in DOMAIN auditLog'
          /\ auditLog'[k] = [auditLog[k] EXCEPT !.actualPnl = auditLog'[k].actualPnl]
      BY <1>1, ExecutorParameters, EP!EntryKept
    <2> QED
      BY <1>2, <2>1 DEF EP!AuditEntry
  <1>6. ASSUME NEW m, NEW t, Booked(m, t)
        PROVE  Booked(m, t)'
    BY <1>5, <1>6 DEF Booked
  <1>7. ASSUME NEW m, Booked(m, clock)
        PROVE  Booked(m, clock)'
    <2>1. PICK k \in DOMAIN auditLog : /\ auditLog[k].strategyId = m.strategyId
                                        /\ auditLog[k].signalNonce = m.signalNonce
                                        /\ auditLog[k].executedAt <= clock
      BY <1>7 DEF Booked
    <2>2. auditLog[k].executedAt <= clock'
      BY <1>2, <1>3, <1>5, <2>1
    <2> QED
      BY <1>5, <2>1, <2>2 DEF Booked
  <1> QED
    BY <1>2, <1>3, <1>4, <1>6, <1>7

-----------------------------------------------------------------------------
(* The wire's invariant.                                                   *)

\* What became of a message: its signal, and the transfer made for it, if any.
Outcome == [strategyId : StrategyIds, signalNonce : Nonces, transfer : Nat]

IsSequence(s) == \E S : s \in Seq(S)

WireTyped == WireOK /\ settled \in Seq(Outcome) /\ IsSequence(outbox)

\* Nothing is on the wire, or came off it, that the executor did not book.
InFlightBooked ==
    \A i \in DOMAIN inFlight : Issued(inFlight[i]) /\ Booked(inFlight[i], clock)

SettledBooked ==
    /\ \A i \in DOMAIN settled : Issued(settled[i])
    /\ \A i \in Traded : /\ settled[i].transfer \in DOMAIN outbox
                         /\ Booked(settled[i], outbox[settled[i].transfer].at)

\* The messages leave in the order of their nonces, and settle in that order.
InOrder ==
    /\ \A i, j \in DOMAIN settled : i < j => Later(settled[i], settled[j])
    /\ \A i \in DOMAIN settled, j \in DOMAIN inFlight : Later(settled[i], inFlight[j])
    /\ \A i, j \in DOMAIN inFlight : i < j => Later(inFlight[i], inFlight[j])

WireInv == WireTyped /\ InFlightBooked /\ SettledBooked /\ InOrder

LEMMA InitWireInv == Init => WireInv
  <1> SUFFICES ASSUME Init
               PROVE  WireInv
    OBVIOUS
  <1>1. inFlight = << >> /\ settled = << >> /\ outbox = << >>
    BY DEF Init, W!Init
  <1>2. WireOK /\ << >> \in Seq({}) /\ << >> \in Seq(Outcome)
    BY InitWireOK
  <1>3. DOMAIN inFlight = {} /\ DOMAIN settled = {}
    BY <1>1
  <1> QED
    BY <1>1, <1>2, <1>3 DEF WireInv, WireTyped, IsSequence, InFlightBooked, SettledBooked,
                            InOrder, Traded

\* The nonces on the wire, and of what has come off it, are numbers.
LEMMA WireNonces ==
    ASSUME WireTyped
    PROVE  /\ \A i \in DOMAIN inFlight : inFlight[i].signalNonce \in Nat
           /\ \A i \in DOMAIN settled : settled[i].signalNonce \in Nat
  <1>1. inFlight \in Seq(Cargo) /\ settled \in Seq(Outcome)
    BY DEF WireTyped, WireOK
  <1>2. \A nonce \in Nonces : nonce \in Nat
    BY ExecutorParameters DEF EP!KeyAssumption
  <1>3. /\ \A i \in DOMAIN inFlight : inFlight[i] \in Cargo
        /\ \A i \in DOMAIN settled : settled[i] \in Outcome
    BY <1>1
  <1>4. /\ \A m \in Cargo : m.signalNonce \in Nonces
        /\ \A m \in Outcome : m.signalNonce \in Nonces
    BY DEF Cargo, Outcome
  <1> QED
    BY <1>2, <1>3, <1>4

\* What appending does to the elements of a sequence.
LEMMA AppendElements ==
    ASSUME NEW s, IsSequence(s), NEW e
    PROVE  /\ IsSequence(Append(s, e))
           /\ Len(s) \in Nat /\ DOMAIN s = 1..Len(s)
           /\ DOMAIN Append(s, e) = 1..Len(s) + 1
           /\ \A i \in DOMAIN s : i \in DOMAIN Append(s, e) /\ Append(s, e)[i] = s[i]
           /\ Append(s, e)[Len(s) + 1] = e
  <1>1. PICK S : s \in Seq(S)
    BY DEF IsSequence
  <1>2. s \in Seq(S \cup {e}) /\ e \in S \cup {e}
    BY <1>1
  <1>3. Append(s, e) \in Seq(S \cup {e})
    BY <1>2
  <1>4. /\ Len(s) \in Nat /\ DOMAIN s = 1..Len(s)
        /\ DOMAIN Append(s, e) = 1..Len(s) + 1
        /\ \A i \in 1..Len(s) : Append(s, e)[i] = s[i]
        /\ Append(s, e)[Len(s) + 1] = e
    BY <1>2
  <1> QED
    BY <1>3, <1>4 DEF IsSequence

\* Time, the owner's messages and other signals leave the wire's promises be:
\* books and outbox only grow.
LEMMA QuietStepKeepsWire ==
    ASSUME EP!BookInv, EP!BookInv', WireInv, [Next]_vars, UNCHANGED wire,
           outbox' = outbox \/ \E e : outbox' = Append(outbox, e)
    PROVE  WireInv'
  <1>1. /\ \A m : m.signalNonce \in Nat /\ Issued(m) => Issued(m)'
        /\ \A m, t : Booked(m, t) => Booked(m, t)'
        /\ \A m : Booked(m, clock) => Booked(m, clock)'
    BY BooksOnlyGrow
  <1>2. inFlight' = inFlight /\ settled' = settled /\ Traded' = Traded
    BY DEF wire, Traded
  <1>3. /\ IsSequence(outbox)'
        /\ \A n \in DOMAIN outbox : n \in DOMAIN outbox' /\ outbox'[n] = outbox[n]
    <2>1. IsSequence(outbox)
      BY DEF WireInv, WireTyped
    <2>2. CASE outbox' = outbox
      BY <2>1, <2>2 DEF IsSequence
    <2>3. ASSUME NEW e, outbox' = Append(outbox, e)
          PROVE  /\ IsSequence(outbox')
                 /\ \A n \in DOMAIN outbox : n \in DOMAIN outbox' /\ outbox'[n] = outbox[n]
      BY <2>1, <2>3, AppendElements
    <2> QED
      BY <2>2, <2>3 DEF IsSequence
  <1>4. /\ \A i \in DOMAIN inFlight : inFlight[i].signalNonce \in Nat
        /\ \A i \in DOMAIN settled : settled[i].signalNonce \in Nat
    BY WireNonces DEF WireInv
  <1>5. WireTyped'
    BY <1>2, <1>3 DEF WireInv, WireTyped, WireOK
  <1>6. InFlightBooked'
    BY <1>1, <1>2, <1>4 DEF WireInv, InFlightBooked
  <1>7. SettledBooked'
    <2>1. \A i \in DOMAIN settled' : Issued(settled[i])'
      <3>1. \A i \in DOMAIN settled : Issued(settled[i])
        BY DEF WireInv, SettledBooked
      <3>2. \A i \in DOMAIN settled : settled[i]' = settled[i]
        BY <1>2
      <3> QED
        BY <1>1, <1>2, <1>4, <3>1 DEF Issued
    <2>2. ASSUME NEW i \in Traded'
          PROVE  /\ settled'[i].transfer \in DOMAIN outbox'
                 /\ Booked(settled[i], outbox[settled[i].transfer].at)'
      <3>1. /\ settled[i].transfer \in DOMAIN outbox
            /\ Booked(settled[i], outbox[settled[i].transfer].at)
        BY <1>2, <2>2 DEF WireInv, SettledBooked
      <3>2. Booked(settled[i], outbox[settled[i].transfer].at)'
        BY <1>1, <1>2, <1>3, <3>1 DEF Booked
      <3> QED
        BY <1>2, <1>3, <3>1, <3>2
    <2> QED
      BY <2>1, <2>2 DEF SettledBooked
  <1>8. InOrder'
    BY <1>2 DEF WireInv, InOrder
  <1> QED
    BY <1>5, <1>6, <1>7, <1>8 DEF WireInv

\* A signal that is sent joins the wire as the last and latest message.
LEMMA SignalKeepsWire ==
    ASSUME EP!BookInv, EP!BookInv', WireInv, Signal
    PROVE  WireInv'
  <1>1. PICK id \in StrategyIds, nonce \in Nonces, amount \in SignalAmounts, pnl \in Pnls,
             sent \in SendResults, body \in Body, from \in E!Sender :
          /\ E!ExecuteSignal(from, id, nonce, amount, pnl, sent)
          /\ IF sent THEN Forward(id, nonce, amount, body) ELSE inFlight' = inFlight
          /\ UNCHANGED <<walletState, settled>>
    BY DEF Signal
  <1>2. /\ id \in DOMAIN strategies /\ id \in DOMAIN strategies'
        /\ strategies[id].lastSignalNonce < nonce
        /\ strategies'[id].lastSignalNonce = nonce
        /\ \E k \in DOMAIN auditLog' : /\ auditLog'[k].strategyId = id
                                      /\ auditLog'[k].signalNonce = nonce
                                      /\ auditLog'[k].executedAt = clock
        /\ clock' = clock
    <2>1. EP!ExecuteSignal(from, id, nonce, amount, pnl, sent)
      BY <1>1, SameExecutor
    <2>2. from = authorizedOrchestrator /\ id \in DOMAIN strategies /\ clock' = clock
      BY <2>1 DEF EP!ExecuteSignal
    <2>3. EP!Executes(id, nonce, amount, pnl, sent) /\ sent \in BOOLEAN
      BY <2>1, <2>2, ExecutorParameters DEF EP!Executes, EP!SendAssumption
    <2> QED
      BY <2>2, <2>3, ExecutorParameters, EP!SignalBooked
  <1>3. settled' = settled /\ outbox' = outbox /\ Traded' = Traded
    BY <1>1 DEF walletState, Traded
  <1>4. CASE ~sent
    <2>1. UNCHANGED wire
      BY <1>1, <1>3, <1>4 DEF wire
    <2> QED
      BY <1>3, <2>1, QuietStepKeepsWire DEF Next
  <1>5. CASE sent
    <2>1. PICK m : /\ inFlight' = Append(inFlight, m)
                   /\ m.strategyId = id /\ m.signalNonce = nonce
      <3>1. PICK fee \in 0..MaxFee :
              inFlight' = Append(inFlight, [strategyId |-> id, signalNonce |-> nonce,
                                            value |-> amount - fee, body |-> body])
        BY <1>1, <1>5 DEF Forward
      <3> QED
        BY <3>1
    <2>2. IsSequence(inFlight)
      BY DEF WireInv, WireTyped, WireOK, IsSequence
    <2>3. /\ Len(inFlight) \in Nat /\ DOMAIN inFlight = 1..Len(inFlight)
          /\ DOMAIN inFlight' = 1..Len(inFlight) + 1
          /\ \A i \in DOMAIN inFlight : inFlight'[i] = inFlight[i]
          /\ inFlight'[Len(inFlight) + 1] = m
      BY <2>1, <2>2, AppendElements
    <2>4. \A i \in DOMAIN inFlight' : i \in DOMAIN inFlight \/ i = Len(inFlight) + 1
      BY <2>3
    <2>5. nonce \in Nat /\ strategies[id].lastSignalNonce \in Nat
      BY <1>2, ExecutorParameters
         DEF EP!KeyAssumption, EP!BookInv, EP!TypeOK, EP!StrategyRecord
    <2>6. /\ \A n : n.signalNonce \in Nat /\ Issued(n) => Issued(n)'
          /\ \A n, t : Booked(n, t) => Booked(n, t)'
          /\ \A n : Booked(n, clock) => Booked(n, clock)'
          /\ clock \in Nat
      BY BooksOnlyGrow DEF Next
    <2>7. /\ \A i \in DOMAIN inFlight : inFlight[i].signalNonce \in Nat
          /\ \A i \in DOMAIN settled : settled[i].signalNonce \in Nat
      BY WireNonces DEF WireInv
    <2>8. WireTyped'
      BY <1>3, SignalWireOK DEF WireInv, WireTyped, IsSequence
    <2>9. InFlightBooked'
      <3>1. \A n : n.signalNonce \in Nat /\ Issued(n) /\ Booked(n, clock)
                     => Issued(n)' /\ Booked(n, clock)'
        BY <2>6
      <3>2. \A i \in DOMAIN inFlight : Issued(inFlight[i]) /\ Booked(inFlight[i], clock)
        BY DEF WireInv, InFlightBooked
      <3>3. Issued(m)'
        BY <1>2, <2>1, <2>5 DEF Issued
      <3>4. Booked(m, clock)'
        BY <1>2, <2>1, <2>6 DEF Booked
      <3> HIDE DEF WireInv
      <3>5. ASSUME NEW i \in DOMAIN inFlight'
            PROVE  (Issued(inFlight[i]) /\ Booked(inFlight[i], clock))'
        <4>1. CASE i \in DOMAIN inFlight
          <5>1. PICK n : n = inFlight[i]
            OBVIOUS
          <5>2. Issued(n)' /\ Booked(n, clock)' /\ inFlight'[i] = n
            BY <2>3, <2>7, <3>1, <3>2, <4>1, <5>1
          <5> QED
            BY <5>2 DEF Issued, Booked
        <4>2. CASE i = Len(inFlight) + 1
          BY <2>3, <3>3, <3>4, <4>2 DEF Issued, Booked
        <4> QED
          BY <2>4, <4>1, <4>2
      <3> QED
        BY <3>5 DEF InFlightBooked
    <2>10. SettledBooked'
      BY <1>3, <2>6, <2>7 DEF WireInv, SettledBooked, Issued, Booked, Traded
    <2>11. InOrder'
      <3>1. ASSUME NEW n, n.signalNonce \in Nat, Issued(n)
            PROVE  Later(n, m)
        BY <1>2, <2>1, <2>5, <3>1 DEF Issued, Later
      <3>2. \A i, j \in DOMAIN settled' : i < j => Later(settled'[i], settled'[j])
        BY <1>3 DEF WireInv, InOrder
      <3>3. \A i \in DOMAIN settled', j \in DOMAIN inFlight' : Later(settled'[i], inFlight'[j])
        BY <1>3, <2>3, <2>4, <2>7, <3>1 DEF WireInv, InOrder, SettledBooked
      <3>4. \A i, j \in DOMAIN inFlight' : i < j => Later(inFlight'[i], inFlight'[j])
        BY <2>3, <2>4, <2>7, <3>1 DEF WireInv, InOrder, InFlightBooked
      <3> QED
        BY <3>2, <3>3, <3>4 DEF InOrder, Later
    <2> QED
      BY <2>8, <2>9, <2>10, <2>11 DEF WireInv
  <1> QED
    BY <1>4, <1>5

\* What the wallet makes of the oldest message: an outcome of its own, and a
\* transfer of this instant at the end of the outbox if it trades.
LEMMA DeliverFacts ==
    ASSUME WireOK, Deliver
    PROVE  /\ inFlight # << >> /\ inFlight' = Tail(inFlight)
           /\ \E o : /\ settled' = Append(settled, o)
                    /\ o = [strategyId |-> Head(inFlight).strategyId,
                            signalNonce |-> Head(inFlight).signalNonce,
                            transfer |-> o.transfer]
                    /\ \/ o.transfer = 0 /\ outbox' = outbox
                       \/ /\ o.transfer = Len(outbox) + 1
                          /\ \E e : outbox' = Append(outbox, e) /\ e.at = clock
  <1> DEFINE Out(t) == [strategyId |-> Head(inFlight).strategyId,
                        signalNonce |-> Head(inFlight).signalNonce, transfer |-> t]
  <1>1. PICK m \in {inFlight[i] : i \in DOMAIN inFlight} : Trade(m) \/ EmptyBody(m) \/ Bounce(m)
    BY DEF Deliver
  <1>2. inFlight # << >>
    BY <1>1 DEF Trade, EmptyBody, Bounce, Arrived
  <1>3. CASE Trade(m)
    <2>1. inFlight' = Tail(inFlight) /\ settled' = Append(settled, Out(Len(outbox) + 1))
      BY <1>3 DEF Trade, Settle
    <2>2. W!SendExact("agent", m.body.to, m.body.amount, 0, m.value)
      BY <1>3 DEF Trade, W!AgentExecute
    <2>3. PICK gas, fwd :
            outbox' = Append(outbox, [kind |-> "agent", to |-> m.body.to, amount |-> m.body.amount,
                                      nonce |-> 0, at |-> clock,
                                      paid |-> balance + m.value - gas >= m.body.amount + fwd])
      BY <2>2 DEF W!SendExact
    <2>4. \E e : outbox' = Append(outbox, e) /\ e.at = clock
      BY <2>3
    <2> QED
      BY <1>2, <2>1, <2>4
  <1>4. CASE EmptyBody(m) \/ Bounce(m)
    <2>1. inFlight' = Tail(inFlight) /\ settled' = Append(settled, Out(0)) /\ outbox' = outbox
      BY <1>4 DEF EmptyBody, Bounce, Settle, W!Deposit, W!KeepValue, walletState
    <2> QED
      BY <1>2, <2>1
  <1> QED
    BY <1>1, <1>3, <1>4

\* A message that leaves the wire keeps its place in the order, and what is
\* paid for it was booked while it was on its way.
LEMMA DeliverKeepsWire ==
    ASSUME EP!BookInv, EP!BookInv', WireInv, Deliver
    PROVE  WireInv'
  <1>1. UNCHANGED <<strategies, auditLog, clock>>
    BY DeliverKeepsExecutor DEF executorState
  <1>2. /\ inFlight # << >> /\ inFlight' = Tail(inFlight)
        /\ inFlight \in Seq(Cargo) /\ settled \in Seq(Outcome)
        /\ IsSequence(settled) /\ IsSequence(outbox)
    BY DeliverFacts DEF WireInv, WireTyped, WireOK, IsSequence
  <1> DEFINE head == Head(inFlight)
  <1>3. PICK o : /\ settled' = Append(settled, o)
                 /\ o = [strategyId |-> head.strategyId, signalNonce |-> head.signalNonce,
                         transfer |-> o.transfer]
                 /\ \/ o.transfer = 0 /\ outbox' = outbox
                    \/ /\ o.transfer = Len(outbox) + 1
                       /\ \E e : outbox' = Append(outbox, e) /\ e.at = clock
    BY DeliverFacts DEF WireInv, WireTyped
  <1>4. /\ head \in Cargo /\ head = inFlight[1] /\ 1 \in DOMAIN inFlight
        /\ \A i \in DOMAIN inFlight' : /\ i + 1 \in DOMAIN inFlight /\ inFlight'[i] = inFlight[i + 1]
                                      /\ i \in Nat /\ 1 < i + 1
    BY <1>2
  <1> HIDE DEF head
  <1>5. /\ o.strategyId = head.strategyId /\ o.signalNonce = head.signalNonce
        /\ o.strategyId \in StrategyIds /\ o.signalNonce \in Nonces
    BY <1>3, <1>4 DEF Cargo
  <1>6. /\ Len(settled) \in Nat /\ DOMAIN settled = 1..Len(settled)
        /\ DOMAIN settled' = 1..Len(settled) + 1
        /\ \A i \in DOMAIN settled : settled'[i] = settled[i]
        /\ settled'[Len(settled) + 1] = o
    BY <1>2, <1>3, AppendElements
  <1> DEFINE Kept  == /\ IsSequence(outbox') /\ DOMAIN outbox \subseteq DOMAIN outbox'
                      /\ \A n \in DOMAIN outbox : outbox'[n] = outbox[n]
             Added == /\ o.transfer \in DOMAIN outbox'
                      /\ outbox'[o.transfer].at = clock
  <1>7. Kept /\ o.transfer \in Nat /\ (o.transfer > 0 => Added)
    <2>1. Len(outbox) \in Nat /\ DOMAIN outbox = 1..Len(outbox)
      BY <1>2, AppendElements
    <2>2. CASE o.transfer = 0 /\ outbox' = outbox
      BY <1>2, <2>1, <2>2 DEF IsSequence
    <2>3. ASSUME NEW e, outbox' = Append(outbox, e), e.at = clock, o.transfer = Len(outbox) + 1
          PROVE  Kept /\ o.transfer \in Nat /\ Added
      BY <1>2, <2>1, <2>3, AppendElements
    <2> QED
      BY <1>3, <2>2, <2>3
  <1>8. WireTyped'
    <2>1. inFlight' \in Seq(Cargo)
      BY <1>2
    <2>2. o \in Outcome
      BY <1>3, <1>5, <1>7 DEF Outcome
    <2>3. settled' \in Seq(Outcome)
      BY <1>2, <1>3, <2>2
    <2> QED
      BY <1>7, <2>1, <2>3 DEF WireTyped, WireOK, IsSequence
  <1>9. InFlightBooked'
    BY <1>1, <1>4 DEF WireInv, InFlightBooked, Issued, Booked
  <1>10. Issued(head) /\ Booked(head, clock)
    BY <1>4 DEF WireInv, InFlightBooked
  <1>11. \A i \in DOMAIN settled' : i \in DOMAIN settled \/ i = Len(settled) + 1
    BY <1>6
  <1>12. SettledBooked'
    <2>1. ASSUME NEW i \in DOMAIN settled'
          PROVE  Issued(settled[i])'
      <3>1. CASE i \in DOMAIN settled
        BY <1>1, <1>6, <3>1 DEF WireInv, SettledBooked, Issued
      <3>2. CASE i = Len(settled) + 1
        BY <1>1, <1>5, <1>6, <1>10, <3>2 DEF Issued
      <3> QED
        BY <1>11, <3>1, <3>2
    <2>2. ASSUME NEW i \in Traded'
          PROVE  (/\ settled[i].transfer \in DOMAIN outbox
                  /\ Booked(settled[i], outbox[settled[i].transfer].at))'
      <3>1. CASE i \in DOMAIN settled
        <4>1. settled'[i] = settled[i] /\ i \in Traded
          BY <1>6, <2>2, <3>1 DEF Traded
        <4>2. /\ settled[i].transfer \in DOMAIN outbox
              /\ Booked(settled[i], outbox[settled[i].transfer].at)
          BY <4>1 DEF WireInv, SettledBooked
        <4> QED
          BY <1>1, <1>7, <4>1, <4>2 DEF Booked
      <3>2. CASE i = Len(settled) + 1
        <4>1. settled'[i] = o /\ Added
          BY <1>6, <1>7, <2>2, <3>2 DEF Traded
        <4> QED
          BY <1>1, <1>5, <1>10, <4>1 DEF Booked
      <3> QED
        BY <1>11, <2>2, <3>1, <3>2 DEF Traded
    <2> QED
      BY <2>1, <2>2 DEF SettledBooked
  <1>13. InOrder'
    <2>1. \A i, j \in DOMAIN settled' : i < j => Later(settled'[i], settled'[j])
      <3>1. ASSUME NEW i \in DOMAIN settled'
            PROVE  \A j \in DOMAIN settled' : j < i => Later(settled'[j], settled'[i])
        <4>1. CASE i \in DOMAIN settled
          BY <1>6, <4>1 DEF WireInv, InOrder
        <4>2. CASE i = Len(settled) + 1
          BY <1>4, <1>5, <1>6, <1>11, <4>2 DEF WireInv, InOrder, Later
        <4> QED
          BY <1>11, <4>1, <4>2
      <3> QED
        BY <3>1
    <2>2. ASSUME NEW i \in DOMAIN settled', NEW j \in DOMAIN inFlight'
          PROVE  Later(settled'[i], inFlight'[j])
      <3>1. CASE i \in DOMAIN settled
        BY <1>4, <1>6, <3>1 DEF WireInv, InOrder
      <3>2. CASE i = Len(settled) + 1
        <4>1. Later(head, inFlight[j + 1])
          BY <1>4 DEF WireInv, InOrder
        <4> QED
          BY <1>4, <1>5, <1>6, <3>2, <4>1 DEF Later
      <3> QED
        BY <1>11, <3>1, <3>2
    <2>3. \A i, j \in DOMAIN inFlight' : i < j => Later(inFlight'[i], inFlight'[j])
      BY <1>4 DEF WireInv, InOrder
    <2> QED
      BY <2>1, <2>2, <2>3 DEF InOrder, Later
  <1> QED
    BY <1>8, <1>9, <1>12, <1>13 DEF WireInv

\* The wallet's history of sends only grows at its end.
LEMMA WalletAppends ==
    ASSUME NEW from, NEW v, W!Message(from, v)
    PROVE  outbox' = outbox \/ \E e : outbox' = Append(outbox, e)
  <1> USE DEF W!KeepValue, W!SendExact, W!SendWithRemaining
  <1>1. CASE W!Deposit(v)
    BY <1>1 DEF W!Deposit
  <1>2. ASSUME NEW to, NEW amount, W!WithdrawRequest(from, v, to, amount)
        PROVE  outbox' = outbox \/ \E e : outbox' = Append(outbox, e)
    BY <1>2 DEF W!WithdrawRequest
  <1>3. ASSUME NEW nonce, W!ClaimWithdrawal(from, v, nonce)
        PROVE  outbox' = outbox \/ \E e : outbox' = Append(outbox, e)
    BY <1>3 DEF W!ClaimWithdrawal
  <1>4. CASE W!EmergencyDrain(from, v)
    BY <1>4 DEF W!EmergencyDrain
  <1>5. ASSUME NEW to, NEW amount, W!AgentExecute(from, v, to, amount)
        PROVE  outbox' = outbox \/ \E e : outbox' = Append(outbox, e)
    BY <1>5 DEF W!AgentExecute
  <1>6. CASE \/ \E new \in LimitChoices : W!UpdateLimits(from, v, new)
             \/ \E dex \in Venues, allowed \in BOOLEAN : W!SetAllowedDex(from, v, dex, allowed)
             \/ \E new \in Agents : W!SetAgent(from, v, new)
             \/ \E paused \in BOOLEAN : W!SetPaused(from, v, paused)
             \/ \E new \in Safes : W!SetSafeAddress(from, v, new)
    BY <1>6 DEF W!UpdateLimits, W!SetAllowedDex, W!SetAgent, W!SetPaused, W!SetSafeAddress
  <1> QED
    BY <1>1, <1>2, <1>3, <1>4, <1>5, <1>6 DEF W!Message, W!OwnerMessage

LEMMA NextWireInv == EP!BookInv /\ EP!BookInv' /\ WireInv /\ [Next]_vars => WireInv'
  <1> SUFFICES ASSUME EP!BookInv, EP!BookInv', WireInv, [Next]_vars
               PROVE  WireInv'
    OBVIOUS
  <1>1. CASE Signal
    BY <1>1, SignalKeepsWire
  <1>2. CASE Deliver
    BY <1>2, DeliverKeepsWire
  <1>3. CASE UseWallet
    BY <1>3, WalletAppends, QuietStepKeepsWire DEF UseWallet
  <1>4. CASE Tick \/ ManageExecutor \/ UNCHANGED vars
    <2>1. UNCHANGED wire /\ outbox' = outbox
      BY <1>4 DEF Tick, W!Tick, ManageExecutor, walletState, vars
    <2> QED
      BY <2>1, QuietStepKeepsWire
  <1> QED
    BY <1>1, <1>2, <1>3, <1>4 DEF Next

LEMMA WireInvHolds == Spec => []WireInv
  BY BooksHold, InitWireInv, NextWireInv, PTL DEF Spec

\* Whatever the wallet paid for a signal stands in the audit log, with an
\* execution no later than the payment (strategy-executor.tact:4-6).
THEOREM TradesAreAuditedHolds == Spec => []TradesAreAudited
  <1>1. WireInv => TradesAreAudited
    BY DEF WireInv, SettledBooked, Booked, TradesAreAudited
  <1> QED
    BY <1>1, WireInvHolds, PTL

\* No signal is traded twice and none is traded out of order: nonces are used
\* once, the messages travel in order, and settling keeps the order.
THEOREM TradesInSignalOrderHolds == Spec => []TradesInSignalOrder
  <1>1. WireInv => TradesInSignalOrder
    BY DEF WireInv, InOrder, Later, TradesInSignalOrder, Traded
  <1> QED
    BY <1>1, WireInvHolds, PTL

-----------------------------------------------------------------------------
(* The limit.                                                              *)

\* The trades of a strategy are no more than its executions: each one has an
\* entry in the audit log, two of them have different nonces and so different
\* entries, and the entries are numbered 1..executionCount.
LEMMA TradesWithinCount ==
    ASSUME EP!BookInv, WireInv, NEW id \in DOMAIN strategies
    PROVE  /\ Cardinality({i \in Traded : settled[i].strategyId = id}) \in Nat
           /\ Cardinality({i \in Traded : settled[i].strategyId = id})
                <= strategies[id].executionCount
  <1> DEFINE T     == {i \in Traded : settled[i].strategyId = id}
             count == strategies[id].executionCount
             seqno == [i \in T |-> EP!SeqnoOf(id, settled[i].signalNonce)]
  <1>1. count \in Nat /\ id \in StrategyIds
    BY DEF EP!BookInv, EP!TypeOK, EP!StrategyRecord
  <1>2. ASSUME NEW i \in T
        PROVE  /\ seqno[i] \in 1..count
               /\ EP!Entry(id, seqno[i]).signalNonce = settled[i].signalNonce
    <2>1. PICK k \in DOMAIN auditLog : /\ auditLog[k].strategyId = id
                                        /\ auditLog[k].signalNonce = settled[i].signalNonce
      BY DEF WireInv, SettledBooked, Booked
    <2>2. EP!NonceKey(id, settled[i].signalNonce) \in DOMAIN nonceToSeqno
      BY <2>1 DEF EP!BookInv, EP!IndexAgrees, EP!EntriesIndexed
    <2>3. settled[i].signalNonce \in Nonces
      BY <2>1 DEF EP!BookInv, EP!TypeOK, EP!AuditEntry
    <2> QED
      BY <1>1, <2>2, <2>3 DEF EP!BookInv, EP!IndexAgrees, EP!IndexSound
  <1>3. ASSUME NEW i \in T, NEW j \in T, seqno[i] = seqno[j]
        PROVE  i = j
    <2>1. settled[i].signalNonce = settled[j].signalNonce
      BY <1>2, <1>3
    <2>2. /\ i \in DOMAIN settled /\ j \in DOMAIN settled
          /\ settled[i].strategyId = settled[j].strategyId
      BY DEF Traded
    <2>3. settled[i].signalNonce \in Nat /\ i \in Nat /\ j \in Nat
      <3>1. settled \in Seq(Outcome)
        BY DEF WireInv, WireTyped
      <3> QED
        BY <2>2, <3>1, WireNonces DEF WireInv
    <2>4. ~(i < j) /\ ~(j < i)
      BY <2>1, <2>2, <2>3 DEF WireInv, InOrder, Later
    <2> QED
      BY <2>3, <2>4
  <1> HIDE DEF T, count
  <1>4. seqno \in Injection(T, 1..count)
    BY <1>2, <1>3 DEF Injection, IsInjective
  <1>5. IsFiniteSet(1..count) /\ Cardinality(1..count) = count
    BY <1>1, FS_Interval
  <1>6. IsFiniteSet(T) /\ Cardinality(T) <= Cardinality(1..count)
    BY <1>4, <1>5, FS_Injection
  <1>7. Cardinality(T) \in Nat
    BY <1>6, FS_CardinalityType
  <1> QED
    BY <1>5, <1>6, <1>7 DEF T, count

\* The wallet pays for no more signals of a strategy than maxExecutions
\* allows, through halts, restarts, bounces and new orchestrators.
THEOREM TradesWithinExecutionsHolds == Spec => []TradesWithinExecutions
  <1>1. ASSUME EP!BookInv, EP!CompletionIsExact, WireInv
        PROVE  TradesWithinExecutions
    <2> SUFFICES ASSUME NEW id \in DOMAIN strategies, strategies[id].terms.maxExecutions > 0
                 PROVE  Cardinality({i \in Traded : settled[i].strategyId = id})
                           <= strategies[id].terms.maxExecutions
      BY DEF TradesWithinExecutions
    <2> DEFINE T == {i \in Traded : settled[i].strategyId = id}
    <2>1. strategies[id].executionCount <= strategies[id].terms.maxExecutions
      BY <1>1 DEF EP!CompletionIsExact
    <2>2. Cardinality(T) \in Nat /\ Cardinality(T) <= strategies[id].executionCount
      BY <1>1, TradesWithinCount
    <2>3. strategies[id].executionCount \in Nat /\ strategies[id].terms.maxExecutions \in Nat
      BY <1>1, ExecutorParameters
         DEF EP!BookInv, EP!TypeOK, EP!StrategyRecord, EP!TermsAssumption, EP!TermsType
    <2> QED
      BY <2>1, <2>2, <2>3
  <1> QED
    BY <1>1, BooksHold, WireInvHolds, PTL
=============================================================================
