CONSTANTS
  owner = owner
  ai = ai
  stranger = stranger
  Owner <- owner
  Orchestrators <- OneOrchestrator
  Others <- NoOthers
  StrategyIds = {1, 2}
  Nonces = {1, 2}
  NonceLimit = 3
  SeqnoLimit = 4
  Amounts = {1}
  Pnls <- SomePnls
  Terms <- TwoTerms
  SendResults = {TRUE}
  MaxReports = 2
  MaxClock = 1
SPECIFICATION Spec
INVARIANTS AuditComplete OutcomesBelongToTheirSignal CompletionIsExact ProjectedLossBounded
PROPERTIES AuditAppendOnly FinishedStaysFinished
CHECK_DEADLOCK FALSE
