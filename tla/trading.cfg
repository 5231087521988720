CONSTANTS
  owner = owner
  ai = ai
  exec = exec
  bot = bot
  dex = dex
  none = none
  ExecutorOwner <- owner
  Orchestrators <- OneOrchestrator
  Others <- NoOne
  StrategyIds = {1}
  Nonces = {1, 2}
  NonceLimit = 3
  SeqnoLimit = 3
  SignalAmounts = {1}
  Pnls = {1}
  Terms <- TwoTerms
  SendResults = {TRUE, FALSE}
  MaxReports = 0
  Address <- MCAddress
  Owner <- owner
  Agents <- TwoAgents
  Safes <- OneSafe
  Venues <- OneVenue
  Payees <- NoOne
  Reserve = 1
  Day = 1
  MaxFee = 0
  Amounts = {1, 2}
  Values = {1}
  LimitChoices <- OneLimit
  MaxOutbox = 2
  MaxBalance = 3
  MaxNonce = 0
  MaxTimeLock = 0
  MaxClock = 1
  Executor <- exec
  NoBody <- none
SPECIFICATION Spec
INVARIANTS TradesAreAudited TradesInSignalOrder TradesWithinExecutions
PROPERTIES HaltDrains
CHECK_DEADLOCK FALSE
