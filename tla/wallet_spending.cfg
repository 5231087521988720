CONSTANTS
  owner = owner
  bot = bot
  venue = venue
  Address <- MCAddress
  Owner <- owner
  Agents <- OneAgent
  Safes <- OneAgent
  Venues <- TwoVenues
  Payees <- OnePayee
  Reserve = 3
  Day = 2
  MaxFee = 1
  Amounts = {1, 2}
  Values = {3}
  LimitChoices <- BudgetLimits
  MaxTimeLock = 0
  MaxClock = 4
  MaxOutbox = 3
  MaxBalance = 7
  MaxNonce = 0
SPECIFICATION Spec
INVARIANTS AcceptedTransfersArePaid TwoWindowsBound
PROPERTIES ReserveFloor WhitelistStaysClosed
CHECK_DEADLOCK FALSE
