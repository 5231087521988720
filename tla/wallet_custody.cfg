CONSTANTS
  owner = owner
  bot = bot
  venue = venue
  Address <- MCAddress
  Owner <- owner
  Agents <- OneAgent
  Safes <- TwoSafes
  Venues <- NoVenue
  Payees <- OnePayee
  Reserve = 2
  Day = 3
  MaxFee = 1
  Amounts = {1, 4}
  Values = {1, 3}
  LimitChoices <- CustodyLimits
  MaxTimeLock = 2
  MaxClock = 3
  MaxOutbox = 2
  MaxBalance = 7
  MaxNonce = 2
SPECIFICATION Spec
PROPERTIES TimeLockedQueue PauseStopsOutflow 
CHECK_DEADLOCK FALSE
