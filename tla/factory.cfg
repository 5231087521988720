CONSTANTS
  owner = owner
  ann = ann
  bob = bob
  carl = carl
  Address <- MCAddress
  Owner <- owner
  Users <- MCUsers
  Admins <- MCAdmins
  Treasuries <- MCTreasuries
  Slice <- MCSlice
  KeyWidth = 3
  AgentMultiple <- MCMultiple
  ApproverMultiple <- MCMultiple
  MaxFee = 1
  Values = {2}
  Fees = {1, 2}
  Caps = {1, 2}
  Bps = {0}
  Thresholds = {1, 2, 3}
  MaxAgents = 2
  MaxProposals = 2
  MaxBalance = 2
SPECIFICATION Spec
INVARIANTS CountersCoverRegistry FeeReachesTreasury
PROPERTIES UpgradesAreVoted
CHECK_DEADLOCK FALSE
