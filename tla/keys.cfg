CONSTANTS
  hot = hot
  ton = ton
  m44 = m44
  alice = alice
  bob = bob
  Roots <- TwoRoots
  Foreign <- ForMPC
  Paths <- OnePath
  Signers <- TwoSigners
  Threshold = 2
  MaxVersion = 3
  MaxKeys = 3
  MaxShared = 1
  MaxCalls = 2
  MaxRequests = 1
SPECIFICATION Spec
INVARIANTS OneActiveVersion AcceptedKeysCanSign QuorumIsVerified
PROPERTIES ReadyStaysReady
SYMMETRY AnySigner
CHECK_DEADLOCK FALSE
