CONSTANTS
  w1 = w1
  w2 = w2
  k1 = k1
  k2 = k2
  Wallets <- TwoWallets
  Roots <- TwoRoots
  Foreign = {}
  Paths = {}
  Signers = {}
  Threshold = 2
  MaxVersion = 2
  MaxKeys = 4
  MaxShared = 4
  MaxCalls = 2
  MaxRequests = 1
SPECIFICATION CustodySpec
INVARIANTS WalletKeysAreShared
CHECK_DEADLOCK FALSE
