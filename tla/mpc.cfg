CONSTANTS
  pay = pay
  swap = swap
  invoice = invoice
  receipt = receipt
  none = none
  TotalShares = 3
  Threshold = 2
  Requests <- TwoRequests
  Messages <- TwoMessages
  NoMessage <- none
  MaxGenerations = 2
  MaxNonces = 8
SPECIFICATION Spec
INVARIANTS SignsOnce SignaturesVerify
SYMMETRY AnyName
