CONSTANTS
  trader = trader
  hedger = hedger
  Agents <- TwoAgents
  Limits <- TwoLimits
  Totals <- SmallPools
  Amounts <- SomeAmount
  Results <- WinOrLose
  MaxPools = 2
  MaxOpen = 3
  MaxTotal = 9
  MaxPerformance = 1
SPECIFICATION Spec
INVARIANTS TypeOK BooksBalance PerAgentLimit
SYMMETRY AnyAgent
