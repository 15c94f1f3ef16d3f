SPECIFICATION FairSpec
CONSTANTS
  Symbols <- MCSymbols
  Intents <- MCIntents
  Size = 2
  Partial = TRUE
  MaxOrders = 2
  MaxIntents = 2
  MaxRuns = 2
  MaxFaults = 1
  None = None
INVARIANTS
  RowsMirrorBroker
  FillsAccounted
  OrdersHaveFills
  ThreeStrikes
PROPERTY StopIsHonoured
CHECK_DEADLOCK FALSE
