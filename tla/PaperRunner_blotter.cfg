SPECIFICATION Spec
CONSTANTS
  Symbols <- MCSymbols
  Intents <- MCIntents
  Size = 1
  Partial = FALSE
  MaxOrders = 2
  MaxIntents = 2
  MaxRuns = 2
  MaxFaults = 0
  None = None
INVARIANT BlotterComplete
CHECK_DEADLOCK FALSE
