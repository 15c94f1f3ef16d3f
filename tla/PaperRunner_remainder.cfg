SPECIFICATION Spec
CONSTANTS
  Symbols <- MCSymbols
  Intents <- MCIntents
  Size = 2
  Partial = TRUE
  MaxOrders = 2
  MaxIntents = 2
  MaxRuns = 1
  MaxFaults = 0
  None = None
INVARIANT EveryFillStored
CHECK_DEADLOCK FALSE
