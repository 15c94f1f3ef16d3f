SPECIFICATION Spec
CONSTANTS
  Symbols <- MCSymbols
  Intents <- MCIntents
  Size = 1
  Partial = FALSE
  MaxOrders = 1
  MaxIntents = 1
  MaxRuns = 1
  MaxFaults = 3
  None = None
INVARIANTS
  SingleFailureSurvives
  ThirdFailureEnds
CHECK_DEADLOCK FALSE
