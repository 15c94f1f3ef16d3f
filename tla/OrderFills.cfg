SPECIFICATION Spec
CONSTANTS
  OrderIds = {"entry", "exit"}
  Quantity <- MCQuantity
  Fills <- BothFills
  Identified <- BothIdentified
  Accounts = {"acc"}
  InitialBalance = 4
  Futures = FALSE
  StaleUpdates = TRUE
  MaxEvents = 4
  None = None
INVARIANTS
  FilledIsSumOfFills NoOverfill CountedOnce EventsMatchFills BalanceExplained
CHECK_DEADLOCK FALSE
