SPECIFICATION Spec
CONSTANTS
  OrderIds = {"entry"}
  Quantity <- MCQuantity
  Fills <- EntryFills
  Identified <- EntryIdentified
  Accounts = {"acc"}
  InitialBalance = 8
  Futures = FALSE
  StaleUpdates = TRUE
  MaxEvents = 5
  None = None
INVARIANTS
  RefusedStaysRefused
  EntriesExplainBalance
PROPERTY NoBackwardStatus
CHECK_DEADLOCK FALSE
