SPECIFICATION Spec
CONSTANTS
  Tasks = {t1, t2}
  Requests = {r1, r2}
  OrderIds = {o1, o2}
  Quantity <- TwoLots
  Buys = {r1}
  FillSizes = {1, 2}
  MaxFills = 2
  None = None
  Concurrent = FALSE
  Timeouts = TRUE
  Overfill = TRUE
  Adapters = {"paper", "ccxt", "ibkr", "mt5"}
SYMMETRY Symmetry
INVARIANTS FilledWithinQuantity FilledIsBacked PositionExplained KilledAreClosed
CHECK_DEADLOCK FALSE
