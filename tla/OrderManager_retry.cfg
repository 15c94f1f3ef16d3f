SPECIFICATION Spec
CONSTANTS
  Tasks = {t1, t2}
  Requests = {r1}
  OrderIds = {o1, o2}
  Quantity <- TwoLots
  Buys = {r1}
  FillSizes = {2}
  MaxFills = 1
  None = None
  Concurrent = FALSE
  Timeouts = TRUE
  Overfill = FALSE
  Adapters = {"paper", "ccxt"}
SYMMETRY Symmetry
INVARIANT OneOrderPerRequest
CHECK_DEADLOCK FALSE
