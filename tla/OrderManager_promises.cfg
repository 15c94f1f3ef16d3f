SPECIFICATION Spec
CONSTANTS
  Tasks = {t1, t2}
  Requests = {r1, r2}
  OrderIds = {o1, o2}
  Quantity <- TwoLots
  Buys = {r1}
  FillSizes = {2}
  MaxFills = 1
  None = None
  Concurrent = FALSE
  Timeouts = FALSE
  Overfill = FALSE
  Adapters = {"ibkr"}
INVARIANT FilledMeansFilled
PROPERTY KillAllCancelsAll
CHECK_DEADLOCK FALSE
