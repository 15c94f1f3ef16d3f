SPECIFICATION FairSpec
CONSTANTS
  Tasks = {t1, t2}
  Requests = {r1}
  OrderIds = {o1, o2, o3}
  Quantity <- TwoLots
  Buys = {r1}
  FillSizes = {1, 2}
  MaxFills = 2
  None = None
  Concurrent = FALSE
  Timeouts = FALSE
  Overfill = FALSE
  Adapters = {"paper", "ccxt"}
INVARIANTS OneOrderPerRequest FilledMeansFilled
PROPERTY ReconcileSeesFills
CHECK_DEADLOCK FALSE
