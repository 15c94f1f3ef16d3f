SPECIFICATION Spec
CONSTANTS
  p1 = p1  p2 = p2  t1 = t1  t2 = t2
  c1 = c1  c2 = c2  o1 = o1  o2 = o2  o3 = o3
  Procs = {p1, p2}
  Tasks = {t1, t2}
  Home <- OneProcess
  Requests <- OneOrder
  OrderIds = {o1, o2, o3}
  Quantity <- Lots
  Fills <- BuyFills
  InitialBalance = 10
  MaxDeliveries = 2
  MaxStarts = 1
  None = None
INVARIANTS
  FillsAreIdempotent
  BalanceKept
  NoOverfill
CHECK_DEADLOCK FALSE
