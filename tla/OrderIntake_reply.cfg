SPECIFICATION Spec
CONSTANTS
  Procs = {p1}
  Clients = {c1}
  OrderIds = {o1, o2, o3}
  None = None
  Refused = {}
  StoreFaults = TRUE
INVARIANT StableAfterFaults
CHECK_DEADLOCK FALSE
