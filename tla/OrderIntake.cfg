SPECIFICATION Spec
CONSTANTS
  Procs = {p1, p2, p3}
  Clients = {c1, c2}
  OrderIds = {o1, o2, o3, o4}
  None = None
  Refused = {c2}
  StoreFaults = TRUE
SYMMETRY Symmetry
INVARIANTS StableReply SentUnderItsName
PROPERTY ImplementsPromise
CHECK_DEADLOCK FALSE
