SPECIFICATION FairSpec
CONSTANTS
  o1 = o1
  o2 = o2
  es = es
  Instruments = {es}
  Orders = {o1, o2}
  InstrumentOf <- MCInstrumentOf
  LotsOf <- MCLotsOf
  MaxCash = 0
  Adapters = {"paper", "mt5"}
  Loops = {l1, l2}
  Callers = {}
  Tolerance = 1
  Kills = {}
  None = None
INVARIANT OneLoop
PROPERTY LastingMismatchBlocks
CHECK_DEADLOCK FALSE
