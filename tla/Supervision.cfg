SPECIFICATION Spec
CONSTANTS
  o1 = o1
  o2 = o2
  es = es
  Instruments = {es}
  Orders = {o1, o2}
  InstrumentOf <- MCInstrumentOf
  LotsOf <- MCLotsOf
  MaxCash = 3
  Adapters = {"paper", "mt5"}
  Loops = {}
  Callers = {c1}
  Tolerance = 1
  Kills = {k1, k2}
  None = None
INVARIANTS
  BlockIsEarned
  KillLeavesFlat
  KillOnlyCloses
CONSTRAINT PairsMeet
CHECK_DEADLOCK FALSE
