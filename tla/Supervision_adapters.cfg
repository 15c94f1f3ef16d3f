SPECIFICATION Spec
CONSTANTS
  o1 = o1
  o2 = o2
  es = es
  Instruments = {es}
  Orders = {o1}
  InstrumentOf <- MCInstrumentOf
  LotsOf <- MCLotsOf
  MaxCash = 0
  \* or {"ibkr"}
  Adapters = {"ccxt"}
  Loops = {}
  Callers = {}
  Tolerance = 1
  Kills = {k1}
  None = None
INVARIANT KillLeavesFlat
CHECK_DEADLOCK FALSE
