SPECIFICATION Spec
CONSTANTS
  Symbols = {"A", "B"}
  Setups <- Yielding
  Prices = {1, 2, 3}
  StartPrice = 2
  Penetration = 0
  Flatteners = {f1, f2}
  MaxSubmits = 1
  MaxOrders = 7
  MaxSession = 2
INVARIANT CloseNeverReverses
CHECK_DEADLOCK FALSE
