SPECIFICATION Spec
CONSTANTS
  Symbols = {"A", "B"}
  Setups <- BracketsInParts
  Prices = {1, 2, 3}
  StartPrice = 2
  Penetration = 0
  Flatteners = {}
  MaxSubmits = 1
  MaxOrders = 7
  MaxSession = 2
INVARIANT LegsExclude
CHECK_DEADLOCK FALSE
