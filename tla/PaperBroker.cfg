SPECIFICATION FairSpec
CONSTANTS
  Symbols = {"A", "B"}
  Setups <- BothSetups
  Prices = {1, 2, 3}
  StartPrice = 2
  Penetration = 0
  Flatteners = {f1}
  MaxSubmits = 2
  MaxOrders = 6
  MaxSession = 2
INVARIANTS
  TypeOK
  OneLegTrades
  Conserved
PROPERTIES
  FlattenLeavesFlat
  FinalIsFinal
  RemainderIsFilled
CHECK_DEADLOCK FALSE
