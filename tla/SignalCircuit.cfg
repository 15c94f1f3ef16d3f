SPECIFICATION CircuitFairSpec
CONSTANTS
  Calls = {c1, c2, c3}
  Threshold = 3
  Timeout = 2
  Unset = Unset
INVARIANT TripsAtThreshold
PROPERTIES
  NoEarlyProbe
  Recovers
