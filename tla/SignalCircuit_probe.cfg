SPECIFICATION CircuitSpec
CONSTANTS
  Calls = {c1, c2}
  Threshold = 2
  Timeout = 2
  Unset = Unset
INVARIANT OneProbe
