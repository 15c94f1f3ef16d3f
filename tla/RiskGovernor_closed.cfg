SPECIFICATION GovernorSpec
CONSTANTS
  Profiles <- ClosedPrograms
  Initial = 20
  Slots = {s1}
  Risks = {1, 3}
  Results <- MCResults
  MaxMoney = 40
  MaxDays = 2
  Absent = Absent
INVARIANT GateHoldsForAll
CHECK_DEADLOCK FALSE
