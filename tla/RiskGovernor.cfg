SPECIFICATION GovernorSpec
CONSTANTS
  Profiles <- Programs
  Initial = 20
  Slots = {s1}
  Risks = {1, 3}
  Results <- FewResults
  MaxMoney = 24
  MaxDays = 2
  Absent = Absent
INVARIANT GateHolds
PROPERTY FloorNeverFalls
CHECK_DEADLOCK FALSE
