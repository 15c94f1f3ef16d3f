SPECIFICATION GovernorSpec
CONSTANTS
  Profiles <- PausePrograms
  Initial = 20
  Slots = {s1, s2}
  Risks = {1, 3}
  Results <- MCResults
  MaxMoney = 30
  MaxDays = 2
  Absent = Absent
INVARIANT GateHolds
PROPERTY FailedIsFinal
CHECK_DEADLOCK FALSE
