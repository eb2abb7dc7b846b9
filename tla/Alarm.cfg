SPECIFICATION AlarmFairSpec
CONSTANTS
  Seconds <- SomeSeconds
  MaxAlarms = 3
  StartTime = 2
  Horizon = 5
INVARIANTS
  AlarmInv
  RingsInTurn
PROPERTIES
  AlarmsRing
CHECK_DEADLOCK FALSE
