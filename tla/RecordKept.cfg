SPECIFICATION Spec
CONSTANTS
  MaxDay = 8
  MaxRun = 2
  MaxLine = 2
  MaxStuck = 1
  LegacyDay <- ThreeDaysAgo
CHECK_DEADLOCK FALSE
INVARIANT
  RecordKept
