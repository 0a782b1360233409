\* The AVLs of the day after the last date are neither exported nor converted.
SPECIFICATION FairSpec
CONSTANTS
  LastDay = 2
  Requests <- TwoDates
  Shards = {7}
  MaxTasks = 1
  MaxSessions = 1
  MaxFaults = 0
PROPERTY
  NextDayReady
CHECK_DEADLOCK FALSE
