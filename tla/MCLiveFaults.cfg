\* Any stage may raise in the first three ticks, one invocation dies, and the route may
\* lose the stops after the first at any time.
SPECIFICATION LiveFairSpec
CONSTANTS
  NoCrossing = NoCrossing
  NoAvl = NoAvl
  NoRow = NoRow
  Points = {50, 200, 300}
  StopAt <- Detour
  Distance <- RoadDistance
  Crossing <- RoadCrossing
  Departure <- Timetabled
  MaxStop = 4
  Radius = 70
  Scale = 100000
  MaxSegment = 2000
  SavedMatchesLimit = 2
  ShortJourney = 3
  EstimateTimeLimit = 180
  FirstStopWindow = 300
  EarlyLimit <- TwoHoursEarly
  HistoryWindow = 7200
  AvlTimes = {0, 60, 120, 320, 340, 7500}
  RouteLengths = {1, 4}
  MaxLateness = 0
  MaxTicks = 8
  MaxFaultTicks = 3
  Failing = {"delivered", "matching", "setting", "marking", "saving"}
  MaxBatchAvls = 1
  MaxCrashes = 1
INVARIANTS SuccessIsSaved RowsFollowHistory WithdrawnRowsWiped OutcomeAgrees
PROPERTIES BatchDealtWith
CHECK_DEADLOCK FALSE
