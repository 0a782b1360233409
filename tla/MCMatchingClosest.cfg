SPECIFICATION EvidenceSpec
CONSTANTS
  NoCrossing = NoCrossing
  NoAvl = NoAvl
  Points = {0, 50, 100, 200, 300, 400}
  StopAt <- LoopedRoute
  Distance <- RoadDistance
  Crossing <- RoadCrossing
  Departure <- Timetabled
  MaxStop = 4
  Radius = 70
  Scale = 100000
  MaxSegment = 2000
  SavedMatchesLimit = 2
  ShortJourney = 3
  EstimateTimeLimit = 180
  FirstStopWindow = 300
  EarlyLimit <- TwoHoursEarly
  AvlTimes = {0, 60, 120, 180, 420, 480, 540}
  RouteLengths = {4}
  MaxLateness = 0
  MaxTicks = 8
  MaxDisorderTicks = 0
INVARIANTS SelectionClosest
CHECK_DEADLOCK FALSE
