\* Four stops; a second vehicle up to two minutes late, or a shorter route, early on.
SPECIFICATION EvidenceSpec
CONSTANTS
  NoCrossing = NoCrossing
  NoAvl = NoAvl
  Points = {0, 50, 200, 300, 400}
  StopAt <- StraightRoute
  Distance <- RoadDistance
  Crossing <- RoadCrossing
  Departure <- Timetabled
  MaxStop = 4
  Radius = 70
  Scale = 100000
  MaxSegment = 2000
  SavedMatchesLimit = 2
  ShortJourney = 3
  EstimateTimeLimit = 180
  FirstStopWindow = 300
  EarlyLimit <- TwoHoursEarly
  AvlTimes = {0, 60, 120, 180, 420, 480, 540}
  RouteLengths = {3, 4}
  MaxLateness = 120
  MaxTicks = 8
  MaxDisorderTicks = 5
INVARIANTS TypeOK SavedMatchesBounded DroppedArePotential WipedThenSetIsSaved
PROPERTIES EvidenceNotDowngraded TwoPingsOutside EstimateConfirmedLater DepartureIsLastSighting FinalStopKept
CHECK_DEADLOCK FALSE
