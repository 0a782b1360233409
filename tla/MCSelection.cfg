SPECIFICATION SelectionSpec
CONSTANTS
  NoCrossing = NoCrossing
  NoAvl = NoAvl
  Points = {0}
  AvlTimes = {0, 60}
  Distance <- NoDistance
  Crossing <- NoLine
  Departure <- AtMidnight
  MaxStop = 5
  RouteLengths = {5}
  Radius = 70
  Scale = 1
  SavedMatchesLimit = 2
  ShortJourney = 3
  EstimateTimeLimit = 180
  FirstStopWindow = 300
  EarlyLimit <- TwoHoursEarly
  MaxLateness = 0
  MaxTicks = 5
INVARIANTS SelectionIsTheLoop
CHECK_DEADLOCK FALSE
