\* Across midnight; one failed notification; buses half an hour early or late at most.
CONSTANTS
    Journeys <- Night
    Departures <- NightDepartures
    Group <- NightGroup
    Direction <- NightDirection
    ServiceDay <- NightDay
    DayLength = 96
    Window = 8
    LateRunning = 48
    Bounds = 16
    Period = 2
    NumShards = 2
    ShardOf <- NightShard
    Early = 2
    Late = 2
    MaxFaults = 1
    MinTime = 82
    MaxTime = 103
SPECIFICATION ExtractSpec
INVARIANTS OwnRoute
CHECK_DEADLOCK FALSE
