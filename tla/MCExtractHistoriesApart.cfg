\* There and back two hours later: the index of the one becomes that of the other.
CONSTANTS
    Journeys <- Return
    Departures <- ReturnLater
    Group <- OneGroup
    Direction <- ReturnDirection
    ServiceDay <- Today
    DayLength = 96
    Window = 8
    LateRunning = 48
    Bounds = 16
    Period = 2
    NumShards = 1
    ShardOf <- OneShard
    Early = 2
    Late = 2
    MaxFaults = 0
    MinTime = 42
    MaxTime = 62
SPECIFICATION ExtractSpec
INVARIANT HistoriesApart
CHECK_DEADLOCK FALSE
