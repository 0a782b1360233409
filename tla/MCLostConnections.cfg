\* Historic matching with three workers and two faults, or two environments of the
\* situations Lambda with two situations of two versions each and one fault.
CONSTANTS
    o1 = o1
    o2 = o2
    o3 = o3
    j1 = j1
    j2 = j2
    j3 = j3
    j4 = j4
    Operators = {o1, o2, o3}
    Journeys = {j1, j2, j3, j4}
    OperatorOf <- TwoEach
    Workers = {w1, w2, w3}
    Sentinel = Sentinel
    MaxFaults = 2
    Situations = {"reinstated", "corrected"}
    Versions <- Bulletin
    Unversioned = {"corrected"}
    Environments = {"e1", "e2"}
    PageSize = 1
    MaxMishaps = 1
SPECIFICATION LostSpec
INVARIANTS OneWorkerPerOperator LossIsLocal StoredWhenDone FlagsFollowFeed
PROPERTIES TaskEndsAnyway ImportedAnyway
CHECK_DEADLOCK FALSE
