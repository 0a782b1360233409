\* One batch whose message is received twice, one fault.
CONSTANTS
    a1 = a1
    a2 = a2
    late = late
    Avls = {a1, a2, late}
    DateOf <- Calendar
    Batches = {1}
    Names = {n1}
    Workers = {w1, w2}
    NoMessage = NoMessage
    MaxFaults = 1
    MaxDuplicates = 1
    LastDay = 0
SPECIFICATION Spec
INVARIANT CleanReprocessing
CHECK_DEADLOCK FALSE
