\* Two files, two shards; one invocation of each function fails, fair scheduling.
CONSTANTS
    Avls = {1, 2, 3}
    DateOf <- Calendar
    Batches <- BatchIds
    Names <- Seconds
    Workers = {w1, w2}
    NoMessage = NoMessage
    MaxFaults = 1
    MaxDuplicates = 0
    LastDay = 1
    NumFiles = 2
    Content <- Files
    NumShards = 2
    SecondsApart = 1
    MaxFailures = 1
SPECIFICATION S3FairSpec
INVARIANTS DbTypeOK LoadedWhenSuccess NothingLeftStaged ObjectIsOwn ShardsSeeFilesInOrder
PROPERTIES Spec SentIsIngested
CHECK_DEADLOCK FALSE
