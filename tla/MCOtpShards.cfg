\* Two shards, three operators, two batches, one new extract and two faults.
CONSTANTS
    NumShards = 2
    Operators = {"listed0", "listed1", "unlisted"}
    Table <- TwoListed
    Hash <- Digest
    MaxBatches = 2
    MaxExtracts = 1
    MaxFaults = 2
SPECIFICATION ShardsFairSpec
INVARIANTS ShardsTypeOK ExtractNotOlder EachOperatorOnce AcknowledgedIsMarked
PROPERTY ShardsCatchUp
CHECK_DEADLOCK FALSE
