SPECIFICATION FairSpec
CONSTANTS
    BatchCounts <- SomeCounts
    MaxBatches = 3
    MaxFaults = 1
    attempts_limit = 2
INVARIANT PairsJoinedOnce
CHECK_DEADLOCK FALSE
