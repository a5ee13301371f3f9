SPECIFICATION FairSpec
CONSTANTS
    BatchCounts <- SomeCounts
    MaxBatches = 3
    MaxFaults = 1
    attempts_limit = 2
INVARIANTS
    TypeOK
    EndMeansAllPairs
    PairsNotRepeated
    BatchInOnePlace
PROPERTY JoinReturns
CHECK_DEADLOCK FALSE
