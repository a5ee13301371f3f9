SPECIFICATION FairSpec
CONSTANTS
    k1 = k1
    k2 = k2
    w1 = w1
    w2 = w2
    Kernels = {k1}
    Threads = {w1, w2}
    NoOne = NoOne
    QueryOf <- OneQuery
    attempts_limit = 1
    MaxTasks = 1
    MaxFailures = 1
    MaxMonitorMoves = 0
PROPERTY FailedTaskEndsQuery
CHECK_DEADLOCK FALSE
