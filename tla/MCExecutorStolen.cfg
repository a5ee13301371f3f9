SPECIFICATION Spec
CONSTANTS
    k1 = k1
    k2 = k2
    w1 = w1
    w2 = w2
    Kernels = {k1, k2}
    Threads = {w1, w2}
    NoOne = NoOne
    QueryOf <- TwoQueries
    attempts_limit = 1
    MaxTasks = 2
    MaxFailures = 1
    MaxMonitorMoves = 0
INVARIANT FailedQueryReportsError
CHECK_DEADLOCK FALSE
