SPECIFICATION Spec
CONSTANTS
    n1 = n1
    n2 = n2
    NodeSeq <- TwoNodes
    Master = n1
    Inputs <- JoinInputs
    JoinTypes = {"left", "right"}
    Estimates <- TwoEstimates
    Parts = 2
    max_join_scatter_mem_overhead = 5
    attempts_limit = 2
    FaultBounds <- NoFaults
INVARIANTS PreservedSideStays
CHECK_DEADLOCK FALSE
