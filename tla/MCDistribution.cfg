SPECIFICATION LiveSpec
CONSTANTS
    n1 = n1
    n2 = n2
    NodeSeq <- TwoNodes
    Master = n1
    Inputs <- AllInputs
    JoinTypes = {"inner", "outer"}
    Estimates <- TwoEstimates
    Parts = 2
    max_join_scatter_mem_overhead = 5
    attempts_limit = 2
    FaultBounds <- SomeFaults
INVARIANTS TypeOK ReturnMeansComplete CountNeverPassed PartitionsOnce DecisionsAgree SchemaArrives
PROPERTIES KernelsReturn
CHECK_DEADLOCK FALSE
