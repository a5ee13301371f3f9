SPECIFICATION Spec
CONSTANTS
    Users = {u1, u2}
    Ids = {a1, a2, a3}
    Tables <- SomeTables
    buffer_size = 2
    NumBuffers = {1, 2, 3}
    MaxBuffers = 5
INVARIANTS
    TypeOK
    ChunkOwnedOnce
    HeldMemoryStays
    CounterIsInUse
    NoIdleAllocation
    SplitIsWhole
SYMMETRY PoolSymmetry
CHECK_DEADLOCK FALSE
