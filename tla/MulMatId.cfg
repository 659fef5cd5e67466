SPECIFICATION Spec
CONSTANTS
    Block = {0, 1, 2}
    Fitting <- TwoFit
    LeaseId = {0, 1}
    NWorkers = 2
    NRows = 128
    RowCounts = {0, 1, 2}
    MaxOps = 2
    Numa = FALSE
INVARIANTS PointersLeased BufferOfThisProduct ChunkTakenOnce ProductComplete PagedAreServed
PROPERTIES GraphEnds
