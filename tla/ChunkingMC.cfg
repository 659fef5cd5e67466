SPECIFICATION ShapeSpec
CONSTANTS
    MaxNr0 = 66
    MaxNr1 = 34
    MaxNth = 3
INVARIANTS ChunksPartitionOutput
CHECK_DEADLOCK FALSE
