SPECIFICATION Spec
CHECK_DEADLOCK FALSE
CONSTANTS
    IntMin = 0
    IntMax = 2
    MaxLen = 5
    MaxThreads = 3
INVARIANTS
    TypeOK
    ChunksPartitionTheArray
    MinMaxFound
    NoThreadOutlivesItsArguments
