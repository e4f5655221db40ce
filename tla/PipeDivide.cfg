SPECIFICATION FairSpec
CHECK_DEADLOCK FALSE
CONSTANTS
    MaxLines = 3
    PipeSize = 2
    Faults = {"kill"}
INVARIANTS
    TypeOK
    InStep
    ReturnsAnswered
    OnlyAnUnfinishedLineHoldsBoth
PROPERTIES
    DividesInOrder
    ChildFollows
    OnlyAnUnfinishedLineBlocks
    ZeroEndsBoth
