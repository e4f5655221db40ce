SPECIFICATION MCSpec
CONSTANTS
    Ids <- MCIds
    Required = 2
    MAX_PLAYERS = 4
CHECK_DEADLOCK FALSE
INVARIANTS
    TypeOK
    OneSeatPerPlayer
    SendsToASeat
PROPERTY
    GameSpec
