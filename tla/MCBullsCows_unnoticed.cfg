SPECIFICATION BSpec
CONSTANTS
    p1 = p1
    p2 = p2
    None = None
    Ids <- MCIds
    Required = 1
    MAX_PLAYERS = 4
    Procs <- One
    IdOf <- OneId
    Words = {"right"}
    MaxGuesses <- Nobody
    Faults = {"quit"}
CHECK_DEADLOCK FALSE
INVARIANT
    DisconnectsAreNoticed
