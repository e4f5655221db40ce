SPECIFICATION BSpec
CONSTANTS
    p1 = p1
    p2 = p2
    None = None
    Ids <- MCIds
    Required = 2
    MAX_PLAYERS = 4
    Procs <- Two
    IdOf <- TwoIds
    Words = {"right"}
    MaxGuesses <- TheFirst
    Faults = {"quit", "signal"}
CHECK_DEADLOCK FALSE
INVARIANT
    ActivePlayersKeepTheirPipe
