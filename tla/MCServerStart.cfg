SPECIFICATION FairSpec
CHECK_DEADLOCK FALSE
CONSTANTS
    Servers = {s1, s2}
    None = None
    MAX_WORDS = 2
    MAX_WORD_LEN = 3
    Files <- MCFiles
    BuiltIn = {2}
    Faults = {"kill", "interrupt", "memory", "calls"}
INVARIANTS TypeOK ReachedWhenAlone LeavesNoName
PROPERTY RecoversTheName
