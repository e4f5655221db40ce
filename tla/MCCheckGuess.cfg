SPECIFICATION Spec
CONSTANTS
    Chars <- MCChars
    Alpha <- MCAlpha
    Words <- MCWords
CHECK_DEADLOCK FALSE
INVARIANTS
    TypeOK
    WonIffEqual
    ScoreIsTheRule
PROPERTY
    Judged
