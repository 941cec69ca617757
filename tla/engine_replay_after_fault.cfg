SPECIFICATION Spec
CONSTANTS
    Tokens <- MCTokens
    ClockSkew = 1
    MaxLifetime = 2
    RotateAt = 0
    FileLoss = FALSE
    WriteErrors = FALSE
    MaxTime = 2
    MaxSequence = 2
    MaxVersion = 5
    None = None
    Unreadable = Unreadable
CHECK_DEADLOCK FALSE
INVARIANTS
    NonceSurvivesFault
