SPECIFICATION FairSpec
CONSTANTS
    Tokens <- MCTokens
    ClockSkew = 1
    MaxLifetime = 2
    RotateAt = 3
    FileLoss = FALSE
    WriteErrors = TRUE
    MaxTime = 1
    MaxSequence = 1
    MaxVersion = 4
    None = None
    Unreadable = Unreadable
CHECK_DEADLOCK FALSE
INVARIANTS
    ContainmentHeld
PROPERTIES
    KeepsServing
