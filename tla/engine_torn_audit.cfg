SPECIFICATION FairSpec
CONSTANTS
    Tokens <- MCTokens
    ClockSkew = 1
    MaxLifetime = 2
    RotateAt = 0
    FileLoss = FALSE
    WriteErrors = FALSE
    MaxTime = 0
    MaxSequence = 1
    MaxVersion = 3
    None = None
    Unreadable = Unreadable
CHECK_DEADLOCK FALSE
PROPERTIES
    PowerCutDoesNotBrick
