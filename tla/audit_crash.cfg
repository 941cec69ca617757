SPECIFICATION Spec
CONSTANTS
    engine = engine
    export = export
    None = None
    Appenders <- MCEngine
    RotateAt = 2
    MaxTime = 8
    CutsRotation = TRUE
    LostNewline = FALSE
INVARIANT ChainVerifies
INVARIANT AckedKept
INVARIANT CrossFileChain
INVARIANT EventsOrdered
CHECK_DEADLOCK FALSE
