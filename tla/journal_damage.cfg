SPECIFICATION Spec
CONSTANTS
    a = a
    b = b
    zero = zero
    Zero = zero
    Values <- MCValues
    Writes <- MCSingleWrites
    Blocks = 2
    MaxSequence = 2
    IoErrors = TRUE
    FailedFsync = FALSE
    CliRuns = TRUE
    Exports = FALSE
    TrackSidecars = FALSE
    None = None
CHECK_DEADLOCK FALSE
INVARIANTS
    ReadsNeverWrong
