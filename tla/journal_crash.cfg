SPECIFICATION Spec
CONSTANTS
    a = a
    b = b
    zero = zero
    Zero = zero
    Values <- MCValues
    Writes <- MCTwoWrites
    Blocks = 2
    MaxSequence = 3
    IoErrors = FALSE
    FailedFsync = FALSE
    CliRuns = FALSE
    Exports = TRUE
    TrackSidecars = FALSE
    None = None
CHECK_DEADLOCK FALSE
INVARIANTS
    AlwaysOpens
    AckedDurable
    PointInTime
    ExportFaithful
PROPERTIES
    ImplementsBlockStore
