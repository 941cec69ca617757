CONSTANTS
    MaxObjects = 1
    MaxNames = 1
    MaxObjectBytes = 3
    MaxIoBytes = 1
    MaxSnapshots = 1
    QuotaBytes = 3
    RecoveryReserveBytes = 1
    MaxHandle = 3
    MaxGeneration = 2
    MaxNonce = 3
    Names = {"a"}
    Bytes = {0, 1}
    MaxWalRecords = 4
    Requests <- MCRequests
    None = None
SPECIFICATION Spec
INVARIANTS
    CowRecoverable
    LogReplays
    StatesSound
PROPERTIES
    CowImplements
    WalImplements
    HandleNeverReturns
CHECK_DEADLOCK FALSE
