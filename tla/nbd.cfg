SPECIFICATION NbdFairSpec
CONSTANTS
    Requests <- MCRequests
    MaxPipelined = 2
    None = None
CHECK_DEADLOCK FALSE
INVARIANTS
    InSync
    RepliesInOrder
PROPERTIES
    RequestAnswered
    AcceptsAgain
