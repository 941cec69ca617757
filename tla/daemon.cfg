SPECIFICATION FairSpec
CONSTANTS
    Requests <- MCRequests
    MaxPipelined = 1
    None = None
CHECK_DEADLOCK FALSE
INVARIANTS
    AnswerNamesState
PROPERTIES
    CommandAnswered
    ShutdownCompletes
