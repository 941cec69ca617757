SPECIFICATION ApiSpec
CONSTANTS
    MaxChallenges = 2
    Ttl = 1
    MaxSnapshots = 2
    MaxIssued = 4
    MaxCompactions = 2
    MaxTime = 4
INVARIANTS
    StoreBounded
    KeptUntilExpiry
