SPECIFICATION FairSpec
CONSTANTS
    a1 = a1
    a2 = a2
    Attempts <- MCAttempts
    LockTicks = 1
    MaxFailedAttempts = 2
    AttemptsPerTier = 1
    Tiers = 2
    RedisFails = TRUE
INVARIANTS
    LockHolds
    LockEndsInTime
    ThresholdLocks
PROPERTY
    Recovers
