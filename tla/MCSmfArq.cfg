SPECIFICATION Spec
CONSTANTS
    d1 = d1
    d2 = d2
    None = None
    Downstream <- Two
    SEQ = 32
    REPAIR_DELTA_MAX = 2
    CacheLimit = 2
    StartSeq = 31
    MaxSent = 3
    MaxAir = 4
    MaxUsed = 13
    Lost <- MCLost
CHECK_DEADLOCK FALSE
INVARIANTS
    OldestIsOldest
    ResentOnce
PROPERTIES
    AsksOnlyForMissed
