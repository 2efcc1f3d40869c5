SPECIFICATION FairSpec
CONSTANTS
    p1 = p1
    n1 = n1
    n2 = n2
    None = None
    Packet <- MCPacket
    PriorityPacket <- MCPriorityPacket
    HasVif = TRUE
    InitLimits <- AnyLimit
    LimitChanges <- Raising
    Rates <- AnyRate
INVARIANTS
    WaitsOneWay
    NoLostWakeup
    VifIsHeard
    OutputHasRoom
    FramesAccounted
PROPERTIES
    EveryFrameServed
