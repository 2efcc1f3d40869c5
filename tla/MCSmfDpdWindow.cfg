SPECIFICATION Spec
CONSTANTS
    f1 = f1
    f2 = f2
    NoFlow = NoFlow
    FlowId <- TwoFlows
    Packet <- MCPacket
    window_size = 4
    window_past_max = 128
    AgeMax = 1
INVARIANTS
    NoStaleBits
PROPERTIES
    ForgetsOnlyOnJump
    PruneIsExact
    ImplementsFilter
