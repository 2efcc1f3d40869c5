SPECIFICATION Spec
CONSTANTS
    h = h
    m = m
    me = me
    G = G
    x = x
    Address <- Addresses
    Body <- Bodies
    LanPackets <- Lan
    ManetPackets <- Manet
    OwnPackets <- Own
    Modes <- AllModes
    SeqMod = 3
    AgeMax = 0
    AirTime = 1
INVARIANTS
    ResequencedIsNew
    NothingComesBack
