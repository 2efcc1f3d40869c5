SPECIFICATION TableSpec
CONSTANTS
    any = any
    G = G
    H = H
    s = s
    t = t
    class = class
    proto = proto
    Open = any
    KeySets <- ThreeLengths
    Static <- Policies
    Query <- Descriptions
    AddrBits = 32
CHECK_DEADLOCK FALSE
INVARIANTS
    WildcardFound
