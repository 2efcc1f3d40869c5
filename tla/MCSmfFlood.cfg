SPECIFICATION FairFlood
CONSTANTS
    a = a
    b = b
    c = c
    d = d
    e = e
    a1 = a1
    b1 = b1
    b2 = b2
    c1 = c1
    d1 = d1
    e1 = e1
    p1 = p1
    Node <- MCNode
    Iface <- MCIface
    Packet <- MCPacket
    NodeOf <- MCNodeOf
    Hears <- MCHears
    RelayType <- MCRelayType
    Layered <- MCLayered
    Origin <- MCOrigin
    InitTtl = 4
    Commanded <- OnlyC
    InitSelectors <- MCInitSelectors
    InitNeighbors <- MCInitNeighbors
    Updated <- OnlyD
    Selectors <- MCSelectors
    Neighbors <- MCNeighbors
    Forgetful <- MCForgetful
    MaxForget = 1
INVARIANTS
    TransmitsOnce
    FirstFromSelector
    RelayAsCommanded
PROPERTIES
    Coverage
