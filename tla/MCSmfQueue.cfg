SPECIFICATION QueueSpec
CONSTANTS
    p1 = p1
    p2 = p2
    n1 = n1
    n2 = n2
    n3 = n3
    b1 = b1
    b2 = b2
    b3 = b3
    b4 = b4
    b5 = b5
    None = None
    Packet <- MCPacket
    PriorityPacket <- MCPriorityPacket
    Buffer <- MCBuffer
    Limits <- MCLimits
SYMMETRY AnyBuffer
INVARIANTS
    QueueTypeOK
    BufferHeldOnce
    MarkIsLastOut
    PriorityRefusedOnlyByPriority
PROPERTIES
    NeverGrowsPastLimit
    ImplementsPriorityFifo
