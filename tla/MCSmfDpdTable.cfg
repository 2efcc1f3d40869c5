SPECIFICATION Spec
CONSTANTS
    f1 = f1
    f2 = f2
    d1 = d1
    d2 = d2
    d3 = d3
    g1 = g1
    NoFlow = NoFlow
    Flow <- TwoFlows
    PktId <- Mixed
    Length <- IdLength
    pkt_count_max = 2
    AgeMax = 1
CHECK_DEADLOCK FALSE
INVARIANTS
    TreeTracksList
PROPERTIES
    PruneIsExact
    ImplementsFilter
