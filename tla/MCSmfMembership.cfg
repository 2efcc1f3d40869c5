SPECIFICATION Spec
CONSTANTS
    a = a
    b = b
    c = c
    Null = Null
    Member <- Three
    TICKS = 12
    DEFAULT_ACK_TIMEOUT = 3
    MaxLate = 2
SYMMETRY Symmetry
CHECK_DEADLOCK FALSE
INVARIANTS
    TypeOK
PROPERTIES
    ImplementsLeases
