SPECIFICATION Spec
CONSTANTS
    W = W
    None = None
    Freed = Freed
    Device <- Devices
    Pattern = {W}
    Match <- Matches
    Config <- Commands
CHECK_DEADLOCK FALSE
INVARIANTS
    TypeOK
    GroupsWork
    ResequencedIsNoRelay
