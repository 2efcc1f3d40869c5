\* Packets, joins, leaves, EM-ACKs and timeouts of two flows of a group.
CONSTANTS
    Open = Open
    AddrBits = 32
    g1 = g1
    s1 = s1
    s2 = s2
    class = class
    udp = udp
    Flow <- MCFlow
    Group <- MCGroup
    Iface = {i1}
    Relay = {r1}
    Local = Local
    DEFAULT_IDLE_COUNT_THRESHOLD = 2
SPECIFICATION Spec
INVARIANTS
    TypeOK
    AckedIsForwarded
    MemberIsAcked
PROPERTIES
    AcksRightAway
    AcksStop
