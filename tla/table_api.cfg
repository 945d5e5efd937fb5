SPECIFICATION Spec
CONSTANTS
    p1 = p1
    p2 = p2
    p3 = p3
    n1 = n1
    n2 = n2
    n3 = n3
    long = long
    NULL = NULL
    MAX_PRIORITY = 1
    Pcb <- MCPcb
    Names <- MCNames
    LongNames <- MCLongNames
    Commands <- AllCommands
SYMMETRY Symmetry
INVARIANTS
    TypeOK
    OneQueueEach
    ReadyQueuesSorted
    UniqueNames
PROPERTIES
    PcbsLeaveOnlyBy
    FirstComeFirstServed
    SystemProcessesStay
CHECK_DEADLOCK TRUE
