SPECIFICATION KernelSpec
CONSTANTS
    comhand = comhand
    sys_idle = sys_idle
    u1 = u1
    u2 = u2
    n2 = n2
    comhand_name = comhand_name
    sys_idle_name = sys_idle_name
    n1 = n1
    NULL = NULL
    MAX_PRIORITY = 3
    USER_PRIORITY = 2
    MaxLength = 2
    MaxIndex = 3
    MaxNodes = 4
    Pcb <- TwoPcb
    Names <- TwoNames
    LongNames <- MCLongNames
    Commands <- OnlyCreate
SYMMETRY Symmetry
INVARIANTS
    KernelTypeOK
    NoProcessLost
    ReadyQueuesSorted
    DeviceHasWaiter
PROPERTIES
    MostUrgentFirst
CHECK_DEADLOCK FALSE
