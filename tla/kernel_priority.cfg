SPECIFICATION KernelSpec
CONSTANTS
    comhand = comhand
    sys_idle = sys_idle
    u1 = u1
    u2 = u2
    n2 = n2
    comhand_name = comhand_name
    sys_idle_name = sys_idle_name
    n1 = n1
    NULL = NULL
    MAX_PRIORITY = 2
    USER_PRIORITY = 1
    MaxLength = 1
    MaxIndex = 2
    MaxNodes = 4
    Pcb <- LoadedPcb
    Names <- LoadedNames
    LongNames <- MCLongNames
    Commands <- Reorder
INVARIANTS
    NoProcessLost
CHECK_DEADLOCK FALSE
