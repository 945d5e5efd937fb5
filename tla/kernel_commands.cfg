SPECIFICATION KernelSpec
CONSTANTS
    comhand = comhand
    sys_idle = sys_idle
    u1 = u1
    u2 = u2
    n2 = n2
    comhand_name = comhand_name
    sys_idle_name = sys_idle_name
    n1 = n1
    NULL = NULL
    MAX_PRIORITY = 3
    USER_PRIORITY = 2
    MaxLength = 1
    MaxIndex = 2
    MaxNodes = 3
    Pcb <- MCPcb
    Names <- MCNames
    LongNames <- MCLongNames
    Commands <- UserCommands
INVARIANTS
    NoProcessLost
PROPERTIES
    MostUrgentFirst
CHECK_DEADLOCK FALSE
