SPECIFICATION MpxSpec
CONSTANTS
    comhand = comhand
    sys_idle = sys_idle
    t1 = t1
    t2 = t2
    comhand_name = comhand_name
    sys_idle_name = sys_idle_name
    n1 = n1
    n2 = n2
    NULL = NULL
    MAX_PRIORITY = 3
    USER_PRIORITY = 2
    MaxLength = 2
    MaxIndex = 3
    MaxNodes = 5
    MaxPrints = 2
    Pcb <- MCPcb
    Names <- MCNames
    LongNames <- MCLongNames
    Commands <- R6Commands
    Tests <- MCTests
    TestName <- MCTestName
    Iterations <- MCIterations
    Lines <- TestLines
    Typed <- NoIdle
INVARIANTS
    DriverServesRequester
CHECK_DEADLOCK FALSE
