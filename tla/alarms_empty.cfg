SPECIFICATION AlarmsSpec
CONSTANTS
    comhand = comhand
    sys_idle = sys_idle
    a1 = a1
    a2 = a2
    a3 = a3
    comhand_name = comhand_name
    sys_idle_name = sys_idle_name
    n1 = n1
    n2 = n2
    NULL = NULL
    MAX_PRIORITY = 3
    USER_PRIORITY = 2
    MaxLength = 2
    MaxIndex = 3
    MaxNodes = 5
    MaxPrints = 1
    MaxTime = 1
    Pcb <- MCPcb
    Names <- MCNames
    LongNames <- Nothing
    Commands <- AlarmCommands
    Tests <- NoTests
    TestName <- NoTests
    Iterations <- NoTests
    Lines <- MCLines
    Typed <- Nothing
    AlarmNames <- MCAlarmNames
    Messages <- MCMessages
INVARIANT
    NoPanic
CHECK_DEADLOCK FALSE
