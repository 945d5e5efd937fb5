SPECIFICATION LinkedSpec
CONSTANTS
    NULL = NULL
    p1 = p1
    p2 = p2
    Pcb <- MCPcb
    MAX_PRIORITY = 1
    MaxNode = 4
    CallStates <- OneOfEach
SYMMETRY Symmetry
INVARIANTS Represents WalkMissesNobody
PROPERTY QueuesSpec
