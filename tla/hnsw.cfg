CONSTANTS
    Vector = {1, 2, 4, 7}
    Sim <- MCSim
    One = 7
    M = 3
    M_max = 3
    efConstruction = 4
    m_L = 2
    K = 2
    MaxNodes = 5
    Offered <- MCOffered
    MaxDeleted = 1
SPECIFICATION Spec
INVARIANTS GraphInv UnprunedIsConnected SearchFindsBest
PROPERTIES CallsReturn
CHECK_DEADLOCK FALSE
