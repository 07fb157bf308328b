CONSTANTS
    a = a
    b = b
    Peers <- MCPeers
    Blocks = {1}
    RecvCap = 4
    SockCap = 1
    Quotas <- MCQuotas
SPECIFICATION Spec
INVARIANTS
    TypeOK
    RecvNeverFull
    AckedSurvives
PROPERTIES
    InOrder
    Answered
CHECK_DEADLOCK FALSE
