CONSTANTS
    p1 = p1
    p2 = p2
    Sessions = {1, 2}
    Polls = {p1, p2}
    Required = 1
    Depth = 2
    LogWindow = 1
    InitialCursor = 0
    MaxHead = 4
    MaxDeposits = 2
    SessionTtl = 1
    LeaseTime = 1
    PollInterval = 1
    InitialBackoff = 1
    MaxBackoff = 1
    FailureCap = 1
    Horizon = 2
SPECIFICATION Spec
INVARIANTS
    TypeOK
    
    EvidenceSound
    SpawnIffPaid
    PollNeverForgotten
PROPERTY LateScansHarmless
CHECK_DEADLOCK FALSE
SYMMETRY MC_Symmetry
