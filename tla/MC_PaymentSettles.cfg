CONSTANTS
    p1 = p1
    p2 = p2
    Sessions = {1}
    Polls = {p1}
    Required = 2
    Depth = 2
    LogWindow = 2
    InitialCursor <- NoBlock
    MaxHead = 4
    MaxDeposits = 2
    SessionTtl = 1
    LeaseTime = 1
    PollInterval = 1
    InitialBackoff = 1
    MaxBackoff = 2
    FailureCap = 2
    Horizon = 2
SPECIFICATION FairSpec
PROPERTY SessionSettles
CHECK_DEADLOCK FALSE
