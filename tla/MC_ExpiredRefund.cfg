CONSTANTS
    p1 = p1
    p2 = p2
    Sessions = {1}
    Polls = {p1}
    Required = 1
    Depth = 2
    LogWindow = 2
    InitialCursor <- NoBlock
    MaxHead = 3
    MaxDeposits = 2
    SessionTtl = 1
    LeaseTime = 1
    PollInterval = 1
    InitialBackoff = 1
    MaxBackoff = 1
    FailureCap = 1
    Horizon = 3
SPECIFICATION FairSpec
PROPERTY ExpiredRefundAvailable
CHECK_DEADLOCK FALSE
