CONSTANTS
    s1 = s1
    e1 = e1
    e2 = e2
    k1 = k1
    k2 = k2
    c1 = c1
    c2 = c2
    NoCanister = NoCanister
    Sessions = {s1}
    Execs = {e1}
    Calls = {}
    Canisters = {c1, c2}
    MaxNonce = 1
    SessionTtl = 1
    LeaseTime = 1
    PollInterval = 1
    InitialBackoff = 1
    MaxBackoff = 1
    FailureCap = 1
    RefundLease = 1
    MaxGeneration = 2
    Horizon = 2
SPECIFICATION Spec
INVARIANT SecretsKeptForRetry
CHECK_DEADLOCK FALSE
SYMMETRY MC_Symmetry
