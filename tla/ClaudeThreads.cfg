SPECIFICATION FairSpec
CONSTANTS
    c1 = c1  c2 = c2  c3 = c3  x1 = x1  x2 = x2
    Caller = {c1, c2}
    Canceller = {x1}
    MaxRetries = 1
    TimeoutPolls = 1
    MaxCalls = 1
CHECK_DEADLOCK FALSE
INVARIANTS
    TypeOK
    OverlapBounded
    NothingLeftBehind
    OwnOutput
    CancelHitsItsTarget
PROPERTY ExecuteReturns
