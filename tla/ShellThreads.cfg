SPECIFICATION FairSpec
CONSTANTS
    c1 = c1  c2 = c2  x1 = x1
    Caller = {c1, c2}
    Canceller = {x1}
    MaxRetries = 1
    TimeoutPolls = 1
    MaxCalls = 1
CHECK_DEADLOCK FALSE
INVARIANTS
    NoOrphanChild
    BusyIsExecuting
PROPERTY ExecuteReturns
