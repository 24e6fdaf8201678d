SPECIFICATION Spec
CONSTANTS
    c1 = c1  c2 = c2  x1 = x1
    Caller = {c1}
    Canceller = {x1}
    MaxRetries = 2
    TimeoutPolls = 2
    MaxCalls = 1
CHECK_DEADLOCK FALSE
PROPERTY CancelledNotRetried
