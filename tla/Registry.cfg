SPECIFICATION FairRegistrySpec
CONSTANTS
    c1 = c1  x1 = x1  x2 = x2  x3 = x3  b1 = b1  b2 = b2  b3 = b3
    Caller = {c1}
    Canceller = {x1, x2, x3}
    MaxRetries = 1
    TimeoutPolls = 1
    MaxCalls = 1
    Registrar = {x1, x2}
    BusId = {b1, b2, b3}
    MaxAdapters = 2
    Free = Free
CHECK_DEADLOCK FALSE
INVARIANTS
    RegistryTypeOK
    RemovesWhatItChecked
PROPERTIES
    StoppedBeforeRemoved
    RegistryComesFree
