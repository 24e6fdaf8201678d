SPECIFICATION FairSpec
CONSTANTS
    am = am  a1 = a1  root = root  b1 = b1  b2 = b2
    Agent = {am, a1}
    Controller = {am}
    NoAid = NoAid  AnyAid = AnyAid
    BusId = {root, b1, b2}
    RootId = {root}
    NoBus = NoBus
    SubBus = {b1, b2}
    Parent = root
    Supervisor = am
    TokenHolder <- MCTokenHolder
    Managers = {b1, b2}
    Watched = {root}
    Trunk = {root}
    HeartbeatInterval = 1
    MaxMissed = 1
    TrunkMultiplier = 1
    Unwatched = Unwatched
    MaxTime = 2
    MaxVerdicts = 1
    Missing = Missing
    Found = {Missing}
    Nothing = Nothing
    MaxCalls = 2
    MaxReads = 1
CHECK_DEADLOCK FALSE
INVARIANTS
    TypeOK
    ExpiredMeansSilent
    EveryTargetAnswered
    ReportsHold
PROPERTIES
    NotTornTwice
    TeardownReturns
