SPECIFICATION FairTreeSpec
CONSTANTS
    m1 = m1  s1 = s1  am1 = am1  as1 = as1
    Root = root  SubId = sub
    Master = {m1}
    Slave = {s1}
    Client = {m1, s1}
    SubMaster = {m1}
    Trunk = {s1}
    Agent = {am1, as1}
    Controller = {am1}
    NoAid = NoAid  AnyAid = AnyAid
    BusId = {root, sub}
    RootId = {root}
    NoBus = NoBus
    AidOf <- MCAidOf
    IdOf <- MCIdOf
    Target <- MCTarget
    Audited = {m1}
    Payload = {}
    Topology = {}
    Keep = Keep
    Absent = Absent
    Empty = Empty
    Corrupt = Corrupt
    NoWrite = NoWrite
    NoEntry = NoEntry
    MaxRestarts = 1
    MaxCrashes = 1
    MaxClock = 40
    HandshakePolls = 1
    MonitorPolls = 1
    Heartbeats = 2
CHECK_DEADLOCK FALSE
INVARIANTS
    TokensConserved
    ExecutionsPaired
    SubBusReleased
PROPERTIES
    TreesFinish
    CommandSurvivesRegister
