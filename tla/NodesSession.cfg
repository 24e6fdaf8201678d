SPECIFICATION FairNodeSpec
CONSTANTS
    m1 = m1  m2 = m2  s1 = s1  s2 = s2  root = root
    am1 = am1  am2 = am2  as1 = as1  as2 = as2
    Master = {m1}
    Slave = {s1, s2}
    Client = {m1, s1, s2}
    Agent = {am1, am2, as1, as2}
    Controller = {am1, am2}
    NoAid = NoAid  AnyAid = AnyAid
    BusId = {root}
    RootId = {root}
    NoBus = NoBus
    AidOf <- MCAidOf
    IdOf <- MCIdOf
    Target <- MCTarget
    Audited = {m1}
    Payload = {}
    Topology = {}
    Keep = Keep
    Absent = Absent
    Empty = Empty
    Corrupt = Corrupt
    NoWrite = NoWrite
    NoEntry = NoEntry
    MaxRestarts = 1
    MaxCrashes = 0
    MaxClock = 40
    HandshakePolls = 20
    MonitorPolls = 20
    Heartbeats = 3
CHECK_DEADLOCK FALSE
INVARIANTS
    WritersAlternate
    ExecutesForMaster
PROPERTIES
    SessionLegal
    CommandAnswered
