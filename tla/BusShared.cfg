SPECIFICATION Spec
CONSTANTS
    c1 = c1  c2 = c2  m = m  s = s  b1 = b1  b2 = b2
    Client = {c1, c2}
    Agent = {m, s}
    Controller = {m}
    NoAid = NoAid  AnyAid = AnyAid
    BusId = {b1, b2}
    RootId = {b2}
    NoBus = NoBus
    IdOf <- MCIdShared
    Audited = {c1}
    Payload <- MCPayload
    Topology <- MCOrphan
    AidOf <- MCAidOf
    Keep = Keep
    Absent = Absent
    Empty = Empty
    Corrupt = Corrupt
    NoWrite = NoWrite
    NoEntry = NoEntry
    MaxClock = 3
    MaxCrashes = 1
INVARIANTS
    TokenConservation
    OrphanStaysIdle
    EmptyIsTransient
PROPERTIES
    LoneWriteAtomic
    ImplementsRegister
    IsolatedWriteLegal
