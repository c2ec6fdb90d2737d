SPECIFICATION Spec

CONSTANTS
    Threads <- TwoThreads
    Users <- TwoUsers
    Addrs <- TwoAddrs
    MaxSessions = 2
    Durations = {0, 2}
    PersistentLife = 1
    t1 = t1
    t2 = t2
    u1 = u1
    u2 = u2
    a1 = a1
    a2 = a2
    NoSession = NoSession

INVARIANTS
    IndexExact

PROPERTIES
    WritesReachNamed
    RevivedOnlyInFlight
    ExpiredIsRemoved
    ShutdownEnds
