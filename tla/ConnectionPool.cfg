SPECIFICATION Spec

CONSTANTS
    Threads <- TwoThreads
    Conns <- ThreeConns
    Limits = {0, 2}
    MaxDepth = 2
    t1 = t1
    t2 = t2
    c1 = c1
    c2 = c2
    c3 = c3
    NoConn = NoConn

CONSTRAINT BeforeRace

SYMMETRY Symmetric

INVARIANTS
    SoleOwner
    PooledClean
    NoneLost
