SPECIFICATION SpecCaches

CONSTANTS
    Keys <- TwoKeys
    EmptyKey = e
    Values <- TwoValues
    Size <- ValueBytes
    Ttls = {0, 1}
    MaxBytes = 2
    MaxHits = 1
    MaxNodes = 3
    None = None
    CacheThreads <- TwoThreads
    TierKeys <- OneKey
    TierValues <- TwoValues
    Absent = Absent
    Nobody = Nobody
    e = e
    a = a
    v1 = v1
    v2 = v2
    t1 = t1
    t2 = t2
    k1 = k1

INVARIANTS
    BytesAccounted
    HangNeedsCause
    NeverStale
    LockExclusive

PROPERTIES
    EvictionEnds
    LossySpec
