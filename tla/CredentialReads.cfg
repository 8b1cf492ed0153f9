SPECIFICATION FairSpec
CONSTANTS
    t1 = t1
    t2 = t2
    Threads <- Two
    Nobody = Nobody
    Idle = Idle
    MaxVersions = 3
PROPERTY ReadsAreAtomic
PROPERTY LoadsEnd
