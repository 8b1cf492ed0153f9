SPECIFICATION FairSpec
CONSTANTS
    a = a
    b = b
    p = p
    q = q
    Artifacts <- Both
    Kinds <- AllKinds
    Title <- OneTitle
    Sweeps <- Two
    Nothing = Nothing
    Retries = 1
    MaxPolls = 1
INVARIANT StreamsAreWhole
INVARIANT SavedIsOnDisk
PROPERTY CommandsEnd
