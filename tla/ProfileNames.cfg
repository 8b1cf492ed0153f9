SPECIFICATION Spec
CONSTANTS
    c1 = c1
    c2 = c2
    p1 = p1
    p2 = p2
    a1 = a1
    a2 = a2
    None = None
    Commands <- MCCommands
    Names <- MCNames
    Accounts <- MCAccounts
    MaxCalls = 3
    MaxFailures = 1
    MaxCrashes = 1
INVARIANT MixedByRace
INVARIANT BuriedByRace
INVARIANT DefaultFollows
SYMMETRY Symmetry
CHECK_DEADLOCK FALSE
