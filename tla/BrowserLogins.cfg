SPECIFICATION LoginSpec
CONSTANTS
    c1 = c1
    c2 = c2
    p1 = p1
    p2 = p2
    Commands <- TwoCommands
    Profiles <- TwoProfiles
    FirstPort = 1
    LastPort = 2
    TopPort = 3
    MaxLaunches = 2
    MaxCalls = 3
    MaxKills = 1
SYMMETRY Symmetry
CHECK_DEADLOCK FALSE
INVARIANT StrangersByRace
INVARIANT NoHeadlessLeft
PROPERTY StopsByRace
