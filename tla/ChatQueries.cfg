SPECIFICATION FairSpec
CONSTANTS
    a = a
    b = b
    srv = srv
    Nowhere = Nowhere
    Conversations <- MCConversations
    Servers <- MCServers
    Slots = {1, 2}
    Limit = 1
    Ttl = 1
    Timeouts = {1, 2}
    MaxConversations = 2
    MaxTurns = 1
INVARIANT RunningBounded
INVARIANT OutcomeKept
INVARIANT TurnsBelong
PROPERTY PlaceIsFreed
