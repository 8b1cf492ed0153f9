SPECIFICATION FairBudgetSpec
CONSTANTS
    t1 = t1
    t2 = t2
    t3 = t3
    r1 = r1
    r2 = r2
    Threads <- MCThreads
    Revisions <- MCRevisions
    NoRevision = NoRevision
    Cooldown = 2
    FailureLimit = 2
    MaxTime = 5
    MaxAttempts = 3
INVARIANT OneBrowser
INVARIANT FailuresCapped
INVARIANT TokensAreNew
PROPERTY SlotIsFreed
CHECK_DEADLOCK FALSE
