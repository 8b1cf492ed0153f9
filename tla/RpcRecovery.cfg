SPECIFICATION Spec
CONSTANTS
    c1 = c1
    Calls <- OneCall
    Replays <- Both
    Protected = TRUE
    MaxRetries = 3
    RateLimitRetries = 1
    MaxLogins = 3
INVARIANT BoundedWork
PROPERTY AmbiguousNeverResent
PROPERTY NewerLoginKept
