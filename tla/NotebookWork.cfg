SPECIFICATION Spec
CONSTANTS
    t1 = t1
    t2 = t2
    u1 = u1
    e1 = e1
    e2 = e2
    Nobody = Nobody
    Threads <- Two
    Names <- MCNames
    Elements <- MCElements
    MaxPolls = 2
    MaxRetries = 1
    MaxSources = 3
    Reads = 2
    MaxCalls = 2
    MaxArtifacts = 2
    MaxTasks = 2
    MaxCreates = 1
INVARIANT ImportsAsked
INVARIANT PipelineUsesSource
INVARIANT TwiceOnlyUnseen
INVARIANT StartsOnce
INVARIANT OwnOptions
CONSTRAINT InParts
SYMMETRY Symmetry
CHECK_DEADLOCK FALSE
