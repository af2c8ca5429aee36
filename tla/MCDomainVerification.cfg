\* Safety: two callers, three calls of either style, one change of the
\* published identity, any TTL, failures, evictions, revocation and shutdown.
CONSTANTS
    c1 = c1
    c2 = c2
    None = None
    Failed = Failed
    NotActive = NotActive
    Caller <- Callers
    Job <- Jobs
    Styles <- BothStyles
    Ttls <- AllTtls
    Workers = 1
    MaxFaults = 1
    MaxCalls = 3
    MaxVersion = 1
SPECIFICATION Spec
INVARIANTS
    RefreshNotUndone
    OneAcquisition
    WaitersServed
    ClosedIsQuiet
SYMMETRY CallerSymmetry
CHECK_DEADLOCK FALSE
