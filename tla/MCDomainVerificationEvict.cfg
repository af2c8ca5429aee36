\* evict_domain while a lookup is in progress.
CONSTANTS
    c1 = c1
    c2 = c2
    None = None
    Failed = Failed
    NotActive = NotActive
    Caller <- Callers
    Job <- Jobs
    Styles <- SyncOnly
    Ttls <- LongTtl
    Workers = 1
    MaxFaults = 1
    MaxCalls = 2
    MaxVersion = 1
SPECIFICATION Spec
INVARIANTS
    EvictionObserved
CHECK_DEADLOCK FALSE
