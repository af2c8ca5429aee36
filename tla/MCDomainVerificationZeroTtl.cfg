\* A synchronous status refresh when the record's TTL becomes zero.
CONSTANTS
    c1 = c1
    c2 = c2
    None = None
    Failed = Failed
    NotActive = NotActive
    Caller <- Callers
    Job <- Jobs
    Styles <- SyncOnly
    Ttls <- AllTtls
    Workers = 1
    MaxFaults = 1
    MaxCalls = 2
    MaxVersion = 1
SPECIFICATION Spec
PROPERTIES
    AcquirerUsesEvidence
CHECK_DEADLOCK FALSE
