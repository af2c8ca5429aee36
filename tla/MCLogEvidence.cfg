SPECIFICATION MCSpec
CONSTANTS
    None = None
    ek = ek
    k1 = k1
    k2 = k2
    other = other
    la = la
    lb = lb
    lc = lc
    i1 = i1
    i2 = i2
    u1 = u1
    u2 = u2
    Event <- AllEvents
    Key <- AllKeys
    Prior <- Predecessors
    Plan <- Replays
    Now = 2
    MaxLog = 4
    Log <- Logs
    RecordLog = la
    Streams <- AllStreams
    ChainPlan <- Chains
    MaxDepth = 2
    MaxEvents = 4
    MaxBytes = 5
    EvidencePlan <- Records
    CertEnd = 3
    MaxTime = 2
    MaxEntries = 2
SYMMETRY KeySymmetry
INVARIANTS ReplaySound SnapshotSound MigrationSound
PROPERTIES RefinesLifecycle EvidenceSound
CHECK_DEADLOCK FALSE
