CONSTANTS
    None = None
    Key = {k0, k1, k2, k3}
    Provider = {p1, p2}
    Home = p1
    InitKey = k0
    HonestRegistry = FALSE
    RefusesCalls = TRUE
    MaxFaults = 3
SPECIFICATION Spec
INVARIANTS
    SigningMatchesIdentity
    LiveKeysHeld
    ActivatedStaysVerified
    SavedRecordRecoverable
PROPERTIES
    SubmitsSavedPausedOnly
CHECK_DEADLOCK FALSE
