CONSTANTS
    None = None
    Key = {k0, k1, k2}
    Provider = {p1}
    Home = p1
    InitKey = k0
    HonestRegistry = TRUE
    RefusesCalls = TRUE
    MaxFaults = 2
SPECIFICATION Spec
INVARIANTS
    LoggedRotationResumable
CHECK_DEADLOCK FALSE
