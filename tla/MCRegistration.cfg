SPECIFICATION Spec
CONSTANTS
    d1 = d1
    d2 = d2
    w1 = w1
    w2 = w2
    Domain <- MCDomain
    Exact = d1
    Keyed = TRUE
    RegistryPlan <- MCRegistryPlan
    MaxAgents = 2
    MaxCalls = 3
    MaxWait = 1
    Foreign <- MCForeign
    ForeignSigned <- MCForeignSigned
    Signers <- AllSigners
    WriterContext <- MCWriterContext
    Intended <- Issue
    SigningPlan <- MCSigningPlan
INVARIANTS  EntriesAuthorised
PROPERTY CallsEnd
CHECK_DEADLOCK FALSE
