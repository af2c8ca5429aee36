SPECIFICATION FairSpec
CONSTANTS
    a = a
    b = b
    Tree <- Trees
    Size <- Sizes
    Prefix <- PrefixPairs
    Empty <- NoLeaves
    None = None
    Verifier = {v1, v2}
    Time <- Times
    MaxCalls = 3
INVARIANTS
    OneHistory
    TrustCoversAccepted
PROPERTIES
    RefinesHistory
    CallsEnd
CHECK_DEADLOCK FALSE
