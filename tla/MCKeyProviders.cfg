SPECIFICATION MCSpec
CONSTANTS
    p1 = p1
    p2 = p2
    k1 = k1
    k2 = k2
    k3 = k3
    old = old
    cur = cur
    t1 = t1
    t2 = t2
    t3 = t3
    v0 = v0
    v1 = v1
    v2 = v2
    v3 = v3
    noKey = noKey
    Proc <- MCProc
    KmsKey <- MCKmsKey
    Alias <- MCAlias
    KmsThumb <- MCKmsThumb
    Initial <- MCInitial
    Enabled <- MCKey
    FirstAlias <- MCFirstAlias
    MaxRestarts = 1
    MaxRepoints = 1
    MaxSignatures = 2
    Thread <- MCProc
    Version <- MCVersion
    First = v0
    VersionThumb <- MCVersionThumb
    MaxStarts = 1
    Key <- MCKey
    Old = old
    InitialFile = {"absent", "flat", "store"}
    MaxCrashes = 1
SYMMETRY Symmetric
INVARIANTS KeysKept CloudKeysKept CloudSignsWithLiveKey
PROPERTIES RefinesKeyRing CloudRefinesKeyRing
CHECK_DEADLOCK FALSE
