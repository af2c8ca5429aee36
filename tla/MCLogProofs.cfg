SPECIFICATION MCSpec
CONSTANTS
    x = x
    y = y
    z = z
    Width = 2
    Size = 9
    Changes <- MCChanges
    MaxTreeSize = 9
    MaxFaults = 2
INVARIANTS ProofsComplete ProofsSound QuorumSound
PROPERTY TilesSound
CHECK_DEADLOCK FALSE
