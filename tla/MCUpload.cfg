SPECIFICATION FairSpec
CONSTANTS
    f = f
    g = g
    Files = {f, g}
    Order <- MCOrder
    MaxLen = 7
    MaxPushBytes = 3
INVARIANTS
    ChunksArePrefix
    DoneIffOnDisk
    PushesAreMissing
    ChunkifyAgrees
PROPERTIES
    AllArrive
CHECK_DEADLOCK FALSE
