\* Cache: two entries for three blocks, so that every miss evicts.
\* Files: three blocks for two files that want three each, so that the disk fills
\* up, two losses of power, and shutdowns in any order with them.
SPECIFICATION MCDiskSpec
CONSTANTS
    b1 = b1
    b2 = b2
    b3 = b3
    d1 = d1
    d2 = d2
    Blocks <- MCBlocks
    Data <- MCData
    Failed = Failed
    NEntries = 2
    MaxClock = 5
    Inum = {1, 2}
    DataBlocks = {1, 2, 3}
    Bitmap = bitmap
    Inodes = inodes
    Value = {v1, v2}
    MaxWrites = 3
    MaxLosses = 2
INVARIANTS
    CacheConsistent
    FilesSurvive
PROPERTIES
    ImplementsBlockStore
    LastUsedStays
    ShutdownEnds
CHECK_DEADLOCK FALSE
