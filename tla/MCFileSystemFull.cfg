\* A disk of three blocks that fills up.
SPECIFICATION Spec
CONSTANTS
    Inum = {1}
    OpenFile = {f1}
    NDirect = 1
    NInd = 2
    BlockSize = 2
    DataStart = 1
    NBlocks = 4
    Offset = {0}
    WriteLen = {1, 2}
    ReadLen = {1}
    Payload <- MarkedBytes
INVARIANTS
    FullDiskReported
CHECK_DEADLOCK FALSE
