\* One direct block and index blocks of two entries, so that the longest file has 30
\* bytes in 15 blocks and three levels of index blocks; the disk has the 26 blocks
\* this file needs.  Writes end before, at and past the longest file and the disk.
SPECIFICATION Spec
CONSTANTS
    Inum = {1, 2}
    OpenFile = {f1, f2}
    NDirect = 1
    NInd = 2
    BlockSize = 2
    DataStart = 1
    NBlocks = 27
    Offset = {17}
    WriteLen = {13}
    ReadLen = {13}
    Payload <- MarkedBytes
INVARIANTS
    BlocksConsistent
PROPERTIES
    ImplementsFileStore
SYMMETRY OpenFilesAlike
CHECK_DEADLOCK FALSE
