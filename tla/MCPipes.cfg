\* Two processes with two descriptors each, four files and two pipe slots: every
\* table fills up, and both pipes can be open at once.  Calls of up to four bytes in
\* chunks of two on a ring of three: calls are longer than the ring, and chunks
\* neither divide it nor the calls.
SPECIFICATION PipesSpec
CONSTANTS
    NProcs = 2
    MaxFd = 2
    NFile = 4
    MaxPipes = 2
    NStdio = 1
    MaxEnds = 3
    Byte = {0, 1}
    PipeBufSize = 3
    CopyChunk = 2
    MaxLen = 4
INVARIANTS
    FilesConsistent
    RingConsistent
PROPERTIES
    LostPipeStaysLost
    ImplementsByteQueue
    CallsReturn
CHECK_DEADLOCK FALSE
