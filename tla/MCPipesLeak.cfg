\* The one property of this run is what a test program asserts; see findings.
SPECIFICATION PipesSpec
CONSTANTS
    NProcs = 2
    MaxFd = 2
    NFile = 4
    MaxPipes = 1
    NStdio = 1
    MaxEnds = 3
    Byte = {0, 1}
    PipeBufSize = 3
    CopyChunk = 2
    MaxLen = 4
INVARIANTS
    PipeAvailable
CHECK_DEADLOCK FALSE
