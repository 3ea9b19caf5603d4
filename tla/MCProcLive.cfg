SPECIFICATION FairSpec
CONSTANTS
    MaxProcs = 3
    MaxSubProcs = 2
    ExitCodes <- MCExitCodes
    Signals <- MCSignals
    SleepSeconds <- MCSleepSeconds
    TicksPerSec = 1
    MaxTime = 1
INVARIANTS
    TypedAndRunning
    SchedulerSound
PROPERTIES
    EveryoneRuns
    WaitersServed
