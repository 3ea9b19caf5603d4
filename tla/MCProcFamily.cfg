\* Four processes, two children each, no clock: who is whose child.
SPECIFICATION Spec
CONSTANTS
    MaxProcs = 4
    MaxSubProcs = 2
    ExitCodes = {}
    Signals <- MCSignals
    SleepSeconds = {}
    TicksPerSec = 1
    MaxTime = 0
INVARIANTS
    FamilySound
    WaitStaysValid
PROPERTIES
    ZombieKept
    ZombieLostForEver
