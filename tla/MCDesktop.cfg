\* Slots for two programs: both of the desktop, or one and its child.
SPECIFICATION Spec
CONSTANTS
    MaxProcs = 3
    MaxSubProcs = 2
    MaxBurst = 2
    MaxDamage = 2
INVARIANTS
    WindowsTrue
    PicturesTrue
