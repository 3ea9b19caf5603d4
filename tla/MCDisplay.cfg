\* Damage: three rectangles on a screen of five by three, for each owner of a list.
\* Desktop: slots for two programs, both of the desktop or one and its child, and a
\* list of two rectangles.
SPECIFICATION DisplaySpec
CONSTANTS
    ScreenW = 5
    ScreenH = 3
    MaxRects = 3
    Marks <- MCMarks
    MaxProcs = 3
    MaxSubProcs = 2
    MaxBurst = 1
    MaxDamage = 2
INVARIANTS
    DamageConsistent
PROPERTIES
    DamageComesThrough
    DesktopKeepsUp
