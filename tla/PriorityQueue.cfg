CONSTANTS
    NULL = NULL
    Task = {a, b, c, d}
    Caps = {0, 2}
    PromoteTime = 1
    MaxClock = 2
SPECIFICATION Spec
SYMMETRY TaskSymmetry
INVARIANT WellFormed
PROPERTIES OneLevelPerPass ImplementsLaneQueue
CHECK_DEADLOCK FALSE
