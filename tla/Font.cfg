SPECIFICATION Spec
CONSTANTS
    None = None
    HaveLockfile = {TRUE, FALSE}
    Procs = {a, b}
    Forced = {b}
    Fonts = {f, g}
    MaxChanges = 2
    MaxFaults = 1
INVARIANT ExclusiveButFor
PROPERTIES
    GivesUpToSomebody
    CleanIsFresh
SYMMETRY MCSymmetry
CHECK_DEADLOCK FALSE
