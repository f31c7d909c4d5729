SPECIFICATION Spec
CONSTANTS
    None = None
    HaveLockfile = {FALSE}
    Procs = {a, b}
    Forced = {}
    Fonts = {f}
    MaxChanges = 0
    MaxFaults = 0
INVARIANT MutualExclusion
CHECK_DEADLOCK FALSE
