SPECIFICATION FairSpec
CONSTANTS
    c1 = c1
    Certs <- MCOneCert
    None = None
    Mozilla = Mozilla
    MaxChanges = 1
    MaxFaults = 1
    MaxRunning = 2
INVARIANTS
    ExportsRight
    FreshButFor
    NothingLeft
PROPERTY CatchesUp
CHECK_DEADLOCK FALSE
