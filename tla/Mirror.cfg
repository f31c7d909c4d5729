SPECIFICATION FairSpec
CONSTANTS
    p1 = p1
    p2 = p2
    Ports <- MCPorts
    Base = 3
    MaxCommit = 5
    DepthLimit = 1
    GiveUpDistance = 2
    OldestDarwin = 25
    NewestDarwin = 27
    Native <- MCNative
    MaxFaults = 2
    MaxReruns = 1
INVARIANTS
    NoPortForgotten
    DoneIsUploaded
    IndexRestorable
    CaughtUp
PROPERTIES
    StatusInOrder
    LedgerSpec
    PushHandled
CHECK_DEADLOCK FALSE
