SPECIFICATION MuniversalSpec
CONSTANTS
    Inputs <- MCInputs
    MaxStops = 1
INVARIANTS
    MuniversalTypeOK
    TwoArchsLeft
    EachToItsOwn
    MergedRightly
CHECK_DEADLOCK FALSE
