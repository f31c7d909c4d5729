SPECIFICATION BootstrapSpec
CONSTANTS
    p1 = p1
    v1 = v1
    v2 = v2
    v3 = v3
    NoPort = NoPort
    Ports = {p1}
    Versions = {v1, v2, v3}
    Tip = 4
    Window = 2
INVARIANT IndexIsHead
SYMMETRY MCSymmetry
CHECK_DEADLOCK FALSE
