SPECIFICATION Spec
CONSTANTS
    zlib = zlib
    py = py
    py1 = py1
    py2 = py2
    Dirs = {zlib, py}
    Subports = {zlib, py1, py2}
    SubportsOf <- MCSubportsOf
    MaxFaults = 1
INVARIANTS
    ColourIsRight
    MarksRight
    ChangedPortsBuilt
CHECK_DEADLOCK FALSE
