SPECIFICATION ChecksSpec
CONSTANTS
    p = p
    q = q
    x = x
    y = y
    c = c
    d = d
    Ports <- MCPorts
    VariantsOf <- MCVariantsOf
    Requirements <- MCRequirements
    ConflictsBuild <- MCConflicts
    MaxChanges = 2
INVARIANTS
    ChecksTypeOK
    BuiltAsRequired
    NoConflict
    ActivationWarns
CHECK_DEADLOCK FALSE
