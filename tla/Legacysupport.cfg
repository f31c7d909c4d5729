SPECIFICATION Spec
CONSTANTS
    OsMajor = 10
    Newest <- MCNewest
    DefaultNewest = 18
    MaxStatements = 5
INVARIANTS
    FlagsRight
    OnlyWhereNeeded
    DependsOnIt
CHECK_DEADLOCK FALSE
