SPECIFICATION Spec
CONSTANTS
    Versions = {"1.1", "3"}
    DefaultBranch = "3"
    DependsTypes = {"lib", "build"}
    Settings <- MCSettings
    MaxStatements = 5
INVARIANTS
    DependsOnBranch
    FoundFirst
    OneVersion
CHECK_DEADLOCK FALSE
