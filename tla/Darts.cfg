SPECIFICATION BuildSpec
CONSTANTS
    MaxLabel = 3
    TableSize = 2
    HashOf <- MCHash
    LabelBits = 2
    ExtraBlocks = 2
    OffsetBits = 3
    Inputs <- MCInputs
    MaxLength = 3
    XorOf <- MCXorOf
INVARIANTS
    BuildTypeOK
    DawgMinimal
    ArraySound
    ThrowsRightly
    SearchesRight
CHECK_DEADLOCK FALSE
