SPECIFICATION Spec
CONSTANTS
    Tables <- MCTables
    Versions = {a, b}
    Height = 3
    ImmutabilityThreshold = 1
    freezerBatchLimit = 2
    MaxFailures = 1
    MaxRewinds = 1
    None = None
CONSTRAINTS
    Unraced
    OneSide
INVARIANTS
    NoBlockLost
PROPERTIES
    TablesFit
CHECK_DEADLOCK FALSE
