SPECIFICATION Spec
CONSTANTS
    Funcs = {"f", "g"}
    MinDataSize = 2
    BodySize = 3
    MaxCalls = 3
    MaxConnects = 1
    MaxExtra = 1
    MaxParts = 6
    Fragmented = TRUE
    WriteOutcomes = {"full", "short"}
    Nesting = TRUE
    MayClose = FALSE
CHECK_DEADLOCK FALSE
INVARIANTS RequestOnce MisdeliveredOnlyIf
