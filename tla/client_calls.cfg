SPECIFICATION FairSpec
CONSTANTS
    Funcs = {"f", "g"}
    MinDataSize = 2
    BodySize = 3
    MaxCalls = 4
    MaxConnects = 3
    MaxExtra = 0
    MaxParts = 8
    Fragmented = FALSE
    WriteOutcomes = {"full"}
    Nesting = FALSE
    MayClose = TRUE
CHECK_DEADLOCK FALSE
INVARIANTS TypeOK OwnAnswer TableIsCall
PROPERTIES CallReturns
