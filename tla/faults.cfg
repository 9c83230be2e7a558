SPECIFICATION Spec
CONSTANTS
    f = f
    g = g
    h = h
    Funcs = {f}
    Initial <- OneFunction
    Hash <- Clashing
    MapSize = 2
    MinDataSize = 2
    BodySizes = {2, 3}
    Decodable = {TRUE, FALSE}
    MaxJobs = 2
    MaxNotices = 0
    RuntimeCalls = 0
    Fragmented = TRUE
    WriteOutcomes = {"full", "short", "none"}
    StdoutBuffered = TRUE
    MayClose = TRUE
    MayReset = TRUE
CHECK_DEADLOCK FALSE
INVARIANTS NoDuplicateReply MisreadOnlyIf
