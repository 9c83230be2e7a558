SPECIFICATION Spec
CONSTANTS
    f = f
    g = g
    h = h
    Funcs = {f, h}
    Initial <- OneFunction
    Hash <- Clashing
    MapSize = 2
    MinDataSize = 2
    BodySizes = {3}
    Decodable = {TRUE}
    MaxJobs = 2
    MaxNotices = 0
    RuntimeCalls = 2
    Fragmented = FALSE
    WriteOutcomes = {"full"}
    StdoutBuffered = FALSE
    MayClose = FALSE
    MayReset = FALSE
CHECK_DEADLOCK FALSE
INVARIANTS UndefinedOnlyAfter  FramesWhole
