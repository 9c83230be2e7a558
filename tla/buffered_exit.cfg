SPECIFICATION FairSpec
CONSTANTS
    f = f
    g = g
    h = h
    Funcs = {f}
    Initial <- OneFunction
    Hash <- Clashing
    MapSize = 2
    MinDataSize = 2
    BodySizes = {3}
    Decodable = {TRUE}
    MaxJobs = 1
    MaxNotices = 0
    RuntimeCalls = 0
    Fragmented = FALSE
    WriteOutcomes = {"full"}
    StdoutBuffered = TRUE
    MayClose = TRUE
    MayReset = FALSE
CHECK_DEADLOCK FALSE
PROPERTIES CloseEndsWorker
