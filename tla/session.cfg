SPECIFICATION FairSpec
CONSTANTS
    f = f
    g = g
    h = h
    Funcs = {f, g, h}
    Initial <- ThreeFunctions
    Hash <- Clashing
    MapSize = 3
    MinDataSize = 2
    BodySizes = {3}
    Decodable = {TRUE, FALSE}
    MaxJobs = 3
    MaxNotices = 1
    RuntimeCalls = 0
    Fragmented = FALSE
    WriteOutcomes = {"full"}
    StdoutBuffered = FALSE
    MayClose = TRUE
    MayReset = FALSE
CHECK_DEADLOCK FALSE
INVARIANTS TypeOK RepliesInOrder AlignedReads NoUndefinedBehaviour
PROPERTIES JobAnswered CloseEndsWorker
