SPECIFICATION FairSpec
CONSTANTS
    ArraySize = 4
    MaxServers = 5
    MaxLoops = 1
    StdoutBuffered = TRUE
INVARIANTS TypeOK ArrayAgrees UndefinedOnlyAfter ServedInOrder
PROPERTIES NextServed
CHECK_DEADLOCK FALSE
