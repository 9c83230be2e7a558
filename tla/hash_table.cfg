SPECIFICATION Spec
CONSTANTS
    Keys <- Names
    Hash <- HashOf
    ByKey <- Odd
    Garbage = {2}
    TableSize <- Sizes
    Requested = 3
    MaxInserts = 4
CHECK_DEADLOCK FALSE
INVARIANTS TypeOK WellLinked NewestFound VisitsAll
PROPERTIES ImplementsNameTable
