SPECIFICATION Spec
CONSTANTS
    a = a
    b = b
    c = c
    Names = {a, b, c}
    Hash <- Clashing
    InitSize = 2
    MinRoom = 2
    Granule = 2
    Callers = {"t1"}
    Dispatchers = {"d"}
    MaxAdds = 4
    Disciplined = FALSE
CHECK_DEADLOCK FALSE
INVARIANTS TypeOK KeysDense SlotsLive DanglingOnlyInRace OverrunNeedsDelete
