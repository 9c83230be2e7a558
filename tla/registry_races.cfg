SPECIFICATION Spec
CONSTANTS
    a = a
    b = b
    c = c
    Names = {a, b, c}
    Hash <- Spread
    InitSize = 1
    MinRoom = 2
    Granule = 2
    Callers = {"t1", "t2"}
    Dispatchers = {}
    MaxAdds = 3
    Disciplined = FALSE
CHECK_DEADLOCK FALSE
INVARIANTS CountsAgree RegistrationsKept
