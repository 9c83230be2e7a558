SPECIFICATION Spec
CONSTANTS
    a = a
    b = b
    c = c
    Names = {a, b, c}
    Hash <- Spread
    InitSize = 4
    MinRoom = 4
    Granule = 2
    Callers = {"t1", "t2"}
    Dispatchers = {"d"}
    MaxAdds = 4
    Disciplined = TRUE
CHECK_DEADLOCK FALSE
INVARIANTS NoUndefinedBehaviour
PROPERTIES ImplementsRegistry
