SPECIFICATION ProcSpec
CONSTANTS
    Ops = {a1, a2}
    Foreign = {}
    Workers = {1, 2}
    Tasks = {t1}
    None = None
    UserPanics = TRUE
    BATCH = 2
    PortMayFail = TRUE
SYMMETRY Symmetry
INVARIANTS
    OwedExact
    ClosedDrained
PROPERTIES
    ImplementsRawOp
CHECK_DEADLOCK FALSE
