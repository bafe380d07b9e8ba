SPECIFICATION PoolFairSpec
CONSTANTS
    Ops = {a1, a2}
    Foreign = {}
    Workers = {w1}
    Tasks = {t1}
    None = None
    UserPanics = TRUE
INVARIANTS
    PoolClosed
PROPERTIES
    PoolImplementsRawOp
    TeardownEnds
CHECK_DEADLOCK FALSE
