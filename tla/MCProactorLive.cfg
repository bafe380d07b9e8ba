SPECIFICATION ProcFairSpec
CONSTANTS
    Ops = {a1}
    Foreign = {f1}
    Workers = {1, 2}
    Tasks = {t1}
    None = None
    UserPanics = TRUE
    BATCH = 2
    PortMayFail = TRUE
PROPERTIES
    DriverProgress
CHECK_DEADLOCK FALSE
