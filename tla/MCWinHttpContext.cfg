SPECIFICATION Spec
CONSTANTS
    Tasks = {t1, t2}
    None = None
    MaxGeneration = 4
SYMMETRY Symmetry
INVARIANTS
    BufferAlive
    RightCompletion
    NoLostWakeup
    ContextCount
CHECK_DEADLOCK FALSE
