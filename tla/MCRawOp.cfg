SPECIFICATION FairSpec
CONSTANTS
    Ops = {a1}
    Foreign = {f1}
    Workers = {w1, w2}
    Tasks = {t1, t2}
    None = None
    UserPanics = TRUE
INVARIANTS
    RefCount
    KernelMemory
    ResultSlot
    NoLostWakeup
PROPERTIES
    CompletionResolves
    AbandonedFreed
CHECK_DEADLOCK FALSE
