SPECIFICATION FairSpec
CONSTANTS
    Waits = {w1, w2}
INVARIANTS
    OncePerWait
PROPERTIES
    WaitEnds
CHECK_DEADLOCK FALSE
