SPECIFICATION FairSpec
CONSTANTS
    Callers = {c1, c2}
    Requests = {r1, r2}
    Need <- MCNeed
    initial_capacity = 2
    max_retries = 2
    MIN_CAPACITY = 1
    GROWTH_FACTOR = 2
    MAX_CAPACITY = 5
    Next_ = Next_
    Pool = TRUE
    CallersDrop = TRUE
    c1 = c1
    c2 = c2
    r1 = r1
    r2 = r2
INVARIANTS
    HandleSafe
    NoneStranded
    TooLargeJustified
PROPERTIES
    DeliversOnce
    Cleared
    CloseEnds
CHECK_DEADLOCK FALSE
