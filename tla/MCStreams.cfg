SPECIFICATION TransferSpec
CONSTANTS
    Ops = {p1, p2}
    Helper = p1
    Backends = {"pool", "proactor"}
    HELPER_CHUNK = 2
    MaxBytes = 3
    MaxMessages = 2
    Target = 3
    Offset = 1
INVARIANTS
    HandleAlive
    Returned
PROPERTIES
    Copies
    Closes
    HelperEnds
CHECK_DEADLOCK FALSE
