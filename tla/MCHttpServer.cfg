SPECIFICATION ServerFairSpec
CONSTANTS
    r1 = r1
    r2 = r2
    Requests = {r1, r2}
    HeadRequests = {r2}
    WithBody = {r2}
    BodyChunks = 1
    Replies <- MCReplies
    Heads <- MCHeads
    Sizes = {1}
    MaxBody = 2
    MAX_SEND = 1
    Framed = 1
    NoLen = NoLen
    BadLen = BadLen
    TrailersSupported = TRUE
    Drivers <- MCDrivers
    Reservations = 1
    Unready = TRUE
    Panics = TRUE
    Faults = {r1}
    None = None
INVARIANTS WireSound ResultTrue BodyWhole
PROPERTIES Backpressure Settled Stops
