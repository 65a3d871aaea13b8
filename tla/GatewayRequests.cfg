SPECIFICATION Spec
CONSTANTS
    Requests = {r1, r2, r3}
    NumUpstreams = 2
    MaxAttempts = 2
    MinRequests = 1
    RateNum = 1
    RateDen = 2
    HalfOpenMax = 1
SYMMETRY Symmetry
INVARIANTS TypeOK ActiveCovers CleanShutdown DrainCanEnd
PROPERTIES OpenKeepsAway
CHECK_DEADLOCK FALSE
