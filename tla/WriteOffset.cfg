SPECIFICATION Spec
CONSTANTS
    READ_BUFFER_SIZE = 4
    Arrivals = {1, 2}
    MaxPending = 2
    MaxTaken = 4
    MaxHead = 2
    MaxFile = 2
INVARIANTS
    SentIsResponse
CHECK_DEADLOCK FALSE
