SPECIFICATION FairSpec
CONSTANTS
    Conns = {c1, c2}
    TIMESLOT = 1
PROPERTIES
    IdleClosed
CHECK_DEADLOCK FALSE
