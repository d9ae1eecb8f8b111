SPECIFICATION Spec
CONSTANTS
    Clients = {c1, c2, c3}
    MaxInfos = 2
    MaxMessages = 1
    Brief = {}
    NOBODY = NOBODY
INVARIANTS
    RoomWhileFewRun
CHECK_DEADLOCK FALSE
