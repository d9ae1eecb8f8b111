SPECIFICATION Spec
CONSTANTS
    Fds = {f1, f2, f3}
    Workers = {w1}
    Requests = {oops}
    FileRequests = {}
    KeepAliveRequests = {}
    MAX_FD = 0
    MAX_EVENT_NUMBER = 1
    MAX_REQUESTS = 2
    BACKLOG = 1
    RESPONSE = 1
    WRITE_ROOM = 2
    MayTerminate = TRUE
    AddfdMayFail = TRUE
    NULL = NULL
INVARIANTS
    UserCountExact
    DescriptorsOwned
CHECK_DEADLOCK FALSE
