SPECIFICATION Spec
CONSTANTS
    Fds = {f1, f2, f3}
    Workers = {w1}
    Requests = {page, oops}
    FileRequests = {page}
    KeepAliveRequests = {page}
    MAX_FD = 3
    MAX_EVENT_NUMBER = 9
    MAX_REQUESTS = 1
    BACKLOG = 1
    RESPONSE = 1
    WRITE_ROOM = 2
    MayTerminate = FALSE
    AddfdMayFail = FALSE
    NULL = NULL
PROPERTIES
    ReadIsQueued
CHECK_DEADLOCK FALSE
