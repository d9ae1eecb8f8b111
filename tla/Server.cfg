SPECIFICATION FairSpec
CONSTANTS
    Fds = {f1, f2}
    Workers = {w1, w2}
    Requests = {page, oops}
    FileRequests = {page}
    KeepAliveRequests = {page}
    MAX_FD = 3
    MAX_EVENT_NUMBER = 9
    MAX_REQUESTS = 2
    BACKLOG = 1
    RESPONSE = 2
    WRITE_ROOM = 2
    MayTerminate = FALSE
    AddfdMayFail = FALSE
    NULL = NULL
INVARIANTS
    TypeOK
    SingleOwner
    OwnedIsLive
    NoneStranded
    ResponsesApart
PROPERTIES
    RequestKept
    ImplementsRequestQueue
    RequestAnswered
    HangupClosed
CHECK_DEADLOCK FALSE
