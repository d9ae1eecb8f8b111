SPECIFICATION Spec
CONSTANTS
    RequestLines = {"page", "missing", "private", "directory", "unreadable", "empty", "PUT page"}
    HeaderLines = {"Connection: keep-alive", "Content-Length: n", "n Content-Length:", "Host: h"}
    MaxHeaders = 2
    BODY = 3
INVARIANTS
    TypeOK
    LinesTaken
    AnswerDue
    NoneWaits
CHECK_DEADLOCK FALSE
