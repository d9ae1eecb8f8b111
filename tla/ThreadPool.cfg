SPECIFICATION FairSpec
CONSTANTS
    Requests = {r1, r2}
    Workers = {w1, w2, w3}
    MaxRequests = 2
    MayDestroy = TRUE
    Main = main
    NULL = NULL
INVARIANTS
    TypeOK
    QueueProtected
    SemaphoreMatchesQueue
    PopFindsRequest
PROPERTIES
    ImplementsRequestQueue
    EveryRequestServed
\* After ~ThreadPool nothing is said of the threads.
CHECK_DEADLOCK FALSE
