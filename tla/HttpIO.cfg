SPECIFICATION FairSpec
CONSTANTS
    READ_BUFFER_SIZE = 381
    Arrivals = {127, 128}
    MaxPending = 256
    MaxTaken = 382
    MaxHead = 3
    MaxFile = 2
INVARIANTS
    TypeOK
    ShortReadsCounted
    CountsAgree
    FirstWriteRight
    MappedWhileSent
PROPERTIES
    ShortReadsClosed
    FileCompletes
CHECK_DEADLOCK FALSE
