SPECIFICATION Spec
CONSTANTS
    READ_BUFFER_SIZE = 512
    Arrivals = {127, 128, 255, 256}
    MaxPending = 512
    MaxTaken = 512
    MaxHead = 1
    MaxFile = 1
PROPERTIES
    AllIsRead
CHECK_DEADLOCK FALSE
