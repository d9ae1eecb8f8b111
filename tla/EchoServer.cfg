SPECIFICATION FairSpec
CONSTANTS
    Clients = {c1, c2}
    MaxInfos = 2
    MaxMessages = 3
    Brief = {c2}
    NOBODY = NOBODY
INVARIANTS
    TypeOK
    ThreadsApart
    EchoesOwn
    QuietLeavesHarmless
PROPERTIES
    EveryEchoed
CHECK_DEADLOCK FALSE
