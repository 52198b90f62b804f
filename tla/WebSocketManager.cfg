SPECIFICATION WFairSpec
CONSTANTS
    Message = {m1, m2}
    Processor = {p1, p2}
    Connection = {c1, c2, c3}
    Client = Client
    maxQueueSize = 1
    batchSize = 1
    maxConnections = 2
    IoThreads = 2
INVARIANTS
    HandedOnce
    StoppedIsQuiet
PROPERTY BroadcasterStops
CHECK_DEADLOCK FALSE
