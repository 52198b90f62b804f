SPECIFICATION FairSpec
CONSTANTS
    config = config
    list = list
    Client = {c1, c2}
    Conn = {k1, k2, k3, k4}
    minConnections = 1
    maxConnections = 2
    HealthChecks = TRUE
    QueriesFail = TRUE
    Shutdown = TRUE
    Message = {m1, m2, m3}
    Watcher = {w1}
    queueMaxSize = 2
    maxRetries = 1
    DeliveriesFail = TRUE
    Stopping = TRUE
    Thread = {t1, t2}
    Mutex = {config, list}
    Level <- LevelOf
    Nesting = FALSE
    MaxHeld = 2
INVARIANTS ActiveWithinMax Conserved NoCircularWait
PROPERTIES RequestAnswered ShutdownEnds AcceptedIsTried
CHECK_DEADLOCK FALSE
