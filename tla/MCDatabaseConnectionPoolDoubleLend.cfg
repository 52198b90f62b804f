SPECIFICATION PoolSpec
CONSTANTS
    Client = {c1, c2}
    Conn = {k1, k2, k3, k4, k5}
    minConnections = 1
    maxConnections = 2
    HealthChecks = TRUE
    QueriesFail = FALSE
    Shutdown = FALSE

INVARIANT
    LentOnce
CHECK_DEADLOCK FALSE
