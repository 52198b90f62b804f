CONSTANTS
    failureThreshold = 2
    successThreshold = 2
    Caller = {c1}
    Recoverer = {r1, r2}
    maxRecoveryAttempts = 1
    maxFailedHealthChecks = 2
    MaxConfigs = 2
    maxReconnectAttempts = 2
    maxMissedHeartbeats = 2
    MaxSettings = 3
    Requester = {"q1"}
    Endpoint <- MCEndpoints
    DefaultRule <- MCDefaultRules
    AddedRule <- MCAddedRules
    HourMinutes = 2
    MaxMinute = 3
    MaxBack = 1
    User = {"u1"}
    Role = {"admin"}
    AuthThread = {"t1", "t2"}
    SessionId = {"s1", "s2"}
    SessionHours = 1
    hoursWest = 1
    MaxHours = 3
    MaxAuthOps = 4
    enableRotation = TRUE
    keyFiles = TRUE
    MaxKeys = 3
    Lifetime = 2
SPECIFICATION FairSpec
PROPERTIES RecoversWithTraffic HeartbeatEnds WithinLimit AcceptsLiveSessions
CHECK_DEADLOCK FALSE
