SPECIFICATION HFairSpec
CONSTANTS
    Session = {s1, s2}
    Address = {a1}
    NoTimer = NoTimer
    Client = {c1, c2}
    NoClient = NoClient
    Caller = {Listener, user}
    Listener = Listener
    maxConnections = 1
    maxQueueSize = 1
    Releaser = TRUE
INVARIANTS
    SessionServesOne
    NoIdleWhileQueued
PROPERTY HttpStops
CHECK_DEADLOCK FALSE
