CONSTANTS
    Thread = {t1, t2}
    Level = {2}
    minLevel = 1
    Job = {"j1"}
    StreamedJob = {}
    queueMax = 1
    streamingQueueSize = 1
    maxFileSize = 2
    maxBackupFiles = 2
    MaxCalls = 3
    MaxSwitches = 2
    Source = {s1, s2}
    Destination = {"file", "http"}
    Severity = {1, 3}
    destinations <- MCDestinations
    maxRotated = 2
    maxFileLines = 1
    MaxBatch = 2
    MaxEntries = 3
    MaxRuns = 2
    LogFile = {"app"}
    Writer = {w1, w2}
    rotateAt = 1
    MaxWrites = 2
    MaxManage = 2
SPECIFICATION Spec
INVARIANTS StreamedInOrder DrainedAtStop RotationKeepsOrder
INVARIANTS ShippedInOrder NothingLeftBehind LinesKeepOrder
SYMMETRY Threads
CHECK_DEADLOCK FALSE
