SPECIFICATION MSpec
CONSTANTS
    Job = {j1}
    NoJob = NoJob
    Monitored = TRUE
    Progress = {1}
    Threshold = 1
    Features = {"metrics"}
INVARIANT NoSelfDeadlock
