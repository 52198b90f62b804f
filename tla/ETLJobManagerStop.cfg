SPECIFICATION FairSpec
CONSTANTS
    Job = {j1}
    NoJob = NoJob
    Monitored = FALSE
PROPERTY StopReturns
