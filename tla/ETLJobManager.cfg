SPECIFICATION FairSpec
CONSTANTS
    Job = {j1, j2}
    NoJob = NoJob
    Monitored = TRUE
INVARIANTS
    ScheduledJobNotLost
    AtMostOneExecution
    NoSleepOnWork
PROPERTIES
    EndedRowIsFinal
    ImplementsExecutor
    QueuedJobIsTaken
