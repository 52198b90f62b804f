SPECIFICATION MSpec
CONSTANTS
    Job = {j1, j2}
    NoJob = NoJob
    Monitored = TRUE
    Progress = {1, 2}
    Threshold = 1
    Features = {"metrics", "cancel"}
SYMMETRY Symmetry
INVARIANTS
    PublishedInOrder
    ViewFollowsJob
    FailureAlerted
    ViewDisjoint
