CONSTANTS
    Parts = {"handler", "validator", "security", "builder", "transaction", "bodies", "filters",
             "records"}
    bodyWords = {"status", "config", "type", "j1", "5"}
    Bodies <- MCBodies
    Samples <- MCSamples
    numerals = {"0", "5"}
    decimals = {"0", "5", "1.5", "0.00", "1.50"}
    hundredths <- MChundredths
    idWords = {"j1"}
    instants = {"epoch", "t0"}
    textWords = {"a", "j2", "INFO", "ERROR", "error", "connected"}
    FilterThread = {f1, f2}
    Peer = {p1, p2}
    Stranger = {p2}
    JobArgument <- MCJobArgument
    LevelArgument <- MCLevelArgument
    TypeArgument <- MCTypeArgument
    FilterBody <- MCFilterBody
    TestMessages <- MCTestMessages
    GivenFilters <- MCGivenFilters
    MaxFilterCalls = 2
    length <- MClength
    lower <- MClower
    jobIds = {"j1", "j2", "1", "job_0", "job_1"}
    userIds = {"user1"}
    emails = {}
    tokens = {"token1"}
    plain <- MCplain
    controls = {"nul"}
    classes <- MClength
    sqlWords = {"drop table"}
    xssWords = {}
    longer <- MClonger
    number <- MCnumber
    moment <- MCmoment
    MaxBody = 1000
    Worker = {w1, w2}
    Arriving <- MCArriving
    jwt = TRUE
    canonical <- MCcanonical
    validTokens <- MCvalidTokens
    trustProxy = FALSE
    numTrustedHops = 0
    newId <- MCnewId
    withoutFirst <- MCwithoutFirst
    StoredRow <- MCStored
    StartJobs <- MCStartJobs
    MaxRows = 3
    MaxServed = 2
    MaxSeconds = 1
    Validated <- MCValidated
    ValidatorConfig <- MCValidatorConfig
    StartConfig <- MCStartConfig
    inPath <- MCinPath
    traversal = {".."}
    badName = {}
    badValue = {}
    refusedSql = {"drop table", "update"}
    refusedXss = {}
    Minute = 2
    MaxNow = 3
    MaxValidated = 3
    securityConfig <- MCsecurityConfig
    screenedSql = {}
    screenedXss = {}
    climbing = {}
    shellSymbols = {";"}
    nulls = {"nul"}
    allowedTypes = {}
    extension <- MClength
    RateOptions <- MCRateOptions
    Sender = {"a", "b"}
    KeptFor = 2
    MaxTicks = 5
    MaxAsked = 3
    HeaderSet <- MCHeaderSet
    BadName = {"x-bad"}
    MimeType <- MCMimeType
    RequestId = {"r1"}
    MaxSent = 1
    maxAttempts = 2
    initialDelay = 1
    maxDelay = 2
    backoffMultiplier = 2
    Thrown = {"NETWORK_ERROR", "INVALID_INPUT", "standard"}
    MaxTransactions = 3
SYMMETRY Symmetry
SPECIFICATION Spec
INVARIANTS NoJobMissed AllOrNothing FieldExtracted ReadBack StoredIsLast
PROPERTIES WithinMinute HistoryKept OnlyItsOwn
CHECK_DEADLOCK FALSE
