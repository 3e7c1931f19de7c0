SPECIFICATION Spec
CONSTANTS
    Files <- MCFiles
    NoFile = NoFile
    NChunks <- SameChunks
    TailLen <- SameTail
    FullLen = 2
    QueueSize = 1
    Durable = FALSE
    Secure = FALSE
    RecoveryAfter = 2
    DiagnosisPolls = 2
    Lossy = TRUE
    EarlyTimeout = TRUE
    MaxEdgeReboots = 1
    MaxHubReboots = 1
    MaxSinkFailures = 1
INVARIANTS
    TypeOK
    NoSplice
    OnceUnlessEdgeReboots
