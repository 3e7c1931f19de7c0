SPECIFICATION Spec
CONSTANTS
    Files <- MCFiles
    NoFile = NoFile
    NChunks <- MixedChunks
    TailLen <- MixedTail
    FullLen = 2
    QueueSize = 1
    Durable = TRUE
    Secure = FALSE
    RecoveryAfter = 2
    DiagnosisPolls = 2
    Lossy = TRUE
    EarlyTimeout = TRUE
    MaxEdgeReboots = 1
    MaxHubReboots = 0
    MaxSinkFailures = 0
INVARIANTS
    NoSplice
