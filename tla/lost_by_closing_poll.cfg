SPECIFICATION Spec
CONSTANTS
    Files <- MCFiles
    NoFile = NoFile
    NChunks <- SameChunks
    TailLen <- SameTail
    FullLen = 2
    QueueSize = 2
    Durable = TRUE
    Secure = FALSE
    RecoveryAfter = 2
    DiagnosisPolls = 2
    Lossy = TRUE
    EarlyTimeout = TRUE
    MaxEdgeReboots = 0
    MaxHubReboots = 0
    MaxSinkFailures = 1
INVARIANTS
    AtLeastOnce
