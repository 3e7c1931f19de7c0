SPECIFICATION FairSpec
CONSTANTS
    Files <- MCFiles
    NoFile = NoFile
    NChunks <- SameChunks
    TailLen <- SameTail
    FullLen = 2
    QueueSize = 2
    Durable = TRUE
    Secure = TRUE
    RecoveryAfter = 2
    DiagnosisPolls = 2
    Lossy = TRUE
    EarlyTimeout = FALSE
    MaxEdgeReboots = 1
    MaxHubReboots = 1
    MaxSinkFailures = 0
PROPERTIES
    SessionHeals
