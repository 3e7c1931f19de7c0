SPECIFICATION Spec
CONSTANTS
    Files <- MCFiles
    NoFile = NoFile
    a = a
    b = b
    NChunks <- TwoChunks
    SwapIds = 2
    MaxSkip = 1
    DiagnosisPolls = 1
    Lossy = TRUE
    EarlyTimeout = TRUE
    MaxEdgeReboots = 1
    MaxHubReboots = 1
    MaxSinkFailures = 1
INVARIANTS
    WholeDownlinks
    InOrder
PROPERTIES
    KeepsPromise
SYMMETRY Swapped
