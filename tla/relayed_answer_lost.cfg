SPECIFICATION Spec
CONSTANTS
    None = None
    RfConfigs = {"f", "r"}
    Factory = "f"
    Carries <- OneWayOrAll
    RfChunks = 1
    TrialWindow = 1
    CeilingWindows = 2
    SwapAfter = 1
    GiveUpAfter = 2
    RecoverAfter = 2
    Attempts = 1
    RfSecure = FALSE
    RfLossy = TRUE
    MayIdle = TRUE
    MidFile = FALSE
    MaxChanges = 1
    MaxPlain = 1
    MaxEdgeReboots = 0
    RfHubRestarts = 0
    Keys = {1, 2, 3, 4, 5, 6}
    MAX_COUNTER = 3
    SessionWindow = 2
    Tries = 2
    RecoveryAfter = 2
    Lossy = TRUE
    EarlyTimeout = TRUE
    MaxReboots = 1
    WINDOW = 4
    MaxCounter = 10
    Handles = {"RESET", "SET"}
    Types = {"RESET", "SET"}
    MaxCommands = 2
    MaxHubRestarts = 1
    MaxEdgeRestarts = 1
    MaxRotations = 1
    MaxDeadPulls = 1
    SaveMayFail = TRUE
    Part = Part
    Slots = {1, 2}
    Budget = 3
    HostQueueSize = 3
    CardQueueSize = 1
    MaxPayloads = 3
    HostCuts = 2
    CardCuts = 1
    CardDrops = 1
    SerialFiles = {"a", "b"}
    Wants <- SameName
    SerialChunks = 2
    SerialQueueSize = 2
    SerialLosses = 1
    SerialReboots = 1
    SerialImpatience = 1
    Factors = {10, 11}
    Bandwidths = {1, 2}
    FirstFactor = 10
    FirstBandwidth = 2
    Symbol <- SymbolTime
    Limit = 6
    RadioFrames = 3
    RadioSends = 2
    RadioTunes = 2
    Settings = {1, 2}
    Valid = {1}
    FirstSetting = 1
    Implicit = TRUE
    Endpoints = {"a", "b"}
    FileNames = {"m"}
    FileChunks = 2
    Replaces = TRUE
    MaxFiles = 1
    FileFaults = 1
    FileRestarts = 1
    Relays = {"r", "q"}
    MeshChunks = 2
    MAX_RETRANSMISSIONS_BEFORE_MESH = 1
    MAX_IDS_CACHED = 9
    MeshFrames = 4
    MeshMoves = 1
    BenchEdges = {"a", "b"}
    BenchHub = "h"
    BenchPorts <- FourPorts
    UsualPort <- Usually
    Deployments <- BenchPlans
    BoardNames <- Name
    Rates = {1, 2}
    Issued = 1
    BenchRuns = 2
    Settlements = 1
    Sides = {"edge", "hub"}
    Other <- Far
    Messages = {"m", "n"}
    GuardCap = 1
    BridgeQueueSize = 1
    ArtifactWrap = 2
    MaxEchoes = 1
    MaxPublished = 2
    MaxAgain = 1
    BridgeRestarts = 1
PROPERTIES
    AnswersInKind
CHECK_DEADLOCK FALSE
