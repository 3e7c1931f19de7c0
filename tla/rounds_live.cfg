SPECIFICATION FairSpec
CONSTANTS
    None = None
    Configs = {"f", "a", "s", "r", "n"}
    Factory = "f"
    Carries <- FiveWays
    NChunks = 2
    Window = 2
    CeilingWindows = 2
    SwapAfter = 1
    GiveUpAfter = 3
    RecoverAfter = 2
    Attempts = 2
    Secure = FALSE
    Lossy = FALSE
    MayIdle = FALSE
    MidFile = FALSE
    MaxChanges = 1
    MaxPlain = 0
    MaxEdgeReboots = 1
    MaxHubRestarts = 0
    Foreign = FALSE
    Ceiling = 1
    MaxWishes = 2
    MaxRefusals = 1
    MaxRosterFaults = 1
    MaxStateFaults = 0
    MaxRestarts = 1
    BridgeConfigs = {"f", "g"}
    Home = "f"
    Wrap = 3
    SilentBeforeRecovery = 2
    Tries = 1
    Streams = TRUE
    MayWedge = TRUE
    MayBeAnother = FALSE
    MaxStacked = 2
    MaxLosses = 1
    MaxImpatience = 1
INVARIANTS
    
    ActsOnce
    OwnAnswers
PROPERTIES
    TrialEnds
    
    NobodyStarves
    Reconciles
    Recovers
    
