CONSTANTS
    w1 = w1
    w2 = w2
    Workers <- TwoWorkers
    Main = main
    EngineMissing = TRUE
    NoPid = NoPid
    MaxConnections = 2
    MaxMessages = 1
SPECIFICATION SystemSpec
CHECK_DEADLOCK FALSE
SYMMETRY WorkerSymmetry
INVARIANTS
    RegistrySound
    LostOnlyByOverwrite
    ShutdownReachesRegistered
    SemaphoreSurvives
    LockLeftOnlyByDead
