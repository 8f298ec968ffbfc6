CONSTANTS
    w1 = w1
    w2 = w2
    Workers <- TwoWorkers
    NoPid = NoPid
    MaxConnections = 1
    MaxMessages = 1
SPECIFICATION FairSpec
CHECK_DEADLOCK FALSE
INVARIANTS
    TypeOK
    ActiveConnectionsExact
    CounterPerClient
    StatisticsComplete
PROPERTIES
    ShutdownTerminates
    QuitWorkerEnds
