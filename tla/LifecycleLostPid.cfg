CONSTANTS
    w1 = w1
    w2 = w2
    Workers <- TwoWorkers
    NoPid = NoPid
    MaxConnections = 2
    MaxMessages = 0
SPECIFICATION Spec
SYMMETRY WorkerSymmetry
CHECK_DEADLOCK FALSE
INVARIANTS
    EveryConnectionRegistered
