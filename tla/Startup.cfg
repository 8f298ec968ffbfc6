CONSTANTS
    Lines <- SomeLines
    MaxString = 4
    MaxBuffer = 65535
    Stack <- SomeStack
    Interfaces <- TwoInterfaces
    Addresses = 2
    SocketFile <- Socket5432
    LeftPaths <- OldSocket
    MaxPath = 3
    MaxFds = 3
    Engines <- SomeEngines
SPECIFICATION Spec
CHECK_DEADLOCK FALSE
INVARIANTS
    TypeOK
    ServerFromFile
    DumpFits
    LogIsOpen
    ListenersExact
    ClosesOwn
    WorkerDescriptors
    ReleasesAll
