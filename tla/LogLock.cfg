CONSTANTS
    Procs = {p1, p2, p3}
    NoProc = NoProc
    MaxSections = 2
    MaxLines = 2
SPECIFICATION FairSpec
CHECK_DEADLOCK FALSE
INVARIANTS
    DegradationBound
    ExclusiveUntilTimeout
PROPERTIES
    ImplementsLogSection
    EveryCallReturns
