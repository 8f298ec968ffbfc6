CONSTANTS
    Bytes = {"0", "c", "d", "C", "E", "F", "Q", "X", "Z", "C3"}
    HighBytes = {"C3"}
    Traffic <- QueryTraffic
    Eager = {"client"}
    Capacity = 2
    SaveTraffic = TRUE
    BufferSize = 2
SPECIFICATION FairSpec
CHECK_DEADLOCK FALSE
INVARIANTS
    TypeOK
    SavedBeforeSent
    EndsForReason
PROPERTIES
    ImplementsPipe
    EndOfFileIsLast
    Relays
    ClosedEnds
