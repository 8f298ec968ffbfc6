CONSTANTS
    ColumnRoom = 2
    DumpRoom = 3
    ClientScript <- SessionClient
    ServerScript <- SessionServer
    Orderly = TRUE
    MaxChunk = 24
    MaxSplits = 0
SPECIFICATION Spec
CHECK_DEADLOCK FALSE
INVARIANTS
    TypeOK
    TraceComplete
    StopsOnlyConfused
PROPERTIES
    FieldsMatchMessage
    ImplementsMessageTrace
