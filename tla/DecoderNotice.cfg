CONSTANTS
    ColumnRoom = 100
    DumpRoom = 100
    ClientScript <- NoticeClient
    ServerScript <- NoticeServer
    Orderly = TRUE
    MaxChunk = 16
    MaxSplits = 0
SPECIFICATION Spec
CHECK_DEADLOCK FALSE
INVARIANTS
    TraceComplete
