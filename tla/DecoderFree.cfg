CONSTANTS
    ColumnRoom = 100
    DumpRoom = 100
    ClientScript <- PipelinedClient
    ServerScript <- PipelinedServer
    Orderly = FALSE
    MaxChunk = 24
    MaxSplits = 4
SPECIFICATION FairSpec
CHECK_DEADLOCK FALSE
INVARIANTS
    FaithfulUntilConfused
    StopsOnlyConfused
PROPERTIES
    TakesOneMessage
    HandlerReturns
