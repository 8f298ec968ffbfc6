CONSTANTS
    ColumnRoom = 100
    DumpRoom = 100
    ClientScript <- NotifiedClient
    ServerScript <- NotifiedServer
    Orderly = FALSE
    MaxChunk = 16
    MaxSplits = 2
SPECIFICATION Spec
CHECK_DEADLOCK FALSE
INVARIANTS
    TraceFaithful
