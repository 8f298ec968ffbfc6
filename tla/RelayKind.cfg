CONSTANTS
    Bytes = {"0", "c", "d", "C", "E", "F", "Q", "X", "Z", "C3"}
    HighBytes = {"C3"}
    Traffic <- CopyTraffic
    Eager = {"client"}
    Capacity = 2
    SaveTraffic = TRUE
    BufferSize = 2
SPECIFICATION Spec
CHECK_DEADLOCK FALSE
INVARIANTS
    SuccessMeansTerminate
