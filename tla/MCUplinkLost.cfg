\* A record accepted by a stream that is gone reaches neither core nor stderr.
CONSTANTS
    Goroutines = {g1}
    Root = root
    Handlers = {root}
    None = None
    MaxRecords = 1
    MaxRecordsBeside = 1
    MaxDrops = 1
    SendWindow = 1
SPECIFICATION Spec
INVARIANTS
    NothingLost
CHECK_DEADLOCK FALSE
