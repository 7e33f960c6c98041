\* Two goroutines log through a handler and a copy of it while the watchdog
\* pings.  A run may stop: with nothing left to log and no watchdog, nobody moves.
CONSTANTS
    Goroutines = {g1, g2}
    Root = root
    Handlers = {root, copy}
    None = None
    MaxRecords = 3
    MaxRecordsBeside = 1
    MaxDrops = 1
    SendWindow = 1
SPECIFICATION FairSpec
INVARIANTS
    TypeOK
    Whereabouts
    NoHoles
PROPERTIES
    ImplementsLog
    HandleReturns
    WatchdogResumes
    WatchdogReturns
CHECK_DEADLOCK FALSE
