\* Every launch: windows around the protocol, SDK and foreign binaries, every failure.
CONSTANTS
    MaxUint32 = 3
    Texts = {"sock"}
    Windows <- MCWindows
    Sockets <- MCSockets
    ForeignLines <- MCForeignLines
    LongLine = LongLine
    NoLine = NoLine
SPECIFICATION FairSpec
INVARIANTS
    TypeOK
    LaunchAgrees
    RefusalClean
    FailedLaunchStopsAll
    OneWaiter
    ServedWhileRunning
PROPERTIES
    FailedLaunchEnds
    WaitExitEnds
