\* What must eventually happen, RPC after RPC.
CONSTANTS
    Calls = {c1}
    NoCall = NoCall
    Kinds = {"Init", "Start", "Stop", "Shutdown"}
    Jobs = {j1}
    Watchdog = Watchdog
    Surfaces = {}
SPECIFICATION TalkingSpec
PROPERTIES
    WakeUpEndsProcess
    DrainEnds
    LockGranted
    CoreDeathEndsModule
