\* Safety of a module: two RPCs of any kind in flight, one job, the watchdog, a surface.
CONSTANTS
    Calls = {c1, c2}
    NoCall = NoCall
    Kinds = {"Init", "Start", "Stop", "Shutdown", "Health", "HealthWatch"}
    Jobs = {j1}
    Watchdog = Watchdog
    Surfaces = {s1}
SYMMETRY Symmetry
SPECIFICATION Spec
INVARIANTS
    TypeOK
    StopSeesNoJob
    CallbacksExclude
    CleanExit
    HostPresent
    LossNotMissed
    InitRetryable
PROPERTY
    ImplementsContract
