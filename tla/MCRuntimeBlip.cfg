\* A dial to a live core fails once.
CONSTANTS
    Calls = {c1}
    NoCall = NoCall
    Kinds = {"Init"}
    Jobs = {}
    Watchdog = Watchdog
    Surfaces = {}
SPECIFICATION Spec
INVARIANT
    HostLostMeansCoreGone
