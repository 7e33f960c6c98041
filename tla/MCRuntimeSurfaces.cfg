\* A surface is declared between Init and Start.
CONSTANTS
    Calls = {c1}
    NoCall = NoCall
    Kinds = {"Init"}
    Jobs = {}
    Watchdog = Watchdog
    Surfaces = {s1}
SPECIFICATION Spec
INVARIANT
    AcceptedSurfacesAnnounced
