\* A client keeps a health stream open across a Shutdown.
CONSTANTS
    Calls = {c1, c2}
    NoCall = NoCall
    Kinds = {"Shutdown", "HealthWatch"}
    Jobs = {}
    Watchdog = Watchdog
    Surfaces = {}
SPECIFICATION TalkingSpec
PROPERTY
    ShutdownEndsProcess
