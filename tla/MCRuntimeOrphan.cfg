\* Core dies before an Init succeeded.
CONSTANTS
    Calls = {c1}
    NoCall = NoCall
    Kinds = {"Init"}
    Jobs = {}
    Watchdog = Watchdog
    Surfaces = {}
SPECIFICATION ServedSpec
PROPERTY
    CoreDeathEndsProcess
