\* Core dies while awaitDisconnect is between Connect and WaitForStateChange.
CONSTANTS
    Calls = {c1}
    NoCall = NoCall
    Kinds = {"Init"}
    Jobs = {}
    Watchdog = Watchdog
    Surfaces = {}
SPECIFICATION FairSpec
PROPERTY
    CoreDeathEndsModule
