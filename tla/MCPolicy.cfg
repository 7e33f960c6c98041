\* Two goroutines change the policy while a module watches it.  A run may stop:
\* with no change left to make, everybody waits.
CONSTANTS
    Setters = {s1, s2}
    Streams = {w1}
    MaxRevision = 4
    Window = 2
SPECIFICATION FairSpec
INVARIANTS
    TypeOK
    NoLostWakeup
    UpToDate
PROPERTIES
    ImplementsPolicy
    Converges
    Closes
CHECK_DEADLOCK FALSE
