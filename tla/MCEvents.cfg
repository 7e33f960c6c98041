\* Two goroutines publish, two subscribe, one of which may stop reading.  A run may
\* stop: with nothing left to publish, everybody waits.
CONSTANTS
    s1 = s1
    s2 = s2
    Streams = {s1, s2}
    Readers = {s1}
    Breakable = {s2}
    p1 = p1
    p2 = p2
    Publishers = {p1, p2}
    Module <- MCModule
    Topics <- MCTopics
    Patterns <- MCPatterns
    Window = 1
    QueueSize = 1
    MaxEvents = 2
SPECIFICATION FairSpec
INVARIANTS
    TypeOK
    PublisherOrder
    Accounted
PROPERTIES
    ImplementsEvents
    PublishReturns
    Delivered
    Closes
CHECK_DEADLOCK FALSE
