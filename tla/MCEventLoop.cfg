SPECIFICATION Spec
CONSTANTS
    e1 = e1
    e2 = e2
    s1 = s1
    s2 = s2
    Events <- MCEvents
    Filters <- MCFilters
    Sendable <- MCSendable
    Stoppers <- MCStoppers
    MaxHandled = 1
    MaxTime = 1
    MaxDelay = 1
    MaxLag = 0
SYMMETRY MCSymmetry
INVARIANTS
    TypeOK
    NoSleepAfterFinish
PROPERTIES
    QueueContract
    SilentAfterFinish
CHECK_DEADLOCK FALSE
