SPECIFICATION FairSpec
CONSTANTS
    Events = {e1}
    Filters = {}
    Sendable = {3, 4} \* LOW and IDLE of EventQueue
    OtherThreads = TRUE
    MaxHandled = 1
    MaxTime = 2
    MaxDelay = 1
    MaxLag = 0
PROPERTIES
    Served
CHECK_DEADLOCK FALSE
