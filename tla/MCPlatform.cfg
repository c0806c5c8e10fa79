SPECIFICATION PlatformSpec
CONSTANTS
    Events = {e1, e2}
    Filters = {{e1}, {e2}}
    Sendable = {3, 4} \* LOW and IDLE of EventQueue
    OtherThreads = FALSE
    MaxHandled = 1
    MaxTime = 2
    MaxDelay = 1
    MaxLag = 0
INVARIANTS
    TypeOK
    TimerCoversQueue
    PlatformSafe
PROPERTIES
    QueueContract
    Served
    FramesReturn
CHECK_DEADLOCK FALSE
