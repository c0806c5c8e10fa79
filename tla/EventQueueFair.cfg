SPECIFICATION FairSpec
CONSTANTS
    Events = {e1, e2}
    Filters = {{e1}, {e2}}
    Sendable = {0, 3, 4} \* VIP and LOW, which compete, and IDLE between them
    MaxHandled = 1
    MaxTime = 3
    MaxDelay = 2
    MaxLag = 1
INVARIANTS
    SleepCoversQueue
PROPERTIES
    IdleYields
    NoStarvation
    IdleServed
