SPECIFICATION FairSpec
CONSTANTS
    e1 = e1
    e2 = e2
    s1 = s1
    s2 = s2
    Events <- MCOneEvent
    Filters = {}
    Sendable <- MCSendable
    Stoppers <- MCStoppers
    MaxHandled = 1
    MaxTime = 2
    MaxDelay = 1
    MaxLag = 0
PROPERTIES
    FinishEndsLoop
    LoopServes
CHECK_DEADLOCK FALSE
