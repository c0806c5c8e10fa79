SPECIFICATION FairSpec
CONSTANTS
    e1 = e1
    e2 = e2
    s1 = s1
    s2 = s2
    Events <- MCOneEvent
    Filters = {}
    Sendable <- MCSendable
    Stoppers <- MCOneStopper
    MaxHandled = 1
    MaxTime = 1
    MaxDelay = 1
    MaxLag = 0
PROPERTIES
    StopIsObeyed
CHECK_DEADLOCK FALSE
