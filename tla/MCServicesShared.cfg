SPECIFICATION EventsSpec
CONSTANTS
    \* Two deposited threads.
    Threads = {"t1", "t2"}
    \* Two runners and a thread without one; the third event comes back from the pool.
    Runners = {"r1", "r2"}
    Clients = {"c1"}
    Events = {"e1", "e2", "e3"}
    MaxPool = 1
    MaxSends = 3
    \* A monitor of an ability and one of a stage, and a pool with one thread.
    Abilities = {"a1"}
    Stages = {"s1"}
    Monitors = {"m1", "k1"}
    StageMonitors = {"k1"}
    Watches <- MCWatches
    PoolSize = 1
    MaxCalls = 2
    Awaited = TRUE
    \* Two watchers of the same events.
    Watchers = {"w1", "w2"}
    NameOf <- MCOwnNameOf
    Receivers = {"w1"}
    RowOf <- MCRowOf
    TimeoutOf <- MCTimeoutOf
    KindsOf <- MCKindsOf
    MaxEvents = 2
    MaxClears = 0
    EventNames = {"n1", "every"}
    Keys = {"k1", "k2"}
    Values = {1, 2}
    MaxParams = 2
    MaxRows = 4
    Promises = {1, 2}
    Functions = {"f", "g"}
INVARIANT KeepsMappedEvents
CHECK_DEADLOCK FALSE
