SPECIFICATION SuiteSpec
CONSTANTS
    \* Two deposited threads.
    Threads = {"t1", "t2"}
    \* Two runners and a thread without one; the third event comes back from the pool.
    Runners = {"r1", "r2"}
    Clients = {"c1"}
    Events = {"e1", "e2", "e3"}
    MaxPool = 1
    MaxSends = 3
    \* A monitor of an ability and one of a stage, and a pool with one thread.
    Abilities = {"a1"}
    Stages = {"s1"}
    Monitors = {"m1", "k1"}
    StageMonitors = {"k1"}
    Watches <- MCWatches
    PoolSize = 1
    MaxCalls = 2
    Awaited = TRUE
    \* Two watchers of one name: the second takes the place of the first.
    Watchers = {"w1", "w2"}
    NameOf <- MCNameOf
    Receivers = {"w1"}
    RowOf <- MCRowOf
    TimeoutOf <- MCTimeoutOf
    KindsOf <- MCKindsOf
    MaxEvents = 3
    MaxClears = 1
    EventNames = {"n1", "every"}
    Keys = {"k1", "k2"}
    Values = {1, 2}
    MaxParams = 2
    MaxRows = 4
    Promises = {1, 2}
    Functions = {"f", "g"}
INVARIANTS
    TypesOK
    CollectorSafe
    WaitsAreAnswered
    DelegatorSafe
    EventsSafe
    RejectionsTold
    DataHolds
PROPERTIES
    ThreadsGoOn
    AnswersCome
CHECK_DEADLOCK FALSE
