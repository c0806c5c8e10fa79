SPECIFICATION LifecycleSpec
CONSTANTS
    a1 = a1
    a2 = a2
    undeclared = undeclared
    b = b
    k1 = k1
    k2 = k2
    k3 = k3
    entry = entry
    feature = feature
    w1 = w1
    w2 = w2
    Instances <- MCInstances
    Modules <- MCModules
    Keys <- MCKeys
    Wants <- MCTwoWants
    ModuleOf <- MCModuleOf
    KeyOf <- MCKeyOf
    Packaged <- MCPackaged
    Dynamic <- MCDynamic
    Declared <- MCDeclared
    Builds <- MCBuilds
    OnRunnerThread = FALSE
    MaxPosted = 2
    StateFunctions = {"f"}
    MaxRegistrations = 3
    MaxHappenings = 2
    EventWindows <- MCEventWindows
    EventManagers = {"stages"}
    EventManagerOf <- MCManagerOf
    WindowFunctions = {"f", "g"}
    MaxWindowListeners = 2
    MaxWindowEvents = 2
    DisplayTypes <- MCDisplayTypes
    DisplayFunctions = {"f", "g"}
    MaxDisplayListeners = 2
    MaxDisplayEvents = 2
PROPERTIES
    NewWantIsNew
CHECK_DEADLOCK FALSE
