SPECIFICATION PassesSpec
CONSTANTS
    e1 = e1
    e2 = e2
    e3 = e3
    Events <- MCEvents
    Filters <- MCFilters
    Sendable <- MCSendable
    MaxHandled = 1
    MaxTime = 2
    MaxDelay = 1
    MaxLag = 1
SYMMETRY MCSymmetry
INVARIANTS
    TypeOK
    BoundedPasses
    ListsSorted
PROPERTIES
    KeepsOrder
    PassesOnlyInTurn
