SPECIFICATION Spec
CONSTANTS
    Names <- MCNames
    StorableNames <- MCStorableNames
    Values = {1, 2}
    PrimarySlots = 2
    TotalSlots = 4
    HomeSlots <- MCHomeSlots
INVARIANTS
    ChainsComplete
PROPERTIES
    Implements
    EveryCallReturns
