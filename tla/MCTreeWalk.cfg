CONSTANTS
    AddrLimit = 200
    MAX_DEPTH = 3
    Trees <- MCTrees
    Walks <- AllWalks
SPECIFICATION Spec
INVARIANTS
    TypeOK
    OnlyRealRecords
    CycleGuardIsTrue
    WalkIsComplete
PROPERTIES
    WalkReturns
