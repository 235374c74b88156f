CONSTANTS
    MAX_BTREE_DEPTH = 3
    AddrLimit = 50
    Trees <- MCTrees
    Queries <- MCQueries
SPECIFICATION Spec
INVARIANTS
    AnswerIsReal
    ResolvesFloor
PROPERTIES
    ImplementsVersionedMap
