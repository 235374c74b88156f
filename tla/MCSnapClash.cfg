CONSTANTS
    AddrLimit = 200
    MAX_DEPTH = 3
    Trees <- ClashTrees
    Walks <- SnapWalks
SPECIFICATION Spec
INVARIANT NoFalseCycleInSnapTree
