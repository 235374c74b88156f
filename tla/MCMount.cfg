CONSTANTS
    NX_MINIMUM_BLOCK_SIZE = 1
    NX_MAXIMUM_BLOCK_SIZE = 2
    NX_MAX_FILE_SYSTEMS = 3
    VolOid = 9
    Oids = {1, 10}
    SnapNodes <- MCSnapNodes
    Home <- MCHome
    Super <- MCSuper
    OddSupers <- MCOddSupers
    MaxXid = 4
    MaxAddr = 11
SPECIFICATION Spec
INVARIANTS
    TypeOK
    PointInTime
    RetainedIsReadable
