CONSTANTS
    NX_MINIMUM_BLOCK_SIZE = 1
    NX_MAXIMUM_BLOCK_SIZE = 2
    MAX_CPM_COUNT = 4
    AddrSpace = 16
    Images <- MCImages
    RingSize = 8
    MaxMaps = 3
    MaxXid = 4
    MaxCrashes = 2
SPECIFICATION RecoverySpec
INVARIANTS
    RecoversLastCheckpoint
    CrashNeverBlocksOpen
