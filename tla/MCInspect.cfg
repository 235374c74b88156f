CONSTANTS
    NX_MINIMUM_BLOCK_SIZE = 1
    NX_MAXIMUM_BLOCK_SIZE = 2
    MAX_CPM_COUNT = 5
    AddrSpace = 32
    Images <- AllImages
    WordBits = 8
    BlockWords = 11
    SpacemanOid = 1
    ReaperOid = 2
    MAX_REAP_LISTS = 3
    KeyAlign = 2
    MAX_KEYBAG_ENTRIES = 5
    Disks <- MCDisks
    MaxFaults = 1
SPECIFICATION InspectSpec
INVARIANTS
    LiveIsHighest
    MappingsAreLive
    EarliestMapWins
    NoSuperblockIsTrue
    LegalOpens
    PendingIsQueue
    LoopedQueueIsRefused
    FreeIsTrue
    ProtectionIsTrue
PROPERTIES
    RereadAgrees
    QueryReturns
