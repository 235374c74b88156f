CONSTANTS
    MAX_BTN_NKEYS = 20
    BTREE_INFO_LEN = 2
    ObjIdBits = 4
    NameLenSpan = 4
    XfAlign = 2
    MAX_XF_NUM_EXTS = 8
    MAX_SNAP_NAME_LEN = 6
    IntBits = 4
    MAX_DECMPFS_XATTR_BYTES = 4
    Volumes <- MCVolumes
SPECIFICATION Spec
INVARIANTS
    TypeOK
    ListingIsExact
    PathIsTrue
    MissIsTrue
    WrongCellStaysLocal
PROPERTIES
    NavigateReturns
