CONSTANTS
    BlockSize = 2
    Image <- MCImage
    AddrLimit = 20
    CHUNK_SIZE = 2
    MAX_FILE_BYTES = 8
    MAX_DECMPFS_XATTR_BYTES = 5
    Files <- MCFiles
    Windows <- MCWindows
SPECIFICATION Spec
INVARIANTS TypeOK NothingInvented ContentIsRestored SizeIsLength
PROPERTY ReadReturnsAtLast
