CONSTANTS
    NX_MINIMUM_BLOCK_SIZE = 1
    NX_MAXIMUM_BLOCK_SIZE = 2
    MAX_CPM_COUNT = 2
    AddrSpace = 8
    Images <- MCImages
SPECIFICATION Spec
INVARIANT LegalOpensAtAnySize
