SPECIFICATION Spec
CONSTANTS
    HEADER_SIZE = 12
    PAGE_SIZE = 20
    NPAGES = 4
    WORD = 160
    REQUESTS = {1, 9, 100, 130, 150, 159}
    COUNTS = {1, 5}
INVARIANTS
    TypeOK
    BlocksDisjoint
    BlocksTilePages
    LiveBlocks
    ChainComplete
PROPERTIES
    RefinesAllocator
    CallReturns
