\* The model stops when the heap is deleted.
SPECIFICATION Spec
CHECK_DEADLOCK FALSE
CONSTANTS
    Sizes = {1, 5, 7, 16, 18}
    arena_size = 26
    ALIGNMENT = 2
    SizeofArena = 2
    SizeofChunkHeader = 2
    SizeofHeader = 2
    MIN_SMALL_SIZE = 6
    MAX_SMALL_SIZE = 10
    LARGE_NUM = 4
    LARGE_SHIFT = 3
    NoChunk = NoChunk
    Stride = 52
    Maps = 2
INVARIANTS
    TypeOK
    BoundaryTags
    FreeListsExact
    ObjectsDisjoint
    NothingLeaks
PROPERTY
    BestFit
