SPECIFICATION Spec
CONSTANTS
    Handles = {h1, h2, h3, h4, h5, h6, h7, h8}
    NULL = NULL
    LLFPL_MEMORY_ARENA_REGISTRY_CAPACITY = 2
    LLFPL_MAXIMUM_LOADED_MODULES = 1
    ReportedSizes = {0, 1, 4, 6, 8, 32}
    PointerWidth = 2
    WidthLimit = 15
    LLFPL_FALLBACK_CACHE_LINE_SIZE_IN_BYTES = 4
    LLFPL_VIRTUAL_REGISTER_COUNT = 4
INVARIANTS
    TypeOK
    NothingLeft
    OwnedOnce
    OnlyMemoryRefused
