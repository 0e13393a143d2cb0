SPECIFICATION Spec
CONSTANTS
    Names = {"a", "b", "c", "overlong"}
    StorableNames = {"a", "b", "c"}
    LLFPL_MEMORY_ARENA_REGISTRY_CAPACITY = 2
    LLFPL_MEMORY_ARENA_MAXIMUM_SIZE_IN_BYTES = 5
    WordSize = 24
    PointerWidth = 2
    Alignments = {1, 4, 6}
    RequestedSizes = {0, 1, 5, 6}
    ForeignSizes = {3}
INVARIANTS
    ArenasOwnTheirLines
    NothingLeaked
PROPERTIES
    Implements
