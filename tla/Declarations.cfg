SPECIFICATION Spec
CONSTANTS
    Names <- MCNames
    StorableNames <- MCStorable
    VerbNames = {"plus"}
    DirectiveNames <- MCDirectives
    MaximumTextLength <- MCMaximumTextLength
    Literals <- MCLiterals
    NaN = NaN
    Infinity = Infinity
    LLFPL_MEMORY_ARENA_MAXIMUM_SIZE_IN_BYTES = 2
    LLFPL_MEMORY_ARENA_REGISTRY_CAPACITY = 1
    GuaranteedBindings = 1
    MaximumModules = 2
CHECK_DEADLOCK FALSE
INVARIANTS
    ReportedOnce
PROPERTIES
    EffectsAreWritten
    LegalNeverRefused
