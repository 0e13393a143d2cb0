SPECIFICATION Spec
CONSTANTS
    Digits = {"1"}
    Heads = {"e"}
    Spaces <- MCSpaces
    LineBreak <- Break
    MaximumLength <- MCMaximumLength
    SpecificationCapacity = 3
CHECK_DEADLOCK FALSE
INVARIANTS
    NothingSkipped
    PlacedExactly
    PathIsVerbatim
    LongestToken
PROPERTIES
    ReadingEnds
