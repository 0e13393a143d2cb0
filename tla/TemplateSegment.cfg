SPECIFICATION Spec
CONSTANTS
    Names <- MCNames
    StorableNames <- MCStorable
    VerbNames = {"plus"}
    DirectiveNames = {"Commit"}
    Literals = {1}
    MaximumTextLength <- MCMaximumTextLength
    LLFPL_TEMPLATE_SEGMENT_CAPACITY = 2
    LLFPL_TEMPLATE_PARAMETER_CAPACITY = 1
    LLFPL_TEMPLATE_INDEX_SLOT_COUNT = 3
    HomeSlots <- MCHomes
PROPERTIES
    Implements
    LegalNeverRefused
    EveryCallReturns
