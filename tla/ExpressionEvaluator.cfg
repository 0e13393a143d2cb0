SPECIFICATION Spec
CONSTANTS
    QuantaPerUnit = 2
    MaximumMagnitude = 15
    ByteCardinality = 6
    RegisterCount = 2
    SynchronisedRegisterCount = 3
    MaximumEvaluationDepth = 4
    MaximumByteOffset = 4
    LoopCountCeiling = 4
    HardwareSynchronisation = TRUE
    Names <- MCNames
    Templates <- MCTemplates
    Identities <- MCIdentities
    ArenaCapacities <- MCArenaCapacities
    MaximumTextLength <- MCMaximumTextLength
INVARIANTS
    TypeOK
    SpillNeverExhausted
    LiveOperandsPreserved
    BalancedAtRest
    OutcomeIsMeaning
    AtMostOneDiagnostic
PROPERTIES
    CommittedValuePublished
    NothingAfterFailure
    Termination
