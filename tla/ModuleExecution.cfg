SPECIFICATION Spec
CONSTANTS
    Names = {"x"}
    Specifications <- MCSpecifications
    SourceSpecifications <- MCSourceSpecifications
    AbsoluteSpecifications = {"/main"}
    Directories <- MCDirectories
    RootDirectory = "/"
    WorkingDirectory = "cwd"
    SearchDirectories <- MCSearchDirectories
    Files <- MCFiles
    DirectoryOf <- MCDirectoryOf
    Entry <- MCEntry
    MappableFiles <- MCFiles
    EmptyFiles = {"app/void"}
    Vocabulary <- MCVocabulary
    MaximumTextLength <- MCMaximumTextLength
    LLFPL_MAXIMUM_LOADED_MODULES = 3
    MaximumExecutions = 2
CHECK_DEADLOCK FALSE
INVARIANTS
    TypeOK
    EachModuleOnce
    FailuresReported
    OutputIsInclusion
PROPERTIES
    FailureStopsSession
    FailedSessionIsInert
    ExecutionReturns
