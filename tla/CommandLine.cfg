SPECIFICATION CommandLineSpec
CONSTANTS
    Arguments <- MCSpellings
    Spelled <- MCSpelled
    Attached <- MCAttached
    Introducing = {"-I", "-Idir", "--module-path=", "--", "-h", "-v", "-q"}
    EMPTY = ""
    MaximumArguments = 5
    SourceFiles = {"main.LLFPL"}
    OverlongDirectories = {"main.LLFPL"}
    Discoverable <- MCDiscoverable
    LLFPL_MAXIMUM_MODULE_SEARCH_DIRECTORIES = 2
INVARIANTS
    ParsedAsMeant
    SearchedInOrder
