SPECIFICATION PathsSpec
CONSTANTS
    Characters = {"/", ".", "a"}
    Trees <- MCTrees
    WorkingPlace <- MCWorking
    RequiredPaths <- MCSpecifications
    DirectoryLists <- MCDirectoryLists
    LLFPL_SOURCE_FILE_EXTENSION <- Letter
    LLFPL_MODULE_PATH_BUFFER_CAPACITY = 6
CHECK_DEADLOCK FALSE
INVARIANTS
    FirstThatFits
