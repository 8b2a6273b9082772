CONSTANTS
    Threads <- MCThreads
    Dirs <- MCDirs
    Root = "r"
    Up <- MCUp
    Indexes <- BadIndexes
    Options <- BadOptions
    Capacity = 2
    None = None
SPECIFICATION Spec
INVARIANT SwappedWorkIsDone
