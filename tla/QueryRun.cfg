CONSTANTS
    Threads <- MCThreads
    Dirs <- MCDirs
    Root = "r"
    Up <- MCUp
    Indexes <- MCIndexes
    Options <- MCOptions
    Capacity = 2
    None = None
SPECIFICATION Spec
INVARIANTS RowsExactlyOnce RowsNotTorn OwnDatabases
