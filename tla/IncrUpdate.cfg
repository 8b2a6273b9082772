SPECIFICATION FairSpec
CONSTANTS
    r = r
    a = a
    b = b
    Inodes = {1, 2, 3, 4, 5}
    Root = r
    Names = {a, b}
    Null = Null
    InitTrees <- Trees
    Method = 3
    MayNotOpen = {4}
    DbMayFail = TRUE
    MaxChanges = 3
    MaxDepth = 4
INVARIANTS
    ScanIsComplete
    NothingIsLost
    IndexMatches
PROPERTIES
    UpdateEnds
