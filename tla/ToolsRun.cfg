\* The tools that walk a tree with the pool, virtual tables, and aggregates.
SPECIFICATION Spec
CHECK_DEADLOCK FALSE
CONSTANTS
    Threads = {1, 2}
    Indexes <- MCIndexes
    Workers = {1, 2}
    Scenes <- MCScenes
    Capacity = 2
    Base = 3
    RowLenLen = 3
    ColCountLen = 2
    MaxLenOfLen = 2
    MaxScans = 2
    Scenarios <- MCAll
    Types <- MCTypes
    Answer <- MCAnswer
    NeedsSetup <- MCNeedsSetup
    Malformed <- MCMalformed
    Lines <- MCLines
    ColCounts <- MCColCounts
    Requests <- MCRequests
    HistAlloc = 40
    IntMax = 2048
    Rounded <- MCRounded
    Names <- MCNames
    NameLen <- MCNameLen
    NoName = {"", "c:d"}
INVARIANT OutliersExact
INVARIANT ToolsExact
 
INVARIANT NoProcessLeft
 
 
