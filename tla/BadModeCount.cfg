\* mode_count alone.
SPECIFICATION Spec
CHECK_DEADLOCK FALSE
CONSTANTS
    Threads = {1, 2}
    Indexes = {}
    Workers = {1, 2}
    Scenes = {}
    Capacity = 2
    Base = 3
    RowLenLen = 3
    ColCountLen = 2
    MaxLenOfLen = 2
    MaxScans = 2
    Scenarios = {}
    Types <- MCTypes
    Answer <- MCAnswer
    NeedsSetup <- MCNeedsSetup
    Malformed <- MCMalformed
    Lines <- MCLines
    ColCounts <- MCColCounts
    Requests <- MCCounts
    HistAlloc = 40
    IntMax = 2048
    Rounded <- MCRounded
    Names <- MCNames
    NameLen <- MCNameLen
    NoName = {"", "c:d"}
INVARIANT ModeIsMostFrequent
