CONSTANTS
    Dirs <- MCDirs
    Root = "r"
    Listing <- MCListing
    Stat <- MCStat
    Locked = {"a"}
    Action <- MCAction
    Skip = {"s"}
    Nobody = 99
    Options <- MCOptions
    NoDir = NoDir
    Scratch = Scratch
    LineLengths <- MCLineLengths
SPECIFICATION Spec
INVARIANTS Complete ModesExact XattrsPlaced
