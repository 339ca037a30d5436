SPECIFICATION SumSpec
CONSTANTS
    Root = {1, 2}
    Path <- MCPath
    Folder <- MCFolder
    Held = {}
    NewScans <- MCLibraryScans
    Window = 1
    MaxDay = 3
    MaxChanges = 2
    MaxStops = 1
    Job = {0, 1}
    LibraryOf <- MCLibraryOf
    Files <- MCFilesOf
    Broken = {2}
    Place <- MCPlace
    Size = 2
    Limit = 1
    MaxEdits = 1
    MaxFaults = 2
INVARIANTS
    PassedFoldersAreIndexed
    NothingIsDecodedTwice
    ALibraryLeavesAThread
PROPERTIES
    DroppedRootsMarkNothing
    PurgedAfterWalkOrMistake
CHECK_DEADLOCK FALSE
