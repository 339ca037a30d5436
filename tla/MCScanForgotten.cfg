SPECIFICATION Spec
CONSTANTS
    Root = {1, 2}
    Path <- MCPath
    Folder <- MCFolder
    Held = {}
    NewScans <- MCWholeScans
    Window = 1
    MaxDay = 3
    MaxChanges = 2
    MaxStops = 1
PROPERTIES
    PurgedOnlyAfterWalk
CHECK_DEADLOCK FALSE
