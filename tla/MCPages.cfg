SPECIFICATION SumSpec
CONSTANTS
    None = None
    laptop = laptop
    tablet = tablet
    Device = {laptop, tablet}
    MaxConnections = 3
    MaxCommands = 2
    MaxFaults = 1
    song = song
    tune = tune
    hymn = hymn
    addable = addable
    First <- MCFirst
    Addable = {addable}
    LaterOps <- MCLaterOps
    OtherOps <- MCOtherOps
    KeyGap = 2
    PageSize = 2
    Tries = 2
    MaxEdits = 2
    MaxOthers = 3
    MaxMishaps = 1
INVARIANTS
    ListIsWhatEditsMade
    ConfirmedIsStored
    DroppedIsNotApplied
PROPERTIES
    OneDevicePlays
CHECK_DEADLOCK FALSE
