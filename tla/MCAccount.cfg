SPECIFICATION SumSpec
CONSTANTS
    a = a
    b = b
    add = add
    remove = remove
    step = step
    shared = shared
    other = other
    added = added
    c1 = c1
    None = none
    Queue <- MCQueue
    List <- MCList
    Edit <- MCEdit
    Client <- MCClient
    Base <- MCBase
    On <- MCOn
    Adds <- MCAdds
    Drops <- MCDrops
    Adjusting <- MCAdjusting
    RememberedEdits = 2
    MaxEdits = 3
    MaxFaults = 2
    phone = phone
    desk = desk
    pause = pause
    move = move
    here = here
    Device <- MCDevice
    Command <- MCCommand
    Content <- MCContent
    Place <- MCPlace
    Leavers <- MCLeavers
    Reports <- MCReports
    MaxConnections = 2
    Outbox = 2
    Remembered = 1
    MaxWaiting = 2
    MaxReports = 2
    MaxSends = 2
INVARIANTS
    LastStateQueuedIsCurrent
    NoCommandWaitsOnTheGone
    PassedOnOnce
    StoredQueuesAreWhole
    MemoryIsWhole
    UnsavedIsNoticed
    KeptIsNotPlaying
PROPERTIES
    EditsOutliveJobs
CHECK_DEADLOCK FALSE
