SPECIFICATION QueuesSpec
CONSTANTS
    a = a
    b = b
    add = add
    step = step
    shared = shared
    other = other
    c1 = c1
    None = none
    Queue <- MCQueue
    List <- MCList
    Edit <- MCEdit
    Client <- MCClient
    Base <- MCBase
    On <- MCOn
    Adds <- MCAdds
    Drops <- MCDrops
    Adjusting <- MCAdjusting
    RememberedEdits = 2
    MaxEdits = 2
    MaxFaults = 0
INVARIANT
    NoneIsUnusedForBeingNew
CHECK_DEADLOCK FALSE
