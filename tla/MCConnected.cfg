SPECIFICATION SumSpec
CONSTANTS
    phone = phone
    desk = desk
    Device <- MCDevice
    SignedInFirst <- MCSignedIn
    MaxConnections = 2
    Outbox = 2
    MaxFailures = 1
    none = none
    first = first
    older = older
    past = past
    chosen = chosen
    elsewhere = elsewhere
    add = add
    repeatAll = repeatAll
    remove = remove
    again = again
    None = none
    First = first
    Older = older
    Past = past
    Own = {chosen}
    Others = {elsewhere}
    OwnEdit = {add, repeatAll, again}
    OtherEdit = {remove}
    Repeats = {repeatAll, again}
    Unshown = {}
    Bars <- MCBars
    Recipes = {chosen}
    Remembered = 1
    MaxChances = 3
    limiting = limiting
    changing = changing
    service = service
    redirected = redirected
    Run <- MCRun
    Plugin <- MCPlugin
    User <- MCUser
    Visible <- MCVisible
    Host <- MCHost
    Asked <- MCAsked
    Declares <- MCDeclares
    MayLimit <- MCMayLimit
    Exempt <- MCExempt
    Changing <- MCChanging
    MaxWait = 2
    MaxPause = 2
    Life <- MCLife
    Pause <- MCPause
    Kept = 1
    MaxTime = 2
    MaxRequests = 2
INVARIANTS
    SignedOutIsClosed
    QuietListsAreCurrent
    QuietIsCurrent
    ShownOnce
    EachKeepsItsGap
    WhatAChangeOutdatesIsForgotten
PROPERTIES
    NothingVanishes
    APauseIsKept
CHECK_DEADLOCK FALSE
