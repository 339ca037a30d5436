SPECIFICATION QueueSpec
CONSTANTS
    None = None
    first = first
    older = older
    past = past
    mine = mine
    theirs = theirs
    add = add
    repeatAll = repeatAll
    remove = remove
    again = again
    First = first
    Older = older
    Past = past
    Own = {mine}
    Others = {theirs}
    OwnEdit = {add, repeatAll}
    OtherEdit = {remove, again}
    Repeats = {repeatAll, again}
    Unshown = {}
    Bars <- MCBars
    Recipes = {}
    Remembered = 1
    MaxChances = 2
INVARIANTS
    StartsAgree
CHECK_DEADLOCK FALSE
