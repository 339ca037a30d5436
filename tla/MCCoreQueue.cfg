CONSTANTS
    a = a
    b = b
    c1 = c1
    c2 = c2
    None = None
    SourceKey = {a, b}
    CopyKey = {c1}
    Length <- MCLength
    Seed = {1}
    HistoryRuns = 2
    Starts = {a}
    MaxRows = 6
    MaxAdjusted = 2
    MaxBoth = 4
    MaxPlays = 3
    Rounds = 3
    Pivot <- MCPivot
    Coin <- MCCoin
SPECIFICATION Spec
INVARIANTS KeepsWhatIsRead SpansReadTheRows UnshuffleUndoes RewindIsPreviousRepeated
PROPERTIES KeepsItsPromise
CHECK_DEADLOCK FALSE
