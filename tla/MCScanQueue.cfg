SPECIFICATION FairSpec
CONSTANTS
    Root = {1, 2}
    Path <- MCPath
    Requests <- MCRequests
    MaxScans = 3
    MaxFailures = 1
    MaxStops = 1
INVARIANTS
    AcceptedWorkIsQueued
    AcceptedWorkIsRecorded
    QueueMatchesRows
    OneFollowUp
    SweepKeepsTheMaximal
PROPERTIES
    EndedRowsStay
    AcceptedWorkEnds
CHECK_DEADLOCK FALSE
