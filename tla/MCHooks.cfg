SPECIFICATION FairSpec
CONSTANTS
    Library = {1, 2}
    Key <- MCKey
    Required = {"finished"}
    Grants <- MCGrants
    Slots = 1
    Batch = 1
    Backoff = 1
    MaxBackoff = 1
    MaxFailing = 1
    MaxChances = 4
INVARIANTS
    PositionTellsTheHandled
PROPERTIES
    RetriesWait
    DueIsDelivered
CHECK_DEADLOCK FALSE
