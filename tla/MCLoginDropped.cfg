SPECIFICATION Spec
CONSTANTS
    phone = phone
    desk = desk
    Device <- MCDevice
    SignedInFirst <- MCSignedIn
    MaxConnections = 2
    Outbox = 2
    MaxFailures = 0
INVARIANTS
    EveryLoginIsShown
CHECK_DEADLOCK FALSE
