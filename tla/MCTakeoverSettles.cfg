SPECIFICATION Spec
CONSTANTS
    None = None
    laptop = laptop
    tablet = tablet
    Device = {laptop, tablet}
    MaxConnections = 2
    MaxCommands = 3
    MaxFaults = 0
INVARIANT SettlesOnTheTruth
CHECK_DEADLOCK FALSE
