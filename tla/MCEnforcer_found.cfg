SPECIFICATION Spec
CONSTANTS
    Hooks = {h1}
    None = None
    Threshold = 2
    WatchesPresence = FALSE
    MaxCalls = 5
    MaxMessages = 2
    MaxFaults = 0
CHECK_DEADLOCK FALSE
PROPERTIES
    FoundIsDrained
