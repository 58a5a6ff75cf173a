SPECIFICATION Spec
CONSTANTS
    Hooks = {h1, h2}
    None = None
    Threshold = 2
    WatchesPresence = TRUE
    MaxCalls = 5
    MaxMessages = 2
    MaxFaults = 1
CHECK_DEADLOCK FALSE
INVARIANTS
    TypeOK
    CountersAreExact
    SilenceIsBounded
    
PROPERTIES
    HooksEnd
