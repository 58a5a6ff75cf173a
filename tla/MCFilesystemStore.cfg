SPECIFICATION Spec
CONSTANTS
    p1 = p1
    p2 = p2
    Procs = {p1, p2}
    Agents = {"a1", "a2"}
    Channels = {"chat", "sox/presence", "group/g"}
    Groups = {"group/g"}
    Presence = "sox/presence"
    Statuses = {"online", "busy"}
    None = None
    Limits = {1}
    Scenarios <- MCScenarios
    MaxMessages = 2
    MaxFaults = 1
CHECK_DEADLOCK FALSE
INVARIANTS
    TypeOK
    
    SeqGapFree
    MembersFollow
PROPERTIES
    WatchSees
