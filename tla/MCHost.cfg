SPECIFICATION Spec
CONSTANTS
    Openers = {p1, p2}
    MaxRows = 3
    MaxDeaths = 2
    Absent = Absent
    HostVersion <- MCHostVersion
    MaxLoads = 2
    AgentFiles = {f1}
    MaxCommands = 2
    MaxEdits = 2
    Nowhere = Nowhere
    Users = {u1, u2}
    Chans = {c1, c2}
    InitialChannel = c1
    PageSize = 2
INVARIANTS
    
    
    InstallKeepsAndCompletes
    
    SavedMeansHandled
PROPERTY
    CallsAndAppEnd
CHECK_DEADLOCK FALSE
