SPECIFICATION Spec
CONSTANTS
    Tasks = {1, 2, 3}
    Agents = {"a1", "a2"}
    Keys = {"k1", "k2", "server"}
    Channels = {"chat"}
    Topics = {"topic"}
    None = None
    ServerKey = "server"
    ServerAgent = "a1"
    Threshold = 2
    ReplayWindow = 1
    MaxClock = 2
    MaxAdmin = 1
    MaxFaults = 1
    MaxPolls = 3
    Scenarios <- MCScenarios
CHECK_DEADLOCK FALSE
INVARIANTS
    RequestsTypeOK
    NoncesBuyOneRequest
    
    AnswersAreTrue
PROPERTIES
    RequestsEnd
