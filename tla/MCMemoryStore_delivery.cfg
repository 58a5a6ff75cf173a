SPECIFICATION Spec
CONSTANTS
    Agents = {a1, a2}
    Channels = {"chat", "sox/presence"}
    Rank <- MCRank
    Presence = "sox/presence"
    Groups = {}
    Patterns = {"*", "chat"}
    Matches <- MCMatches
    Opaque = Opaque
    None = None
    Limits = {1, 50}
    Statuses = {}
    TTLs = {0}
    DefaultTTL = 2
    AckStatuses = {}
    AckIds = {}
    MaxMessages = 3
    MaxTime = 1
SYMMETRY MCSymmetry
INVARIANTS
    TypeOK
    SeqGapFree
    SettledIsPrefix
    DeliveredOnce
    ReadInOrder
    
PROPERTIES
    ImplementsPort
