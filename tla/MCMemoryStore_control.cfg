SPECIFICATION Spec
CONSTANTS
    Agents = {a1, a2}
    Channels = {"group/g", "sox/presence"}
    Rank <- MCRank
    Presence = "sox/presence"
    Groups = {"group/g"}
    Patterns = {"group/g"}
    Matches <- MCMatches
    Opaque = Opaque
    None = None
    Limits = {1}
    Statuses = {"online", "offline"}
    TTLs = {0, 1}
    DefaultTTL = 2
    AckStatuses = {"done"}
    AckIds = {1}
    MaxMessages = 2
    MaxTime = 1
SYMMETRY MCSymmetry
INVARIANTS
    IdsAreDense
    
PROPERTIES
    MembershipIsEarned
