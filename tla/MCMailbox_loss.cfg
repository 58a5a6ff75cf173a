SPECIFICATION Spec
CONSTANTS
    Channels = {"a", "b"}
    Rank <- MCRank
    None = None
    Limits = {1, 2}
    Filters <- MCFilters
    MaxMessages = 2
    MaxRestarts = 1
INVARIANTS
    NoMessageLoss
