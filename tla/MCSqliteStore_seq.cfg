SPECIFICATION Spec
CONSTANTS
    p1 = p1
    p2 = p2
    t1 = t1
    t2 = t2
    Procs = {p1}
    Tasks = {t1, t2}
    ProcOf <- MCOneProcess
    Agents = {a1, a2}
    Channels = {"chat"}
    Rank <- MCRank
    None = None
    Scopes = {None}
    Limits = {2}
    MaxMessages = 2
    MaxFaults = 1
INVARIANTS
    SeqUnique
