SPECIFICATION FairSpec
CONSTANTS
    c1 = c1
    c2 = c2
    Clients = {c1, c2}
    Persistent = {c2}
    Chunk = 2
    MaxLen = 2
    Rounds = 1
    MAXPENDING = 0
    ProcLimit = 1
    Killable = {c1}
PROPERTIES
    ClosedEnds
CHECK_DEADLOCK FALSE
