SPECIFICATION FairSpec
CONSTANTS
    NoPid = NoPid
    p1 = p1
    p2 = p2
    p3 = p3
    Pids = {p1, p2, p3}
    MAXCHILDS = 4
    MaxForks = 5
INVARIANTS
    TypeOK
    AtMostOneMissed
PROPERTIES
    ZombiesReaped
CHECK_DEADLOCK FALSE
