SPECIFICATION FairSpec
CONSTANTS
    NoId = NoId
    s1 = s1
    s2 = s2
    c1 = c1
    c2 = c2
    Servers = {s1, s2}
    Clients = {c1, c2}
    Killable = {s1, c1}
INVARIANTS
    TypeOK
    WritersExclude
    ReadsMessage
PROPERTIES
    ClientEnds
    ServerEnds
CHECK_DEADLOCK FALSE
