SPECIFICATION Spec
CONSTANTS
    NoId = NoId
    s1 = s1
    s2 = s2
    c1 = c1
    c2 = c2
    Servers = {s1}
    Clients = {c1, c2}
    Killable = {}
INVARIANTS
    ServerAlone
CHECK_DEADLOCK FALSE
