SPECIFICATION Spec
CONSTANTS
    NoPid = NoPid
    p1 = p1
    p2 = p2
    p3 = p3
    Pids = {p1, p2}
    MAXCHILDS = 2
    MaxForks = 4
INVARIANTS
    RoomForMaximum
CHECK_DEADLOCK FALSE
