SPECIFICATION FairSpec
CONSTANTS
    c1 = c1
    c2 = c2
    Children = {c1, c2}
    Monitor = 5
    NO_OF_MESSAGES = 2
    SocketBuffer = 1
    Killable = {c1}
INVARIANTS
    TypeOK
PROPERTIES
    Collects
    Finishes
CHECK_DEADLOCK FALSE
