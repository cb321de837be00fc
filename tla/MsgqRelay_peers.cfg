SPECIFICATION Spec
CONSTANTS
    Clients <- MCClients
    Dests <- MCOneReader
    AdoptivePid = 1
    Capacity = 2
    MAXSIZE = 2
    MaxLength = 2
    MaxLines = 2
INVARIANTS
    TypeOK
    RightReader
    TextPrefix
PROPERTIES
    KeepsPromise
CHECK_DEADLOCK FALSE
