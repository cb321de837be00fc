SPECIFICATION FairSpec
CONSTANTS
    Clients <- MCClients
    Dests <- MCOddDests
    AdoptivePid = 1
    Capacity = 1
    MAXSIZE = 1
    MaxLength = 0
    MaxLines = 2
INVARIANTS
    ExactlyOnce
PROPERTIES
    WedgeNeedsUser
    LineArrives
CHECK_DEADLOCK FALSE
