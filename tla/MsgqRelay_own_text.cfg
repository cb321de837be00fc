SPECIFICATION Spec
CONSTANTS
    Clients <- MCClients
    Dests <- MCPeers
    AdoptivePid = 1
    Capacity = 1
    MAXSIZE = 3
    MaxLength = 2
    MaxLines = 2
INVARIANTS
    OwnTextOnly
CHECK_DEADLOCK FALSE
