SPECIFICATION FairSpec
CONSTANTS
    Clients <- MCClients
    Dests <- MCDests
    Junk <- MCJunk
    FifoSize = 2
    MaxMsgs = 5
INVARIANTS
    TypeOK
    UnreadAccounted
    ShownInOrder
PROPERTIES
    RelayProgress
CHECK_DEADLOCK FALSE
