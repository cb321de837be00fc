SPECIFICATION FairSpec
CONSTANTS
    c1 = c1
    c2 = c2
    Clients = {c1, c2}
    Persistent = {c2}
    Chunk = 2
    MaxLen = 3
    Rounds = 2
    MAXPENDING = 0
    ProcLimit = 1
    Killable = {c1}
INVARIANTS
    TypeOK
    EchoConserved
    RoundsInStep
PROPERTIES
    TextEchoed
    HandlersEnd
CHECK_DEADLOCK FALSE
