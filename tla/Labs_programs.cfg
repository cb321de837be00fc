SPECIFICATION FairSpec
CONSTANTS
    Scripts <- MCScripts
    Calls <- MCCalls
    Pids <- MCPids
    Objects <- MCObjects
    Capacity <- MCCapacity
    Cells = 3
    Rounds = 2
    Hosts <- MCHosts
    Replies <- MCReplies
INVARIANTS
    TypeOK SignalsKept TreesComplete AnswersMatch SemaphoresCount QueuesServed
    MemoryRead OwnEcho LossNotHidden QueryEncoded AnswersParsed
PROPERTIES TakesTurns EndsUnless
\* The programs end.
CHECK_DEADLOCK FALSE
