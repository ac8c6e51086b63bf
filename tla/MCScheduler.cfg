CONSTANTS
    Threads = {init, main, idle, u1, u2}
    InitProc = init
    Main = main
    Idle = idle
    MaxPid = 5
    Prio <- MCPrio
SPECIFICATION FairSpec
INVARIANTS
    TypeOK
    NoPanic
    ReadyListExact
    PidsExact
PROPERTIES
    QueueOrderKept
    ReadyRuns
