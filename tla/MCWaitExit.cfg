CONSTANTS
    Threads = {init, main, idle, u1, u2, u3}
    InitProc = init
    Main = main
    Idle = idle
    MaxPid = 6
    MaxAlive = 5
    Prio <- MCPrio
SPECIFICATION FairSpec
INVARIANTS
    ParentExact
    WaitNotMissed
    SleepStatesExact
PROPERTIES
    WaitReturns
