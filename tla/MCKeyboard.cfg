CONSTANTS
    Threads = {init, main, idle, u1, u2}
    InitProc = init
    Main = main
    Idle = idle
    NoThread = nothread
    Readers = {u1, u2}
    MaxPid = 5
    MaxCount = 2
    BufSize = 3
    Prio <- MCPrio
SPECIFICATION FairSpec
INVARIANTS
    SleepersRecorded
PROPERTIES
    ReadReturns
