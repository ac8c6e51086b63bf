CONSTANTS
    Threads = {init, main, idle, u1, u2}
    InitProc = init
    Main = main
    Idle = idle
    NoThread = nothread
    Readers = {init, u1}
    Writers = {u1, u2}
    MaxPid = 5
    MaxCount = 3
    BufSize = 3
    Prio <- MCPrio
SPECIFICATION FairSpec
INVARIANTS
    NoPanic
    Fifo
    PipeSleeps
PROPERTIES
    WriteReturns
