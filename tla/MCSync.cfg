CONSTANTS
    Threads = {init, main, idle, u1, u2}
    InitProc = init
    Main = main
    Idle = idle
    NoThread = nothread
    KThreads = {main, u1}
    MaxPid = 5
    MaxNest = 2
    Prio <- MCPrio
SPECIFICATION FairSpec
INVARIANTS
    MutualExclusion
    HolderExact
    WaitersExact
    NoLostWakeup
PROPERTIES
    ImplementsLock
    FreeLockTaken
