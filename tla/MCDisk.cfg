CONSTANTS
    Threads = {init, main, idle, u1}
    InitProc = init
    Main = main
    Idle = idle
    NoThread = nothread
    MaxPid = 4
    RegSize = 2
    MaxSectors = 3
    TimeLimit = 3
    Prio <- MCPrio
SPECIFICATION FairSpec
INVARIANTS
    PanicOnlyOnTimeout
    OwnCommand
    QuietWhenFree
    DoneNotMissed
PROPERTIES
    ReadEnds
