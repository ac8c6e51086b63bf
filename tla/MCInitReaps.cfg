CONSTANTS
    Threads = {init, main, idle, u1, u2, u3}
    InitProc = init
    Main = main
    Idle = idle
    MaxPid = 6
    MaxAlive = 5
    Prio <- MCPrio
SPECIFICATION BootedSpec
PROPERTIES
    InitReaps
