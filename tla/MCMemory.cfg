CONSTANTS
    Procs = {init, p1}
    First = init
    Kernel = kernel
    FreePages = 22
    ByteBits = 11
    PgSize = 3
    ArenaSize = 1
    MinBlock = 1
    DescCnt = 1
    BitmapBytes = 5
    UserVPages = 3
    TablePages = 3
    PageLimit = 11
    Text <- MCText
    Sizes = {1, 4, 32, 33}
    MaxMallocs = 4
    MaxForks = 2
    CarryHeap = FALSE
SPECIFICATION Spec
INVARIANTS
    PanicsKnown
    FramesExclusive
    LostExact
    BlocksExact
