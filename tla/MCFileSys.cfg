CONSTANTS
    FilePaths <- MCFiles
    DirPaths <- MCDirs
    Direct = 2
    Indirect = 2
    BlockSize = 3
    PerSector = 3
    DataBlocks = 5
    NumInodes = 4
    ByteRange = 4
    Counts = {3, 5}
    MaxOpen = 1
    MaxLost = 1
    MaxEntries = 6
    RemoveLeft = FALSE
    None = none
SPECIFICATION Spec
INVARIANTS
    PanicsExplained
    FilesIntact
    
    DirectoriesExact
    LookupsExact
