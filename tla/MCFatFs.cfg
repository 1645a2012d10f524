CONSTANTS
    LastCluster = 3
    ClusUnits = 1
    ClusEnts = 2
    RootEnts = 3
    FileName = {a, b}
    DirName = {d, e}
    NoName = none
    Fd = {0, 1}
    MaxOffset = 2
    WriteCounts = {1}
    Seeks = {0, 2}
    Links = {1, 99}
    SharedWriters = FALSE
    SharedTruncate = FALSE
    Mixes <- AllMixes
SPECIFICATION FatSpec
CHECK_DEADLOCK FALSE
INVARIANT ChainsSound NoLostClusters FreeCountExact PositionsInChain SharersAgree DirectoriesWhole SearchComplete
SYMMETRY Names
