SPECIFICATION MemSpec
CONSTANTS
    First = 1
    RootSize = 1
    UpperRoot = 7
    UmbSeg = 8
    Top = 11
    Mixes <- BothMixes
    EnvSize = 1
    ExecSizes = {1}
    KeepMin = 1
    StaleEnv = {0}
INVARIANTS ChainWhole LargestExact NoOrphans
 
