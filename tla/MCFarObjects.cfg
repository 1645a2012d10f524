SPECIFICATION FarSpec
CONSTANTS
    InitPool = 7
    BootPool = 6
    Sizes = {1, 2}
    MaxDepth = 3
    MaxObjs = 2
INVARIANTS PoolExact JumpArgsKept NothingLeaked
