SPECIFICATION HmaSpec
CONSTANTS
    HmaTop = 8
    HmaFree = {3, 4}
    HmaSizes = {1, 2}
    Psp = {p1, p2}
    Shell = p1
INVARIANT HmaChainWhole
PROPERTY HmaBlocksKept
