SPECIFICATION ShareSpec
CONSTANTS
    File = {f1, f2}
    NoFile = nofile
    Psp = {p1}
    FileTableSize = 3
    LockTableSize = 2
    MaxOfs = 2
    OpenArgs <- MixedOpenArgs
SYMMETRY FileSymmetry
INVARIANTS LocksDisjoint DenyAllExclusive
PROPERTY ImplementsByteLocks
