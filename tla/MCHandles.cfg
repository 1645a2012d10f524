SPECIFICATION HandlesSpec
CONSTANTS
    NoFile = nofile
    NoPsp = nopsp
    Root = root
    p1 = p1
    p2 = p2
    f1 = f1
    f2 = f2
    con = con
    Psp = {root, p1, p2}
    File = {f1, f2}
    Device = {con}
    FileTableSize = 2
    LockTableSize = 1
    MaxOfs = 1
    OpenArgs <- CompatOnly
    SftCount = 2
    DefaultFiles = 2
    MaxFiles = 3
    JftSizes = {1, 3}
    Mixes <- AllMixes
CHECK_DEADLOCK FALSE
INVARIANTS  ShareOneToOne
PROPERTIES LocksKept HandlesStayOpen
