SPECIFICATION CacheSpec
CONSTANTS
    f1 = f1 f2 = f2 m1 = m1 m2 = m2 da = da db = db dc = dc hd = hd d0 = d0 d1 = d1 d2 = d2
    Block = {f1, f2, m1, m2, da, db, dc}
    Disk = {hd}
    UnitOf <- OneDisk
    FatBlock = {f1, f2}
    Mirror <- TwoMirrors
    Buf = {b1, b2, b3}
    BufCount = 3
    NoBlock = noblock
    NoBuf = nobuf
    Data = {d0, d1, d2}
    Noise = noise
    Runs <- SinglesAndAll
    Mixes <- AllMixes
SYMMETRY DataSymmetry
INVARIANTS Coherent
PROPERTY MirrorsWritten
