CONSTANTS
    Threads = {t1, t2}
    Keys = {k1, k2}
    Metas = {m1, m2}
    NoMeta = NoMeta
    Hashes <- MCHashes
    INITIAL_CAP = 2
    MaxCap = 8
    MayFork = TRUE
SPECIFICATION Spec
SYMMETRY Perms
INVARIANTS TypeOK NeverFull
PROPERTY ImplementsMetaMap
