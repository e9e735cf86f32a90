SPECIFICATION Spec
CONSTANTS
    Threads = {t1, t2}
    WordBits = 2
    TotalBits = 3
    RandomBlocks = 2
    MaxCount = 2
    MaxHeld = 7
    SpuriousFailures = TRUE
SYMMETRY Perms
INVARIANT HeldDisjoint
