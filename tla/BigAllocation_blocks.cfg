CONSTANTS
    Threads = {t1, t2}
    NPages = 4
    Sizes = {1, 2, 3, 5}
    HEADER_SIZE = 1
    PAGE = 2
    HUGE = 4
    OX_FORCE_THP = FALSE
SPECIFICATION Spec
SYMMETRY Perms
INVARIANTS TypeOK LiveUsable NobodyDies NothingLeaks
