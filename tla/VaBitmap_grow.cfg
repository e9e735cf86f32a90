CONSTANTS
    Threads = {t1, t2}
    Space = 7
    Foreign = {}
    CHUNK_SIZE = 2
    OX_MAX_RESERVATION = 4
    RESERVE_TRIES = 0
    GROW_TRIES = 2
    FAILED_TRYS = 0
    TRYS_RANGE = 4
    MAX_RANDOM = 1
    Needs = {1, 4}
    MaxLive = 3
    MetadataFails = TRUE
SPECIFICATION TimelySpec
SYMMETRY Perms
INVARIANTS TypeOK HandedOutIsOurs RunsDisjoint SegmentsListed
CHECK_DEADLOCK FALSE
