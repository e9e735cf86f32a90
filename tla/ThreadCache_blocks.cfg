CONSTANTS
    Threads = {t1, t2}
    Trimmer = g
    MaxRegions = 2
    ITERATIONS = 2
    MaxInit = 1
    TLS_MAX_BLOCKS = 1
    BATCH_MIN = 1
    BATCH_MAX = 2
    TRIM_BATCH = 2
    BootCalls = 1
    MayTrim = {t1, t2}
    MayExit = TRUE
SPECIFICATION Spec
SYMMETRY Perms
INVARIANTS TypeOK NoBlockTwice NoBlockLost UsageBounded
CHECK_DEADLOCK FALSE
