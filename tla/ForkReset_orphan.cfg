SPECIFICATION Spec
CONSTANTS
    Threads = {t1, t2}
    Calls = {"malloc", "free", "big_free"}
    Trimmer = trimmer
    Limit = 1
    Word = 2
    MaxForks = 2
INVARIANT NoOrphan
