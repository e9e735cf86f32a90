SPECIFICATION WithinSpec
CONSTANTS
    NUM_SIZE_CLASSES = 24
    NPages = 4
    Sizes = {0, 1400, 4096, 10232, 16368, 65500}
    Counts = {2}
    Alignments = {3, 64}
    LIMIT = 20000
    WORD = 65536
    MaxBlocks = 3
    MaxCarve = 2
INVARIANTS TypeOK BlocksDisjoint PointersGood CopyFits PagesAccounted
PROPERTY DataKept
