SPECIFICATION Spec
CONSTANTS
    NUM_SIZE_CLASSES = 24
    NPages = 6
    Sizes = {0, 1400, 4096, 12272, 65500}
    Counts = {2, 16}
    Alignments = {3, 64}
    LIMIT = 20000
    WORD = 65536
    MaxBlocks = 3
    MaxCarve = 2
INVARIANT GrowthHasRoom
