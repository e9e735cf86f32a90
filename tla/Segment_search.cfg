SPECIFICATION Spec
CONSTANTS
    Threads = {t1}
    WordBits = 3
    TotalBits = 7
    RandomBlocks = 7
    MaxCount = 5
    MaxHeld = 7
    SpuriousFailures = FALSE
PROPERTY NoneOnlyWhenFull
