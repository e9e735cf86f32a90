SPECIFICATION FairSpec
CONSTANTS
    Threads = {t1, t2}
    WordBits = 2
    TotalBits = 3
    RandomBlocks = 2
    MaxCount = 3
    MaxHeld = 1
    SpuriousFailures = FALSE
INVARIANTS TypeOK ClaimExclusive ClaimAccounted MapAccounted
PROPERTIES ImplementsPageAllocator LockFree
