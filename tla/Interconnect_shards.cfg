CONSTANTS
    Threads = {t1, t2}
    Blocks = {b1, b2}
    Affinity = {0, 1}
    TagMod = 3
    UsageMod = 8
    MaxBatch = 2
    SpuriousFailures = FALSE
SPECIFICATION TimelySpec
SYMMETRY Perms
INVARIANTS WellLinked UsageAccounted
PROPERTIES ImplementsGlobalPool NullOnlyWhenEmpty
