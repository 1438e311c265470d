SPECIFICATION Spec
CONSTANTS
    Threads = {t1, t2}
    Items = {i1, i2}
    InitBlockSize = 2
    MaxSlots = 4
    NULL = NULL
INVARIANTS
    TypeOK
    CountExact
    NeverFull
PROPERTIES
    StableIteration
    ImplementsBag
