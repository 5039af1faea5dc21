SPECIFICATION FairSpec
CONSTANTS
    None = None
    Readers = {r1}
    Words = {lo, hi}
    Values = {0, 1}
    MemoryModels = {TRUE, FALSE}
    MaxWrites = 2
INVARIANTS TypeOK ConsistentSnapshot
PROPERTY LoadReturns
CHECK_DEADLOCK FALSE
