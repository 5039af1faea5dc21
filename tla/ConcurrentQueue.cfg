SPECIFICATION FairSpec
CONSTANTS
    Threads = {t1, t2, t3}
    max_size = 2
    MaxItems = 4
INVARIANTS TypeOK WakeupsAreNotLost FirstInFirstOut
PROPERTY SleepersServed
CHECK_DEADLOCK FALSE
