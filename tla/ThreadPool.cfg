SPECIFICATION FairSpec
CONSTANTS
    None = None
    Workers = {w1, w2}
    Clients = {c1, c2}
    Tasks = {t1, t2, t3}
    max_queue_size = 2
INVARIANTS TypeOK WorkConserving ShutdownCompletesPending TaskIsInOnePlace
PROPERTIES ShutdownReturns AcceptedTaskEnds
CHECK_DEADLOCK FALSE
