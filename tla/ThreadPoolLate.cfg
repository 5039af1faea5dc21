SPECIFICATION Spec
CONSTANTS
    None = None
    Workers = {w1, w2}
    Clients = {c1, c2}
    Tasks = {t1, t2}
    max_queue_size = 2
INVARIANT NoTaskStranded
CHECK_DEADLOCK FALSE
