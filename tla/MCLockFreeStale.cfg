SPECIFICATION LockFreeSpec
CONSTANTS
    Null = Null  None = None  Nothing = Nothing  Torn = Torn  Absent = Absent
    Structures = {"queue"}
    Threads = {}
    Producers = {p1, p2}
    Consumers = {c1}
    MoveConsumers = {}
    Nodes = {n1, n2, n3}
    Values = {}
    QueueValues = {w1, w2, w3}
    ElementKinds = {TRUE}
    TagMod = 6
    QueueTagMod = 6
SYMMETRY Symmetry
INVARIANT NoElementLost
CHECK_DEADLOCK FALSE
