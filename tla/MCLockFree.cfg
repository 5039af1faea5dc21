SPECIFICATION LockFreeSpec
CONSTANTS
    Null = Null  None = None  Nothing = Nothing  Torn = Torn  Absent = Absent
    Structures = {"stack", "queue"}
    Threads = {t1, t2}
    Producers = {p1}
    Consumers = {c1, c2}
    MoveConsumers = {c1}
    Nodes = {n1, n2, n3}
    Values = {v1, v2, v3}
    QueueValues = {w1, w2}
    ElementKinds = {TRUE, FALSE}
    TagMod = 6
    QueueTagMod = 3
SYMMETRY Symmetry
INVARIANTS StackIsSound QueueIsSound
PROPERTIES StackIsLinearizable QueueIsLinearizable
CHECK_DEADLOCK FALSE
