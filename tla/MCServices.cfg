SPECIFICATION FairSpec
CONSTANTS
    Kinds = {"scheduler", "delayed", "periodic", "hash map", "cache", "lru", "lfu", "hash ring", "provider",
             "events", "middleware", "ids", "connectivity", "watcher", "session"}
    Absent = Absent
    Tasks = {1, 2, 3}  Workers = {1, 2}  kind <- TaskKind  period <- TaskPeriod  MaxTime = 2
    Ids = {0, 1}  Getters = {1, 2}  Nobody = Nobody  MaxReady = 3
    Keys = {1, 2, 3}  Values = {1, 2}  Threads = {1, 2}  hasher <- Hashes
    SEGMENT_COUNT = 2  INITIAL_SEGMENT_CAPACITY = 2  max_load_factor = 75  MaxCapacity = 4
    CacheKeys = {1, 2}  CacheCapacity = 1
    StoreKeys = {1, 2, 3, 4}  StoreCapacity = 3  Front = 0  Back = 5  MaxFreq = 3
    Names = {1, 2, 3}  RingKeys = {1, 2, 3, 4}  DEFAULT_VNODE_COUNT = 3  Counts = {0, 1, 2}
    hashVNode <- ReplicaHashes  hashBytes <- RingKeyHashes
    Types = {1, 2, 3, 4}  Callers = {1, 2}  Descriptors <- SomeDescriptors
    MaxDescriptors = 3  MaxInstances = 3
    Routes = {"GET a", "PUT a", "GET b"}  MaxRoutes = 3  MaxMiddlewares = 3  MaxCalls = 2
    Events = {"a", "b"}  MaxHandlers = 2  MaxDepth = 2  MaxMessages = 2
    Contents = {"a", "b"}  Missing = ""  Callbacks = {1, 2}  NoCallback = 0
    Nodes <- TwoNodes  worker_bits = 10  sequence_bits = 1
    States = {"IDLE", "READY", "TRANSIENT_FAILURE"}  Monitors = {1, 2}
    Clients = {1, 2}  Users = {Name}  ValidNames = {Name}  Passwords = {"p", "q"}
    Policies = {{"p", "q"}}  MaxAttempts = 1  LockoutDuration = 1
    SqlOutcomes = {TRUE, FALSE}  FailedBound = 1
    NoRow = NoRow  NoUser = NoUser  Empty = Empty  Never = Never
INVARIANTS TasksAreKept ReadersAgree HandlersAreCalledInOrder
PROPERTIES CachesEvict HashRingIsConsistent StepsAreSafe CallsReturn
CHECK_DEADLOCK FALSE
