------------------------------ MODULE Services ------------------------------
(***************************************************************************)
(* The services of the starters and what the library offers them, caches   *)
(* and a hash ring, one at a time: a behaviour chooses a service and runs   *)
(* its threads and callers.  The services share nothing, so their variables *)
(* share the places s1 to s12; a place that the service does not need holds *)
(* Absent.                                                                  *)
(***************************************************************************)
EXTENDS Integers, Sequences, FiniteSets

CONSTANTS
    Kinds,      \* the services that are looked at
    Absent

CONSTANTS Tasks, Workers, kind, period, MaxTime                \* TaskScheduler
CONSTANTS Ids, Getters, Nobody, MaxReady                       \* the actuators
CONSTANTS Keys, Values, Threads, hasher, SEGMENT_COUNT,
          INITIAL_SEGMENT_CAPACITY, max_load_factor, MaxCapacity \* ConcurrentHashMap
CONSTANTS CacheKeys, CacheCapacity                             \* MultiLevelCache
CONSTANTS StoreKeys, StoreCapacity, Front, Back, MaxFreq       \* Caches
CONSTANTS Names, RingKeys, DEFAULT_VNODE_COUNT, Counts,
          hashVNode, hashBytes                                 \* ConsistentHash
CONSTANTS Types, Callers, Descriptors, MaxDescriptors, MaxInstances,
          Routes, MaxRoutes, MaxMiddlewares, MaxCalls          \* Hosting
CONSTANTS Events, MaxHandlers, MaxDepth, MaxMessages,
          Contents, Missing, Callbacks, NoCallback             \* Observability
CONSTANTS Nodes, worker_bits, sequence_bits                    \* SnowflakeGenerator
CONSTANTS States, Monitors                                     \* GrpcConnectivityManager
CONSTANTS Clients, Users, ValidNames, Passwords, Policies, MaxAttempts,
          LockoutDuration, SqlOutcomes, FailedBound,
          NoRow, NoUser, Empty, Never                          \* AuthSession

(* A scheduler has workers; the minutes of a cron expression are apart. *)
ASSUME SchedulerAssumption ==
    /\ IsFiniteSet(Workers) /\ Workers # {}
    /\ kind \in [Tasks -> {"once", "interval", "cron"}]
    /\ period \in [Tasks -> Nat]
    /\ \A t \in Tasks : kind[t] = "cron" => period[t] > 0
    /\ MaxTime \in Nat
    /\ Absent \notin Tasks

ASSUME ActuatorAssumption == Ids \subseteq Nat /\ Nobody \notin Ids

(* The number of a route is not taken for the status 404. *)
ASSUME MiddlewareAssumption == MaxRoutes \in 0 .. 403 /\ "none" \notin Routes

(* Datacenter and machine have five bits each, below those of the time; the *)
(* exponentials are the constants of the shifts in GenerateUniqueId.        *)
ASSUME SnowflakeAssumption ==
    /\ Nodes \subseteq (0 .. 31) \X (0 .. 31)
    /\ 2 ^ sequence_bits \in Nat \ {0}
    /\ 2 ^ (worker_bits + sequence_bits) \in Nat
    /\ 32 * 32 * 2 ^ sequence_bits <= 2 ^ (worker_bits + sequence_bits)
    /\ Nobody \notin Threads

(* As in UserAuthenticator: no name is read as "salt:hash". *)
ASSUME SessionAssumption ==
    /\ Users \cap [hash : Passwords] = {}
    /\ NoRow \notin [hash : Passwords]
    /\ Empty \notin [hash : Passwords]

(* Any hash function into the natural numbers. *)
ASSUME HashMapAssumption ==
    /\ IsFiniteSet(Keys) /\ hasher \in [Keys -> Nat]
    /\ SEGMENT_COUNT \in Nat \ {0} /\ INITIAL_SEGMENT_CAPACITY \in Nat \ {0}

(* LRUCache throws for a capacity of 0. *)
ASSUME CacheAssumption == CacheCapacity \in Nat \ {0}

(* The sentinels of a linked cache are no keys.  A cache has room. *)
ASSUME StoreAssumption ==
    /\ IsFiniteSet(StoreKeys) /\ StoreCapacity \in Nat \ {0} /\ MaxFreq \in Nat \ {0}
    /\ Front \notin StoreKeys \cup {Back, Absent} /\ Back \notin StoreKeys \cup {Absent}
    /\ Absent \notin StoreKeys \cup Values

(* Hashes are any natural numbers; no two nodes have a replica at the same  *)
(* place.                                                                   *)
ReplicaCounts == (Counts \cup {DEFAULT_VNODE_COUNT}) \ {0}
ASSUME RingAssumption ==
    /\ IsFiniteSet(Names) /\ ReplicaCounts \subseteq Nat /\ DEFAULT_VNODE_COUNT # 0
    /\ hashBytes \in [RingKeys -> Nat]
    /\ \A c \in ReplicaCounts : \A n \in Names, i \in 0 .. c - 1 :
          /\ hashVNode[n][i] \in Nat
          /\ \A d \in ReplicaCounts : \A m \in Names, j \in 0 .. d - 1 :
                hashVNode[n][i] = hashVNode[m][j] => n = m

(* Instances are numbered, and Absent stands for a null pointer. *)
ASSUME ProviderAssumption ==
    /\ Absent \notin Nat /\ Absent \notin Callers
    /\ \A d \in Descriptors : d.needs \subseteq Types

VARIABLES service, s1, s2, s3, s4, s5, s6, s7, s8, s9, s10, s11, s12

(* The places from a number on. *)
From11 == <<s11, s12>>
From10 == <<s10, From11>>
From9 == <<s9, From10>>
From8 == <<s8, From9>>
From7 == <<s7, From8>>
From6 == <<s6, From7>>
From5 == <<s5, From6>>
From3 == <<s3, s4, From5>>

No11 == s11 = Absent /\ s12 = Absent
No10 == s10 = Absent /\ No11
No9 == s9 = Absent /\ No10
No8 == s8 = Absent /\ No9
No7 == s7 = Absent /\ No8
No6 == s6 = Absent /\ No7
No5 == s5 = Absent /\ No6
No3 == s3 = Absent /\ s4 = Absent /\ No5

vars == <<service, s1, s2, s3, s4, From5>>

TS == INSTANCE TaskScheduler WITH
    NoTask <- Absent,
    running <- s1, owner <- s2, now <- s3, queue <- s4, next_execution <- s5,
    cancelled <- s6, pc <- s7, holds <- s8, wakeup <- s9, stopped <- s10,
    accepted <- s11, ran <- s12

AK == INSTANCE Actuators WITH
    nextTaskId <- s1, alive <- s2, mutex <- s3, pendingTasks <- s4, results <- s5,
    thread <- s6, promise <- s7, wants <- s8, got <- s9, canceled <- s10,
    isRunning <- s1, armed <- s2, ready <- s3, stopped <- s4, worker <- s5, owner <- s6

HM == INSTANCE ConcurrentHashMap WITH
    buckets <- s1, capacity <- s2, size <- s3, walk <- s4, map <- s5

ML == INSTANCE MultiLevelCache WITH
    Keys <- CacheKeys, capacity <- CacheCapacity,
    cache_list <- s1, last <- s2, l2 <- s3, truth <- s4, missed <- s5

CA == INSTANCE Caches WITH
    Keys <- StoreKeys, capacity <- StoreCapacity,
    value <- s1, prev <- s2, next <- s3, size <- s4, last <- s5,
    freq_list_map <- s1, key_map <- s2, min_freq <- s3,
    held <- s4, uses <- s5, newer <- s6

CR == INSTANCE ConsistentHash WITH
    Keys <- RingKeys, ring <- s1, nodeVNodeCounts <- s2

HO == INSTANCE Hosting WITH
    Null <- Absent,
    descriptors <- s1, built <- s2, singletons <- s3, mutex <- s4, stack <- s5,
    made <- s6, given <- s7,
    size <- s1, routes <- s2, request <- s3, index <- s4, entered <- s6, status <- s7

OB == INSTANCE Observability WITH
    subscribers <- s1, stack <- s2, published <- s3, heard <- s4,
    file <- s1, running <- s2, lastContent <- s3, callback <- s4, thread <- s5,
    copy <- s6, owner <- s7, told <- s8

SF == INSTANCE SnowflakeGenerator WITH
    clock <- s1, last_timestamp <- s2, sequence <- s3, mutex <- s4, waiting <- s5,
    ids <- s6, newest <- s7

CM == INSTANCE GrpcConnectivityManager WITH
    Owners <- Monitors,
    channel <- s1, is_monitoring <- s2, last_known_state <- s3, handle <- s4,
    loop <- s5, owner <- s6, told <- s7, terminated <- s8,
    overlapped <- s9

AS == INSTANCE AuthSession WITH
    db <- s1, users <- s2, policy <- s3, pending <- s4, reply <- s5, guesses <- s6,
    session <- s7

Init ==
    /\ service \in Kinds
    /\ \/ service = "scheduler" /\ TS!Init
       \/ service = "delayed" /\ AK!DelayedTaskActuator_Init /\ No11
       \/ service = "periodic" /\ AK!PeriodicActuator_Init /\ No7
       \/ service = "hash map" /\ HM!Init /\ No6
       \/ service = "cache" /\ ML!MLInit /\ No6
       \/ service = "lru" /\ CA!LinkedLRUCache_Init /\ No6
       \/ service = "lfu" /\ CA!LFUCache_Init /\ No7
       \/ service = "hash ring" /\ CR!Init /\ No3
       \/ service = "provider" /\ HO!ServiceProvider_Init /\ No8
       \/ service = "events" /\ OB!EventBus_Init /\ No5
       \/ service = "middleware" /\ HO!MiddlewareChain_Init /\ No8
       \/ service = "ids" /\ SF!Init /\ No8
       \/ service = "connectivity" /\ CM!Init /\ No10
       \/ service = "watcher" /\ OB!ConfigWatcher_Init /\ No9
       \/ service = "session" /\ AS!SessionInit /\ No8

Scheduler == service = "scheduler" /\ TS!Next /\ UNCHANGED service
Delayed == service = "delayed" /\ AK!DelayedTaskActuator_Next /\ UNCHANGED <<service, From11>>
Periodic == service = "periodic" /\ AK!PeriodicActuator_Next /\ UNCHANGED <<service, From7>>
HashMap == service = "hash map" /\ HM!Next /\ UNCHANGED <<service, From6>>
Cache == service = "cache" /\ ML!MLNext /\ UNCHANGED <<service, From6>>
Lru == service = "lru" /\ CA!LinkedLRUCache_Next /\ UNCHANGED <<service, From6>>
Lfu == service = "lfu" /\ CA!LFUCache_Next /\ UNCHANGED <<service, From7>>
HashRing == service = "hash ring" /\ CR!Next /\ UNCHANGED <<service, From3>>
Provider == service = "provider" /\ HO!ServiceProvider_Next /\ UNCHANGED <<service, From8>>
EventBus == service = "events" /\ OB!EventBus_Next /\ UNCHANGED <<service, From5>>
Middleware == service = "middleware" /\ HO!MiddlewareChain_Next /\ UNCHANGED <<service, From8>>
Snowflake == service = "ids" /\ SF!Next /\ UNCHANGED <<service, From8>>
Connectivity == service = "connectivity" /\ CM!Next /\ UNCHANGED <<service, From10>>
Watcher == service = "watcher" /\ OB!ConfigWatcher_Next /\ UNCHANGED <<service, From9>>
Session == service = "session" /\ AS!SessionNext /\ UNCHANGED <<service, From8>>

Next ==
    \/ Scheduler \/ Delayed \/ Periodic \/ HashMap \/ Cache \/ Lru \/ Lfu \/ HashRing \/ Provider
    \/ EventBus \/ Middleware \/ Snowflake \/ Connectivity \/ Watcher \/ Session

Spec == Init /\ [][Next]_vars

-----------------------------------------------------------------------------
(* No task, chain, thread or callback is lost or doubled: a scheduled task  *)
(* is in the queue or with one worker and some worker sees to it when it is *)
(* due (TaskScheduler); a pending task has its thread and its future        *)
(* (DelayedTaskActuator); a running actuator has a chain of timer and task  *)
(* (PeriodicActuator); a monitor's thread is joined before another starts   *)
(* and calls nobody after stop (GrpcConnectivityManager, ConfigWatcher).    *)
(* Any thread may call; once two calls of start and stop have overlapped    *)
(* nothing more is said.                                                    *)
TasksAreKept ==
    /\ service = "scheduler" =>
          TS!TasksAreInOnePlace /\ TS!PeriodicTasksSurvive /\ TS!NobodyOversleeps
    /\ service = "delayed" => AK!PendingTasksHaveThreads
    /\ service = "periodic" => AK!ChainSurvives
    /\ service = "connectivity" => CM!MonitorIsJoined
    /\ service = "watcher" => OB!CallbacksAreCurrent

(* Readers agree with what the writers did: a lookup beside growing         *)
(* segments and a walk beside other threads (ConcurrentHashMap), a get      *)
(* through two levels of which one refuses writes (MultiLevelCache), the    *)
(* first resolve of a singleton by two threads (ServiceProvider).           *)
ReadersAgree ==
    /\ service = "hash map" => HM!FindsExactlyTheMap /\ HM!WalksAreConsistent
    /\ service = "cache" => ML!LevelsAgree
    /\ service = "provider" => HO!OneInstancePerSingleton

(* Handlers are called completely and in order, whatever they call          *)
(* themselves: publish inside a handler (EventBus), next called again       *)
(* (MiddlewareChain).                                                       *)
HandlersAreCalledInOrder ==
    /\ service = "events" => OB!DispatchIsComplete
    /\ service = "middleware" => HO!PassesInOrder

(* hash::LRUCache: the intrusive list, both ways, and the map agree.        *)
(* LFUCache: lists, places and min_freq_ agree, so that put always finds a  *)
(* victim when the cache is full.                                           *)
CachesAgree ==
    /\ service = "lru" => CA!LinkedLRUCache_TypeOK /\ CA!LinksMatchTheMap
    /\ service = "lfu" => CA!LFUCache_TypeOK /\ CA!ListsMatchTheMap /\ CA!PutSucceeds

(* The lists of the caches agree with their maps, always, and so hash::     *)
(* LRUCache answers, reorders and evicts as cache::LRUCache does.  LFUCache *)
(* evicts the least frequently used and, among those, the least recently    *)
(* used key, as the comment in evict_lfu_item says.                         *)
CachesEvict ==
    /\ []CachesAgree
    /\ service = "lru" => CA!LRU!Init
    /\ [][/\ service = "lru" => CA!IsLeastRecentlyUsed
          /\ service = "lfu" => CA!EvictsLeastFrequentlyUsed]_vars

(* ConsistentHash: the ring holds the replicas of exactly the members,      *)
(* getNodes returns distinct members, and when a node joins or leaves only  *)
(* its keys move.                                                           *)
HashRingIsConsistent ==
    /\ [](service = "hash ring" => CR!TypeOK /\ CR!RingHoldsTheMembers)
    /\ [][service = "hash ring" => CR!OnlyItsKeysMove]_vars

(* What no step does: start a task that cancel answered for or one that ran *)
(* (TaskScheduler); add a chain outside start (PeriodicActuator); repeat an *)
(* id, although the clock is set back (SnowflakeGenerator); tell a client   *)
(* what the table does not say (AuthRpcClient and AuthRpcServiceImpl).      *)
StepsAreSafe ==
    [][/\ service = "scheduler" => TS!StartsAreAllowed
       /\ service = "periodic" => AK!ChainsDoNotMultiply
       /\ service = "ids" => SF!IdsAreUnique
       /\ service = "session" => AS!ClientIsToldTheTruth]_vars

-----------------------------------------------------------------------------
(* "@return Username of the authenticated user" (ClientTask::logIn): what   *)
(* run goes on with, and deletes in logOut, is a user that was              *)
(* authenticated or registered.                                             *)
LoginIsProved == service = "session" => AS!LoginIsProved

(* "Cancels a scheduled task if it hasn't started yet" (cancelTask): a task *)
(* for which it answered true does not run.                                 *)
CanceledTasksDoNotRun == service = "delayed" => AK!CanceledTasksDoNotRun

(* "Stop the scheduler and cancel all pending tasks" (TaskScheduler.hpp).   *)
StopCancelsPending == [][service = "scheduler" => TS!StopCancelsPending]_vars

(* "All public methods can be called from any thread" (TaskScheduler), "All *)
(* public methods are thread-safe" (PeriodicActuator,                       *)
(* GrpcConnectivityManager): two threads may call start and stop.           *)
CallsAreThreadSafe == service = "scheduler" => TS!CallsAreThreadSafe
ActuatorIsThreadSafe == service = "periodic" => AK!ActuatorIsThreadSafe
MonitorIsThreadSafe == service = "connectivity" => CM!ThreadIsJoined
=============================================================================
