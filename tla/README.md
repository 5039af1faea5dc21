# cppforge: TLA+ models, model checking and proofs

cppforge is a C++ library (`common/`) with five starters built on it (`starters/auth`,
`cache`, `scheduler`, `security`, `tracing`) and two demonstration programs (`client/`,
`server/`).  This directory models the parts of it that keep state and can go wrong in
ways a unit test hardly reaches, model-checks them with TLC and proves the central
results with TLAPS.  Paths below are relative to the repository's root.

`PROJECT.json` is the machine-readable side: the components, the runs, the source lines
each definition translates (`map`), a faulty variant of the code for every property
(`mutants`), the hazards and the theorems.

## 1. Inventory

### How the parts interact

    client ──gRPC──> AuthRpcServiceImpl ──calls──> UserAuthenticator ──SQL──> PasswordSQL ──> SQLite
                         (gRPC threads)              users_mutex_, users_
    TaskScheduler, PeriodicActuator, DelayedTaskActuator ──run user callbacks on their own threads
    ThreadPool ──condition variable── workers ──run submitted tasks
    MultiLevelCache ──> LRUCache (L1) ──> user supplied L2
    ConcurrentQueue / TreiberStack / MichaelScottQueue / SeqLock / ConcurrentHashMap: shared by threads
    everything else: values and containers owned by one thread

### Components, state, operations, what is hard, what makes them correct

| component | state | operations | hard behaviour | correct when |
|---|---|---|---|---|
| User authentication (`auth/`, `sql/PasswordSQL`) | table `users`, cache `users_`, attempt counter and time per user, policy | register, authenticate, change, reset, delete, exists, set policy | two stores that must agree although a statement may throw; `change_password` unlocks in the middle; restart empties the cache only; time arithmetic of the lockout | cache never contradicts the table; a login used the stored password; the lockout bounds guessing; a lock ends |
| SeqLock | counter, data words | store, update, load, try_load, begin/end_write | readers run while the writer writes; hardware reordering | every value returned was stored as a whole |
| ThreadPool | `stop_`, `task_queue_`, workers, `active_thread_count_` | submit, shutdown, shutdownNow, worker loop | lost wakeups; shutdown racing submit; idle timeout | no task lost or run twice; shutdown completes pending work and returns |
| ConcurrentQueue | `queue_`, two condition variables | push, pop, try_*, try_pop_for, clear | notification after unlock, spurious wakeup, timeout racing an arrival | FIFO; nobody sleeps beside what it waits for |
| TreiberStack, MichaelScottQueue | tagged pointers, node pool, size counter | push/enqueue, try_pop/try_dequeue, move, clear | ABA, recycled nodes, helping, throwing constructors | linearizable; every node in exactly one place |
| ConcurrentHashMap | segments with a shared mutex each | insert, erase, find, size, clear, resize | whole-map operations see segments at different times | per-key linearizable |
| TaskScheduler, actuators | task table, heap, worker threads, flags | schedule, cancel, start, stop | cancel racing a running task, stop racing a wait | a cancelled task does not run again; stop ends |
| LRUCache, LFUCache, MultiLevelCache | map, recency/frequency lists, statistics | get, put, remove, resize, clear | intrusive lists that must match the map; promotion after a miss | capacity respected, right victim |
| AuthRpcServiceImpl, middleware, RBAC, JWT | handlers, chain, roles, tokens | RPC handlers, route, check, sign | order of middleware, expiry | every reply follows the authenticator's answer |
| Dependency injection, config watcher, events, health, metrics, tracing | registries under mutexes, background threads | register, resolve, watch, publish, record | callbacks under a lock, thread start/stop | no self-deadlock, no missed event |
| Hash maps, filters, consistent hashing | open-addressed tables, buckets, ring | insert, erase, find, rehash | displacement chains, backward shift, growth while inserting | a map: what was inserted is found, once |
| Trees (AVL, red-black, splay, treap, B, B+, trie, LSM, Merkle, range, spatial, persistent vector) | linked nodes | insert, erase, search, rotate, split, merge | rebalancing | ordered, balanced, same contents as a set |
| Linear containers, union-find, heap, top-k, graphs | arrays, links | usual operations | wrap-around indexes, undo | same contents as a sequence, partition or set |
| Streams, buffers, ciphers, file formats, serialization, toolkits, time, logging | buffers and positions, or none | read/write/mark/reset, encode/decode | buffer boundaries, widths | inverse pairs; nothing lost at a boundary |

All fifty parts, with their files, are listed in `PROJECT.json` under `components`, the ones
that are not modelled too, each with the reason.  The hazards, each at the line where it
bites, are under `hazards`.

## 2. What the modules model

A critical section of a mutex is one step.  What the code does before it locks, after it
unlocks, or between two critical sections is a step of its own, and so is every access to
an atomic variable in the lock-free structures.  Variables and actions keep the names of
the code; a comment beside each variable names the member it stands for.  Variables marked
*history* do not exist in the code: no guard reads them, they only remember what a property
speaks of.  Payloads (elements, tasks, passwords) are model values.

### UserAuthenticator (`common/src/auth/`, `common/src/sql/PasswordSQL.cc`)

* `db` is the table, `users` the cache `users_`, `policy` the password policy, `pending`
  what a client inside `change_password` carries from its first lock to its second.
* One action per public method, run by any client at any time.  `change_password` is two:
  `authenticate` inside it locks and unlocks, then the change locks again.  Every SQL
  statement may return or throw (`SqlOutcomes`).  `Restart` empties the cache and keeps the
  table.  `Minute` lets a minute pass.
* A salted hash is the password it was made from.  A clock reading is kept as its age, up
  to the only threshold the code compares it with (`Never` is a clock reading of zero: the
  difference with it overflows in `is_locked`).
* `PasswordSQL` is modelled from its statements; SQLite itself is the function `db`.

### SeqLock (`common/include/cppforge/data_structure/concurrent/SeqLock.hpp`)

* The writer's critical section (`BeginWrite`, `WriteWord`, `EndWrite`) and the reader's loop
  (`ReadSeq0`, `CopyWord`, `ReadSeq1`, `Return`, `Retry`, `SpinOrGiveUp`) interleave access by access.
* `in_order` chooses the hardware: with it, stores and loads keep program order (x86);
  without it, a data store may become visible before the odd counter (`CounterVisible` is
  late) and the second read of the counter may happen before the data reads, which is
  what the release store, acquire load and signal fence of the code allow on ARM64.
* `MaxWrites` bounds the critical sections.  The counter is a natural number.

### ThreadPool (`common/include/cppforge/thread/ThreadPool.hpp`, `common/src/thread/ThreadPool.cc`)

* `submit` is `SubmitRejected` or `SubmitBegin` (the unlocked read of `stop_`), then
  `SubmitFull` or `SubmitPush` (under the mutex), then `SubmitNotify`.  `shutdown` and
  `shutdownNow` set `stop`, then `NotifyAll`, then `Join`.
* A worker is in "loop" (about to evaluate the predicate), "waiting", "running" or "exited";
  `TimeOut` is the idle time or a spurious wakeup.
* `fate`, `owed`, `joined` are history.

### ConcurrentQueue (`common/include/cppforge/data_structure/queue/ConcurrentQueue.hpp`)

* `queue` holds numbers: the n-th element pushed is n.  `pc` says where each thread is:
  about to test the predicate, asleep, or unlocked and about to notify.
* All operations: push/emplace, pop, try_push, try_pop, try_pop_for, clear.
  `MaxItems` bounds the elements ever pushed.

### TreiberStack and MichaelScottQueue (`common/include/cppforge/data_structure/concurrent/`)

* One action per atomic access, free pool included: a node is taken from the pool or the
  heap, its element constructed (the constructor may throw), linked by compare-and-swap,
  unlinked, its element moved or copied out, and put back in the pool.
* Pointers carry a tag modulo `TagMod`.  In the stack the tag counts on and the comparison of a
  compare-and-swap sees it modulo `TagMod` (`SameWord`), so that the model can say how often a head
  changed since it was read; what a comparison answers is the same.  `Torn` is what a copy reads while another thread
  constructs in the same node.  Both element kinds of the code are modelled: copyable ones
  are copied before the compare-and-swap, move-only ones moved after it.
* Move assignment (`AssignEmpty`) and clear happen when no operation is in progress, which
  is what the headers ask of the caller.

### ConcurrentSequence

What a lock-free stack (`LastInFirstOut`) and a lock-free queue promise: a call takes effect
in one step between its invocation and its return.  `TreiberStack` and `MichaelScottQueue`
implement it (`StackIsLinearizable`, `QueueIsLinearizable`) under the mapping `contents <-` the values along the list
from `top` or behind the dummy node, `in <-` the additions whose compare-and-swap has not
succeeded, `out <-` the values unlinked and not yet returned.  `MCLockFree` chooses one of the
two structures in the initial state and runs it; their properties are stated once for both.

### The services and `Services`

`Services` chooses a service in the initial state (`service`) and runs its threads and callers;
the services share nothing, so their variables share the places `s1` to `s12`.  The caches and the
hash ring of the library, which services are built on, are among them.  It states the
properties of the services and the assumptions on their constants, for the runs and for the
proofs; `MCServices` adds fairness, the liveness properties and the values of the constants.

| module | source | state | actions | what is checked |
|---|---|---|---|---|
| `TaskScheduler` | `starters/scheduler/src/TaskScheduler.cc` | `task_queue_`, `running_`, the worker threads with the task they hold and the end of their wait | schedule, cancel, start (worker by worker), stop, called by any thread; a worker's test, take, wait, task, decision to repeat and push, each a step; a cron search that throws and ends the process | `TasksAreKept`: a task is in one place, none is forgotten, `notify_one` leaves no due task to sleepers; `StepsAreSafe`: a cancelled task is not started, one scheduled once runs once; `CallsReturn`: stop returns; `StopCancelsPending` fails |
| `Actuators` | `thread/DelayedTaskActuator.hpp` | `pendingTasks`, `results`, the mutex held while a task runs, the detached threads, the promises | scheduleTask, getTaskResult, cancelTask, the destructor, a thread's wake-up and end | `TasksAreKept`: a pending task has its thread, a future has one taker; `CallsReturn`: every future is resolved or broken |
| `Actuators` | `thread/PeriodicActuator.hpp`, `.cc` | `isRunning_`, the timer, the handlers of the io_context, the worker | the three steps of start, the four of stop, called by any thread; expiry, the handler's steps | `TasksAreKept`: a running actuator has a chain of timer and task; `StepsAreSafe`: only start adds one; `CallsReturn` |
| `ConcurrentHashMap` | `concurrent/ConcurrentHashMap.hpp` | the chains (as sets of nodes: their order answers nothing), capacity and size of each segment, the walks in progress | insert, insert_or_assign, erase, clear and for_each segment by segment | `ReadersAgree`: get answers what was stored, through doubling; a walk meets what is there all the time |
| `MultiLevelCache` over `LRUCache` | `starters/cache/` | the LRU list, the backend | get, put, remove, clear, with a backend that refuses writes | `ReadersAgree`: only keys whose last write was refused may read stale |
| `Hosting` | `di/` | descriptors, `singletons_`, the mutex, the stack of resolutions | registration, build, getService, a factory's resolutions and return | `ReadersAgree`: one instance per singleton, although two threads ask first |
| `Hosting` | `middleware/` | the chain, the routes, the index of `next` | add, addRoute, execute, next called any number of times | `HandlersAreCalledInOrder` |
| `Observability` | `observability/EventBus` | handlers per event, the publications in progress | subscribe, publish, a handler that publishes, subscribes or throws | `HandlersAreCalledInOrder`: whoever was subscribed is called once, in order, up to a handler that throws |
| `Observability` | `observability/ConfigWatcher` | the file, `lastContent_`, the callback, the thread | the two steps of start and of stop, called by any thread; onChange, the four steps of the loop | `TasksAreKept`: no callback after stop; `CallsReturn`: a change that lasts is reported |
| `GrpcConnectivityManager` | `rpc/` | `is_monitoring_`, `monitor_thread_`, `last_known_state_` | each access of startMonitoring and stopMonitoring by two owners, the loop | `TasksAreKept`: the thread is joined before another starts; `CallsReturn` |
| `SnowflakeGenerator` | `gen/SnowflakeGenerator` | the clock, `last_timestamp_`, `sequence_` | NextId, its two waits, a clock that is set back | `StepsAreSafe`: no id is repeated, by a neighbouring node neither |
| `AuthSession` over `UserAuthenticator` | `starters/auth/`, `client/` | a client's place in `ClientTask::run`, all of `UserAuthenticator` | the calls of logIn and logOut: the server handles a request (`Serve`) and the client hears the answer (`Hear`) in separate steps, between which other clients are served; the channel loses requests or responses | `StepsAreSafe`: an answer that arrives was true of the row when the server handled the request |
| `Caches` (LinkedLRUCache), `LRUCache` | `hash/LRUCache.hpp`, `cache/LRUCache.hpp` | doubly linked nodes with sentinels; a list | get, put, remove, clear | `CachesEvict`: the links are one list both ways, and the linked cache refines the list cache, step by step |
| `Caches` (LFUCache) | `cache/LFUCache.hpp` | a list per frequency, places, `min_freq` | get, put, remove, clear | `CachesEvict`: lists, places and minimum agree; the victim is the least frequently, then least recently used |
| `ConsistentHash` | `hash/ConsistentHash.hpp`, `.cc` | `ring`, `nodeVNodeCounts` | addNode, removeNode, clear, getNode, getNodes | `HashRingIsConsistent`: the ring holds exactly the members' replicas, and only keys of the node that changes move |

start and stop of TaskScheduler, PeriodicActuator, ConfigWatcher and GrpcConnectivityManager may be
called by any thread at any time, as their headers promise (`TaskScheduler.hpp:8`,
`PeriodicActuator.hpp:10`, `GrpcConnectivityManager.hpp:10`).  The code does not lock them against
each other: a call that passes its test of the flag while another call is still at work on the same
`std::thread` objects is a data race.  The models record it (`owner = "overlap"`, `overlapped`); the
properties speak of behaviours up to that point, and that it can be reached is a divergence
(`CallsAreThreadSafe`, `ActuatorIsThreadSafe`, `MonitorIsThreadSafe`, section 3).

`AuthSession` composes: the service's handlers are the actions of `UserAuthenticator`, together
with the mapping of its exceptions to the codes of `error_map_`, and `Restart` and `Minute`
go on beside the clients.  `MultiLevelCache` extends `LRUCache` in the same way.

### The library, in `MCContainers` too

Structures owned by one thread that are not containers in the narrow sense, chosen by `kind`
as above.  Each action is a whole call; the abstract value is history; an algorithm is an
operator that is evaluated in every reachable state and compared with a reference definition.

| module | source | operations | compared with |
|---|---|---|---|
| `ArrayTrees` | `tree/range/`, `tree/crypto/MerkleTree` | Fenwick, segment tree and sparse table: build, update, queries; Merkle tree: build, append, proofs and their verification | sums, joins and minima over the array; a proof verifies for its leaf and for no other, and two lists of blocks have one root only if they are equal once each level of odd length is padded with its last node (`IndexesRead`) |
| `StringIndexes` | `string/AhoCorasick`, `tree/multiway/Trie.hpp` | insert, build, match; insert, erase, find, prefixes | occurrence by definition in every text; a map (`IndexesRead`) |
| `CronExpression` | `starters/scheduler/` | the sets of its fields, `matches`, `nextExecutionTime` as the scheduler calls it again and again | the first matching minute of those searched (`IndexesRead`) |
| `ArrayTrees` (PersistentVector) | `persistent/PersistentVector.hpp` | push_back, pop_back, update, sub_vector, concat; get, iteration order | a sequence (`IndexesRead`) |
| `SpatialTrees` | `spatial/IntervalTree`, `KDTree`, `tree/spatial/Quadtree` | insert, remove, build; range, point and nearest queries | a scan of everything stored, a point of the k-d tree once as `KDTree.hpp:216` says (`SearchesLeaveNothingOut`) |
| `SpatialTrees` (RTree) | `spatial/RTree.hpp` | insert with forced reinsertion and splits, remove with condensing, search | `SearchesLeaveNothingOut`: every entry is kept once; `SearchFindsAll` fails |
| `Streams` | `io/reader/`, `io/writer/`, `buffer/` | buffered and pushback readers, buffered output, typed buffers | the rest of the source, the bytes accepted (`StreamsDeliver`) |
| `Probabilistic` (filters) | `filter/` | insert, contains, clear; remove and displacement with rollback; union, intersection, difference | the keys that must be found; after `^=` those that one of the two filters was given (`EstimatorsHold`) |
| `Probabilistic` (estimators) | `probabilistic/` | CountMinSketch, HyperLogLog registers, MinHash: add, merge, clear; TDigest: add, compress, merge, serialize, quantile | the counts, the merged whole, the order of the values (`EstimatorsHold`) |
| `GraphAlgorithms` | `graph/` | traversals, topological orders, strong components, the shortest paths of Dijkstra, Bellman-Ford and Floyd-Warshall, two spanning trees, bridges and articulation points, colouring, cycles | reachability, paths and cuts by definition, on every graph from a set of edges (`GraphsAnswer`) |


### The sequential containers and `MCContainers`

A container owned by one thread has no interleavings; what is hard is a long sequence of
legal calls.  Each call is one action, its loops are recursive operators, and each module
carries, as history, the abstract value the container should have (a map, a sequence, a
set, a bag, a partition).

| module | source | state | operations | what the property says |
|---|---|---|---|---|
| `RobinHoodHashMap` | `hash/RobinHoodHashMap.hpp` | `slots`, `size`, `max_load`, the caller's iterator | insert, insert_or_assign, operator[], erase by key and by iterator, clear, rehash, reserve, max_load_factor, begin, ++ | `HashMapsFind`: it answers as a map; probe distances never jump, which the early stop of `find_slot` needs; erasing while iterating visits every entry |
| `CuckooHashMap` | `hash/CuckooHashMap.hpp` | two tables, stash, seed | insert, insert_or_assign, operator[], erase, clear, rehash, reserve, max_load_factor, move | `HashMapsFind`: it answers as a map, through kicks, stash and growth inside growth |
| `CircularBuffers` (RingBuffer) | `queue/RingBuffer.hpp` | `buffer`, `head`, `tail` | push and pop at both ends, resize, clear | `SequencesRead`: it reads as a bounded sequence of the newest elements |
| `CircularBuffers` (Deque) | `deque/Deque.hpp` | circular `buffer` that grows | push and pop at both ends, clear | `SequencesRead`: across the seam and through growth |
| `CircularBuffers` (Heap) | `heap/Heap.hpp` | `data` | construction from any range, push, pop, clear | `OrderIsKept`: the greatest element is on top, none is lost |
| `CircularBuffers` (TopK) | `top_k/TopK.hpp`, `.cc` | a heap of at most `capacity` | add, getTopK, construction | `OrderIsKept`: it holds the greatest of all it saw |
| `LinkedLists` (LinkedList) | `list/LinkedList.hpp` | `next`, `prev`, `head`, `tail`, `list_size` | push, pop, insert, erase, remove, reverse, clear | `SequencesRead`: forwards, backwards and size agree |
| `LinkedLists` (Queue) | `queue/Queue.hpp` | the nodes of two queues | push, pop, clear, swap, copy, move | `SequencesRead`: each queue reads as its sequence; no node in both, none leaked |
| `LinkedLists` (SkipList) | `list/SkipList.hpp` | `forward` towers, `currentLevel` | insert (any height), erase, search | `OrderIsKept`: every level is the sorted list of the nodes that reach it |
| `UnionFind` | `union_find/UnionSet.hpp`, `UnionSetWithRollback.hpp` | `parent`, `rank`, `history`, `set_count` | find (compressing), unionSets, connected; rollback to any length of the history, commit, clear | `UnionsPartition`: the sets are those of the unions made; a rollback restores the sets there were when the history was that long, between the two records of a union too; paths stay logarithmic, unless a rollback stopped there |
| `SearchTrees` (BSTBase, BinarySearchTree, AVLTree) | `tree/core/`, `tree/node/TreeNode.hpp`, `tree/balanced/AVLTree.hpp` | `root`: nested nodes with heights | insert, remove; the derived classes' hooks depend on `SelfBalancing` | `TreesSearch`: sorted, nothing lost, a search finds exactly the keys; AVL heights are right and differ by one at most |
| `SearchTrees` (TreeMap, TreeSet) | `map/TreeMap.hpp`, `set/TreeSet.hpp` | `root`, `size`, whether it is a copy | insert, insert_or_assign, operator[], erase, clear, copy | `TreesSearch`: they read as a map and a set, balanced unless copied |
| `SearchTrees` (SplayTree) | `tree/balanced/SplayTree.hpp` | `root`, `size` | insert, remove, find (splays too), clear | `TreesSearch`, and the key of the last access is at the root |
| `SearchTrees` (Treap) | `tree/balanced/Treap.hpp` | `root` with priorities, `size` | insert with any priority, remove, clear | `TreesSearch`, and heap order of the priorities, equal ones included |
| `SearchTrees` (RedBlackTree) | `tree/balanced/RedBlackTree.hpp`, `tree/node/RedBlackTreeNode.hpp` | nodes with colour and three links | insert (duplicates go right), remove | `TreesSearch`: order, parent links, colours and black heights |
| `MultiwayTrees` (BTree) | `tree/multiway/BTree.hpp` | `root`, `size` | insert, remove, contains, clear | `TreesSearch`; keys per node, leaves on one level |
| `MultiwayTrees` (BPlusTree) | `tree/multiway/BPlusTree.hpp` | `root`, `nodes` with leaf links, `head`, `size` | insert, remove, find, rangeScan, clear | as for `BTree`, and every range scan over the linked leaves is the map's |
| `MultiwayTrees` (LSMTree) | `tree/lsm/LSMTree.hpp`, `SSTable.hpp`, `LSMTreeOptions.hpp` | `options`, `memtable`, `levels` of tables | put, remove, get, flush, compact, clear | `OrderIsKept`: get answers the last put or remove, whatever was flushed and merged; the deeper levels stay sorted |

Containers of one kind share a module; where two of them have an operation of one name, the
class is put before it (`Deque_push_back`).

Trees whose nodes own their children through unique pointers are nested records; nodes with
shared or raw links (red-black, the leaves of the B+ tree) live in sequences, numbered again
after each call so that addresses make no states.  The code of a red-black tree spells its
cases out for left and right; the module has one, with a side.

A property of `MCContainers` is the conjunction of what the containers of one kind promise;
`PROJECT.json` has a faulty variant of the code for each container, so every conjunct is shown to matter.

`MCContainers` chooses a container or one of the library's structures (`kind`) in the initial state and then runs only that
one; as they share nothing, their variables share the places `s1` to `s7`.  The
hash functions are small tables chosen so that keys collide, runs go around the end of the
slots, kicks run out and the stash fills.

## 3. The runs

Run them in this directory: `tlc -workers 2 -config <cfg> <module>`.

| run | instance | states | what it shows |
|---|---|---|---|
| `auth_safety` | 2 clients, 2 users (one name is invalid), 3 passwords (one weak), `MaxAttempts` 2, `LockoutDuration` 2, `FailedBound` 4 | 73 794 | the cache never contradicts the table, whatever statement fails and whenever the process restarts; a login is justified by the table; a lockout bounds the passwords that are compared; registering never overwrites; a lock ends |
| `seqlock_snapshot` | 1 reader, 2 words, 2 critical sections, both kinds of hardware | 84 712 | in-order hardware returns committed snapshots only; a load returns once the writer leaves it alone |
| `pool_safety` | 2 workers, 2 clients, 3 tasks, queue of 2 | 173 404 | a task is in one place and runs at most once; no wakeup is lost; shutdown completes what was accepted and returns; an accepted task ends |
| `queue_wakeups` | 3 threads, capacity 2, 4 elements | 24 943 | elements are handed over in order; no thread sleeps beside what it waits for without a wakeup on its way; blocked threads are served |
| `lock_free` | stack: 2 threads, 3 nodes, 3 values, tags modulo 6, both element kinds; queue: 1 producer, 2 consumers (1 for move-only elements), 3 nodes, 2 values, tags modulo 3 | 525 817 | stack and queue implement `ConcurrentSequence`; no node, element or count is lost or shared |
| `containers` | twenty-one containers and twenty-one indexes, filters, estimators, streams and families of graph algorithms | 233 466 | each answers as its abstract value or a plain definition would, and the structure its fast paths need is never broken |
| `services` | twelve services with one or two threads each, two caches and a hash ring | 317 403 | tasks, threads and callbacks are kept, readers agree with writers, handlers are called in order, a full cache evicts the right key, a hash ring moves only the keys of the node that changed, no step repeats an id, starts a cancelled task or tells a client what was not so, and whoever waits is answered, as long as start and stop of one object do not overlap |

Violations: what the documentation says and the code does not do.

| run | property | what happens |
|---|---|---|
| `auth_reload` | `KnownUserIsFound` | after a restart no account of the table can be found any more |
| `pool_late_submit` | `NoTaskStranded` | a task accepted while the pool shuts down is never run |
| `msq_stale` | `NoElementLost` | with two producers an element is linked behind a recycled node and lost |
| `scheduler_stop` | `StopCancelsPending` | stop returns and leaves pending tasks in the queue, which the next start runs ("Stop the scheduler and cancel all pending tasks", `TaskScheduler.hpp:74`) |
| `rtree_search` | `SearchFindsAll` | an insertion enlarges the box of the leaf and not its copies above, so that a search does not find the entry |

The passing run of a component leaves out exactly the calls that a known divergence is about,
through a constant (`Producers`, `MoveConsumers`, and those of the next table) and never by
another definition of the code.

### Further divergences that can be reproduced

Each of these is one change of a cfg away; TLC finds the violation within seconds.

| change | fails | what happens |
|---|---|---|
| `MCContainers.cfg`, `AnySubscript = TRUE` | `HashMapsFind` | `RobinHoodHashMap::operator[]` for a new key that displaces another entry refers to the displaced entry |
| `MCContainers.cfg`, `AnyPosition = TRUE` | `SequencesRead` | `LinkedList::insert` in the middle forgets the backward link of the following node |
| `MCContainers.cfg`, `AnyKey = TRUE` | `TreesSearch` | inserting a key that a split has just made a routing key of a B+ tree stores it twice; `find` answers the old value |
| `MCServices.cfg`, `INVARIANT LoginIsProved` | `LoginIsProved` | `ClientTask::logIn` returns the name typed although the login failed, and `logOut` deletes that user |
| `MCServices.cfg`, `INVARIANT CanceledTasksDoNotRun` | `CanceledTasksDoNotRun` | `cancelTask` answers true and the detached thread still runs the task ("Cancels a scheduled task if it hasn't started yet", `DelayedTaskActuator.hpp:70`) |
| `MCServices.cfg`, `INVARIANT MonitorIsThreadSafe` | `MonitorIsThreadSafe` | two threads that start and stop the monitor assign to a joinable thread ("All public methods are thread-safe", `GrpcConnectivityManager.hpp:10`) |
| `MCServices.cfg`, `INVARIANT CallsAreThreadSafe` | `CallsAreThreadSafe` | start of TaskScheduler appends to `workers_` while stop still joins and clears it, and its workers may be lost ("All public methods can be called from any thread", `TaskScheduler.hpp:8`) |
| `MCServices.cfg`, `INVARIANT ActuatorIsThreadSafe` | `ActuatorIsThreadSafe` | start of PeriodicActuator assigns `workerThread_` while stop still joins it ("All public methods are thread-safe", `PeriodicActuator.hpp:10`) |
| `MCContainers.cfg`, `AnyResize = TRUE` | `SequencesRead` | `RingBuffer::resize` below the size keeps the oldest elements ("drops oldest elements if needed", `RingBuffer.hpp:310`) |
| `MCContainers.cfg`, `INVARIANT RanksBoundHeights` | `RanksBoundHeights` | a rollback between the two records of a union takes the rank back and leaves the link ("upper bound on tree height", `UnionSetWithRollback.hpp:163`) |
| `MCContainers.cfg`, `AnyPoint = TRUE` | `SearchesLeaveNothingOut` | `KDTree::insert` stores a point twice whose first copy `build` left on the other side of an equal coordinate ("will **not** be inserted again", `KDTree.hpp:216`) |
| `MCContainers.cfg`, `AnyDifference = TRUE` | `EstimatorsHold` | `BloomFilter::operator^=` clears bits of a key that only one filter was given ("false negatives are not", `BloomFilter.hpp:110`) |
| `MCContainers.cfg`, `AnyRead = TRUE` | `EstimatorsHold` | `TDigest::quantile` answers 0 while all values are still buffered, as in the example of `TDigest.hpp:63-69` |
| `MCContainers.cfg`, `AnyReset = TRUE` | `StreamsDeliver` | `BufferedReader::reset` after a refill repeats or skips characters |
| `MCContainers.cfg`, `AnyCount = TRUE` | `EstimatorsHold` | a counter of CountMinSketch wraps around, and its estimate falls below the count |
| `MCContainers.cfg`, `AnyInsert = TRUE` | `EstimatorsHold` | a failed insert of CuckooFilter with more kicks than its trail holds loses an entry ("Filter is full; state is unchanged") |
| `MCContainers.cfg`, `AnyPayload = TRUE` | `SearchesLeaveNothingOut` | removing one of two equal intervals with different payloads may miss it |

### Bounds, and why they are enough

* *Authentication.*  Two clients are needed for the gap in `change_password`; the second
  user only matters as a name that is refused.  Two attempts and a lockout of two minutes
  are the smallest values that tell "below", "at" and "past" each threshold apart;
  `FailedBound` caps the counter above the threshold, where its value is no longer compared
  with anything.
* *SeqLock.*  The reader may be overtaken by a whole critical section and meet the next one
  half way: two sections; a torn value needs two words.  Readers do not influence each other.
* *ThreadPool.*  Two workers and two submitters are the least for a wakeup to go to the wrong
  one; three tasks exceed the queue.
* *ConcurrentQueue.*  Three threads allow two sleepers of one kind beside one of the other,
  four elements fill a queue of two twice.
* *Lock-free structures.*  Three nodes allow a node to be popped, recycled and pushed again
  (ABA) while another thread holds its address.  Tags wrap, but no thread in the run sleeps
  for a whole period.
* *Containers.*  Tables of 4 slots grow to 8 with 5 keys; capacities 1 to 3 cover "empty",
  "full" and the seam; the heap is built from every range of up to 4 elements.
  Nine keys reach AVL trees of height 4 and single and double rotations after inserts and
  removals; eight red-black nodes reach every case of `fixDelete`; order 2, the least the code admits, gives B-trees of
  three levels with ten keys and B+ trees with seven; six keys let a copied TreeMap rotate by
  heights that are wrong; tables of the LSM tree hold one or two
  MemTables' entries and reach the deepest of three levels.  The abstract
  value makes each answer comparable, so a larger instance would repeat these shapes.
* *Services.*  Two workers of the scheduler are the least for `notify_one` to wake the wrong one;
  of its three tasks (once, every unit, by cron) one is due later than a periodic one, which makes
  the order of the queue matter; the clock
  stops at `MaxTime`, by which the periodic task has been due again.  Two getters race for one
  future, two threads for the first instance of a singleton.  Two segments whose tables double
  once are enough for keys that share a bucket only before.  A sequence of one bit and a clock
  that is set back make NextId wait in both its loops.  One name and two passwords let a login
  fail, and two clients let the user disappear between two calls of a session or while an answer is
  on its way.  Two owners start and stop the monitor of a channel.  The caches have four
  keys and three places, so that a hit, an eviction and a removal in the middle of a list all
  happen; the ring has three nodes of one to three replicas each and four keys between them.
* *The library.*  Branching by two gives persistent vectors of three levels with ten elements; nodes of
  three and of five entries make R-trees reinsert, split and condense; two keys of one
  fingerprint and a trail shorter than the kicks reach every branch of the cuckoo filter's
  insert; the text of a reader is longer than three buffers, with line ends on their borders.
  The graphs are all those of up to seven directed edges of nine on four nodes, negative
  circuits included, and of up to six undirected ones on five.  The cron search runs over a
  calendar of minutes, hours, days, months and weeks of two or three units each, whose longest
  gap is longer than `max_iterations`, so that the search also fails, as four years can be too
  short for a 29th of February on a given weekday.

### Fairness

* `UserAuthenticator`: weak fairness of `Minute`, since time passes.
* `SeqLock`: weak fairness of a reader's step, of the visibility of a store and of the end of
  a critical section: threads run, and a `WriteGuard` is destroyed some time.  That writes
  are finitely many is the bound: a writer that never pauses may starve a reader in the code too.
* `ThreadPool`: weak fairness of each worker's step and of the steps inside `submit` and
  `shutdown`: the operating system runs every thread that can run, and tasks end.  Nobody is
  obliged to call anything.
* `ConcurrentQueue`: weak fairness of each thread's steps; strong fairness of the timeout of
  `try_pop_for`, which is a deadline and does not start again after a spurious wakeup.
* `MCServices`: weak fairness of each worker, timer or monitor thread, of a caller that is inside
  start, stop, getTaskResult or a join, and of the clock; after the process has ended by an uncaught
  exception, or two calls overlap in a data race, of nothing.  Nobody is obliged to call anything.

Deadlock is not checked where the system may stop for good: all values used up, the pool shut
down, the writes done, or a thread waiting for an element nobody will push.

## 4. The proofs

`tlapm UserAuthenticatorProofs.tla` and likewise `SeqLockProofs`, `ThreadPoolProofs`,
`ConcurrentQueueProofs`, `TreiberStackProofs`, `ServicesProofs`, `ReaderProofs`,
`CollectionProofs`.
They hold for every value of the constants that meets the named assumptions
(`NamesAssumption`, `LockoutAssumption`, `SeqLockAssumption`, `ThreadPoolAssumption` and
so on, in the modules that declare the constants): any
number of clients, users, readers, words, workers, tasks.  TLC evaluates the same assumptions in
every run, and each inductive invariant below was checked with TLC before it was proved.

* **UserAuthenticator.**  `TypeCorrect`, `CacheIsCoherent`, `LoginsMatch`,
  `UnderflowIsHarmless`, `GuessesAreBounded` and the action property `RegisterIsSafe`.  The
  inductive invariant is `TypeOK /\ CacheCoherent /\ LoginMatchesDatabase /\` a count of the
  guesses: `BruteForceBound` alone is not inductive, as it says nothing of how the counter
  of failed attempts and the guesses since the last success move together.  That a login
  matches the table follows because authentication compares with the cache and the cache
  is coherent.  `UnderflowIsHarmless` has no run of its own: the difference with the clock's
  minimum overflows to a negative number, and the invariant shows that no counter can be at
  the threshold then.
* **SeqLock.**  `TypeCorrect` and `SnapshotsAreConsistent`.  `TypeCorrect` holds on any hardware and
  adds to the types that the counter as the readers see it is odd exactly while a critical section
  is open whose odd value has reached them (`OddWhileWriting`).  The invariant of the second has a part for the
  writer (the counter is odd exactly inside the critical section; outside it, memory holds what
  was committed last) and one for each reader: if the counter still is what the reader read
  first, every word it has copied is the committed one.  A reader that returns has seen the
  counter unchanged, so all its words are.  This one is for `in_order` hardware; without it the
  statement is false.
* **ThreadPool.**  `TypeCorrect`, `TasksAreInOnePlace`, `ShutdownIsGraceful` and
  `WakeupsAreNotLost`.  The invariant adds that only started workers move, that what a
  shutdown owes is still queued, running or done, and that a joined worker has exited.
  `WorkConserving` (if tasks wait and workers sleep, wakeups for them are on their way) compares
  sizes of sets; it rests on the lemmas `Counted`, `OneMore`, `OneLess` and `OnlyWakes`,
  which say how the number of sleepers and of pending notifications changes in a step.
* **ConcurrentQueue.**  `TypeCorrect`, `NoWakeupIsLost` and `QueueIsFirstInFirstOut`, for every
  capacity, 0 included.  `TypeOK` needs `PushesAreCounted` (pushes begun and done stay within the
  bound together).  `WakeupsAreNotLost` is an inequality of cardinalities and is inductive beside
  it: while a consumer sleeps, the elements do not outnumber the consumers that are awake and the
  notifications on their way, and the same for producers and free
  places; the lemmas say how each step moves both sides.
* **TreiberStack.**  `StackSound` and `StackLinearizable`, for any number of threads, nodes and
  values and runs of any length, under one condition, `StackIsFresh`: no thread stalls between its
  load of a head and its compare-and-swap while that head is swapped `TagMod` times (65536 in the
  code).  Without it the statement is false, in the code too: that is what a tag of 16 bits buys.
  In the instance of the run the condition holds in every state.
  * The invariant `IInv` describes the stack and the pool as sequences of distinct nodes that
    `next` links (`Linked`), says that every node is on the heap, in one of them or owned by one
    thread (`InOnePlace`), that the nodes of the stack hold elements, and what each thread may
    rely on (`Relies`): of a head it has read, its successor and its element, all true only as
    long as the tag is the same.  This is the ABA argument: a compare-and-swap that succeeds saw
    the tag it had read, so nothing it read since is stale.
  * The properties speak of the list that following `next` gives (`Nth`, `List`); that it is the
    sequence is proved once (`WalkMeetsTheList`), with a least counterexample in place of an
    induction, and how a push and a pop change it in the lemmas after it.
  * `SizeIsAccounted` compares cardinalities; the lemma `NextSize` says how each action moves the
    sides.  For linearizability each successful compare-and-swap is the step of `ConcurrentSequence`
    that adds or takes, the returns are its returns, and every other action changes nothing it sees.
* **The services.**  Each service has an inductive invariant of its own, in its module; a step of
  `Services` is a step of the one that was chosen, or none.  The theorems state the properties that
  the run `services` checks:
  * `TasksAreNeverLost` (`ServicesProofs`). TaskScheduler: a task that is not done is in the queue
    or with one worker (`HeldTasks`, `NoneForgotten`), and while tasks are queued some worker is
    awake or wakes no later than the first of them is due (`SomebodyLooks`); a cron task has its
    next time after now (`SchedulerAssumption`). Workers exist from the end of start to the end of
    stop (`WorkersAreJoined`), whoever calls them. DelayedTaskActuator: a pending task, its future
    and its thread go together. PeriodicActuator: timer, handler or task carries the chain, since
    `stop` clears `isRunning_` first. GrpcConnectivityManager: between two calls there is a thread
    exactly while the flag is set, for any number of owners. For these and for ConfigWatcher the
    statement is about behaviours in which no start or stop begins while another of the same object
    is at work; the code does not ensure that, section 3. ConfigWatcher: the copy that is called is of what was just stored, and only
    stop clears `running_`.
  * `HandlersKeepTheOrder` (`ReaderProofs`). EventBus: every publish in progress has called
    exactly a prefix of the handlers it copied, in order, whatever is subscribed or published
    inside them; a handler that throws ends its publish, and an
    outer one if the handler there lets the exception through. MiddlewareChain: `index` is the number of middlewares entered, and the routes in
    front of the answered one do not fit (`LeastNatural`). `MiddlewareAssumption`: fewer than 404
    routes, since the model answers with the number of the route where the code answers with its
    response.
  * `StepsKeepTheRules` (`ServicesProofs`), an action property. SnowflakeGenerator: an id given out is
    composed of a time, the node and a sequence that its generator has passed (`Composed`,
    `Passed`); that a new one is greater than the last and differs from those of other nodes is
    arithmetic (`LaterIsGreater`, `NumberOfNode`), given that node and sequence fit below the time
    (`SnowflakeAssumption`). AuthSession reuses the cache invariant of UserAuthenticator: what the
    server answers comes from the cache, and the cache does not contradict the table; an answer on
    its way stays true of the row it was given for (history `row`), which another client may change
    before it arrives.
  * `ReadersSeeTheWriters` (`ReaderProofs`). ConcurrentHashMap: every table is a function of the
    map (`Table`): the nodes of a segment are the pairs of the map, each in the bucket of its
    hash; that a rehash re-establishes it for the double capacity is the heart of the proof. A
    walk has shown (cleared) what is in the segments it has passed (`WalkHasPassed`).
    MultiLevelCache: both levels have what was put last, except for keys whose write the backend
    refused (`Agree`), through LRU eviction and promotion. ServiceProvider: whoever resolves a
    singleton for the first time holds the mutex, and the instances given out are numbered apart.
    Assumptions: a finite key set and any hash into the naturals, at least one segment and one
    bucket, a cache of at least one entry (`LRUCache` throws otherwise), factories that need types
    only.
  * `CachesEvictTheRightKey` (`CollectionProofs`). LRU: the invariant `LruOk` has a sequence of
    distinct nodes from one sentinel to the other, `next` along it and `prev` against it, whose
    inner nodes are the mapped keys (`Path`, `Linked`); the lemmas `Unlinked`, `Headed` and `Freed`
    say what `remove_node`, `add_to_head` and a deletion do to it.  That the walk along `next` in
    `cache_list` is this sequence is proved with a least counterexample (`WalkFollows`); then each
    get, put, remove and clear on the links is the call of the same name on the list of
    `cache::LRUCache`, evictions included: a refinement, step by step.  LFU: `LfuOk` says that every
    cached key is once on the list of its frequency, that no list is empty, that each list is
    sorted by the last use, latest first (`Shelves`), that `min_freq` is the least frequency, and
    that the keys fit into the capacity; so the last entry of the list of `min_freq` is the key
    with the fewest uses and among those the one used longest ago (`VictimIs`).  The history
    variables `uses` and `newer` are what the statement compares with, no step reads them.
    `StoreAssumption`: the sentinels are no keys, and a cache has room (both constructors throw
    otherwise).
  * `RingMovesOnlyItsKeys` (`CollectionProofs`). `RingHolds`: a place of the ring belongs to a node
    exactly if it is a replica of that node in the number that is stored for it.  `addNode` and
    `removeNode` change only places of their node, so that the first place at or behind a key is
    the same as before unless one of them is that node's (`OwnerStays`).  The loop of `getNodes`
    is a recursive function; that it exists is proved from finite prefixes (`LoopRuns`,
    `StepByStep`), that it passes every place once by counting (`LoopGoesAround`), and from that
    that it finds every member.  `RingAssumption`: hashes of 64 bits are taken to be distinct for
    different nodes; with a collision the code lets the later node have the place and
    removing one node removes the other's replica.

## 5. Only model-checked

* Liveness (`LockExpires`, `LoadReturns`, `ShutdownReturns`, `AcceptedTaskEnds`,
  `SleepersServed`, `CallsReturn`): the prover has no rule for fairness and ENABLED.
* MichaelScottQueue (`QueueIsSound`, `QueueIsLinearizable`): with two producers they are false
  (run `msq_stale`), so there is no theorem for any number of threads to prove.
* The sequential containers and the library (`HashMapsFind`, `SequencesRead`, `UnionsPartition`,
  `OrderIsKept`, `TreesSearch`, `IndexesRead`, `SearchesLeaveNothingOut`, `StreamsDeliver`,
  `EstimatorsHold`, `GraphsAnswer`): their loops are recursive operators, which the prover does not
  accept; what a recursion computes for every input would need induction over data.

## 6. What is not modelled, and why

`PROJECT.json` gives the reason for each part.  In short: parts that only call a library or
the operating system (logging, serialization, file formats, digests, MySQL, profiling),
abstract classes, pure functions on bytes, numbers and dates (ciphers, toolkits, big
numbers, geometry), and parts whose every call is one critical section on a map or a list
(RBAC, tokens, tracing, metrics, health checks) have no behaviour that takes several steps to
go wrong.  The repository's tests, more than half of its lines, are read and not modelled.
Within the modelled parts:

* memory is sequentially consistent except in SeqLock; running out of memory, and
  overflow of counters that would need 2^16 operations within one stall (the tags) or 2^63
  writes (the counter of SeqLock), are left out;
* a task of ThreadPool does not call its own pool; the model has no worker that joins itself;
* copying, moving and swapping of containers are left out where the source names only the members;
  the copies of TreeMap and TreeSet, the copies, moves and swaps of Queue, and a moved-from
  CuckooHashMap that is not used again are modelled;
* numbers that the code computes in floating point are left out (the estimates of the sketches, the
  sizing of filters, the nearest neighbour of the R-tree) or taken as rationals (TDigest's means);
* gRPC, boost::asio, SQLite and the caller's backend of MultiLevelCache are external: what they may
  do is modelled from how the code calls them.

## 7. Divergences met while modelling that no run reports

* `UserAuthenticator::change_password` (`UserAuthenticator.cc:158`) verifies under one lock and
  writes under another: a reset or re-registration in between is overwritten without its
  password having been verified ("Change user password after verifying current password",
  `UserAuthenticator.hpp:75`).
* `is_locked` compares with default constants; `PasswordPolicy::max_login_attempts`
  (`PasswordPolicy.hpp:30`) is never read.
* SeqLock on weakly ordered hardware: the release store of the odd counter does not order the data
  stores after it, and the signal fence emits no instruction, so a torn copy can be validated
  (`SnapshotOnAnyHardware` fails with `MemoryModels = {FALSE}`); `SeqLock.hpp:303` says the
  fence is sufficient.  `store` does not wait for readers although its comment says so.
* MichaelScottQueue, move-only elements and two consumers: the element is moved out after the
  node became the dummy, and may belong to a later enqueue by then (`DequeuedOnce` fails with
  two `MoveConsumers`).  The defensive branch after it leaks the old dummy.
* TreiberStack `try_pop` copies the element before it owns the node: the result is discarded when
  the compare-and-swap fails, but the copy is a data race.
* ThreadPool: a second `shutdown` returns at once, while the first still joins; a worker that
  leaves because of `stop_` does not decrement `active_thread_count_`; the pool never grows.
* A moved-from RingBuffer divides by its capacity 0.
* RobinHoodHashMap: `max_load_factor` calls a rehash to the present capacity, which does nothing;
  `rehash` below the number of elements does not end. CuckooHashMap: `operator[]` like
  RobinHoodHashMap's; a moved-from map keeps its stash; more equal hashes than two places and the
  stash hold make it grow for ever.
* `UnionSetWithRollback::rollback` reads a record after removing it from the vector.
* `hash::LRUCache` move assignment leaks the sentinels; SkipList's defaulted move leaves two
  owners; a copy of a full Deque has its `tail_` one past the end.
* BTree has the fault of BPlusTree that `AnyKey` shows: a key equal to the median that
  a split has just moved up goes on into the left half and is stored again (order 2: insert
  1, 2, 3, 4, 6, 4 gives 4 twice), though `BTree.hpp:459` says "No effect if key already exists".
* LSMTree: `mergeTables` means to drop a tombstone together with the value it deletes
  (`LSMTree.hpp:668`), but looks for the value after all iterators have passed it, so no tombstone is
  ever dropped.  That is fortunate: with `Dropped_withValue` an older value in a deeper level comes
  back.  `internalPut` uses a value again after offering it to `emplace` with `std::move`; the
  libraries leave it alone when nothing is inserted.  `compact` is documented to start at the deepest
  level that is too large and starts at the first.
* RedBlackTree: parent and child own each other through shared pointers, so nodes are never freed.
* TreeMap and TreeSet: `clone_node` copies keys and not heights, so that a copy rotates by heights
  of 1 until insertions pass its nodes; it stays sorted and may lose its balance
  (`TreeMap.hpp:323`).
* RTree: after removals an inner node may stay without entries.  Quadtree: the same point twice
  subdivides for ever.
* BloomFilter: `|=` adds the counts although keys may be common.
* MerkleTree: the last node of a level of odd length is paired with itself, so that different lists of
  blocks have one root ([a, b, c] and [a, b, c, c]).
* Trie: `startsWith` and `keys` are documented as lexicographic and follow an unordered_map.
* PushbackReader starts at a fixed place of 1024 whatever the size of its array
  (`PushbackReader.hpp:139`).
* FloydWarshall keeps the last of parallel edges, whatever its weight.  Bridges and cycles of
  undirected graphs skip the edge to the parent by its node, so that parallel edges count as one.
* TDigest: a digest merged with itself reads what it changes.
* CronExpression: the search gives up after four years and throws, which nothing in
  `TaskScheduler::workerLoop` catches (`TaskScheduler.cc:190`); day and weekday must both match,
  where cron takes either.
* Tracer with a limit of 0 removes from an empty list (`Tracer.cc:47`).

## 8. Plan

Done, in the order of importance: authentication, the concurrent structures (SeqLock,
ThreadPool, ConcurrentQueue, TreiberStack, MichaelScottQueue), the sequential containers and
search trees, the services with their threads, the client's session over the authenticator,
and the library of indexes, filters, streams and algorithms.

Proved, beside the theorems of UserAuthenticator, SeqLock and ThreadPool: the invariants of
ConcurrentQueue, the soundness and the linearizability of TreiberStack, and all safety properties
of the services, with the refinement of the linked LRU cache, the victims of the LFU cache and the
consistency of the hash ring.

Left, and worth proving next:

1. the sequential containers whose operations are loops of a few lines (RingBuffer, Deque, LinkedList),
   written without recursive operators as the caches and the ring are;
2. a reader of SeqLock on weakly ordered hardware with the fences the header asks for.

The parts that are not modelled, and why, are in section 6.
