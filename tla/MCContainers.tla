---------------------------- MODULE MCContainers ----------------------------
(***************************************************************************)
(* The sequential containers, indexes, filters, streams and graphs,        *)
(* checked one at a time: a behaviour chooses one and calls its            *)
(* operations.  They share nothing, so their variables share the places s1 *)
(* to s7; a place that one of them does not need holds Absent.             *)
(***************************************************************************)
EXTENDS Integers, Sequences, FiniteSets

CONSTANTS
    Kinds,          \* the containers and other parts of this run
    AnySubscript,   \* operator[] may displace entries of a hash map
    AnyPosition,    \* insert of a list may be called in the middle
    AnyResize,      \* resize of a ring buffer may drop elements
    AnyKey,         \* insert of a B-tree may be called for a key a split moves up
    AnyPayload,     \* equal intervals may have different payloads
    AnyInsert,      \* a failed insert of a cuckoo filter may not be undone
    AnyCount,       \* counts may be as large as the counters of a sketch
    AnyPoint,       \* a point that is stored may be inserted where insert may miss it
    AnyDifference,  \* operator^= of Bloom filters may clear bits of a key only one has
    AnyRead,        \* a quantile may be read before the first compress
    AnyReset,       \* a reader may return to a mark after it filled its buffer
    Absent

VARIABLES kind, s1, s2, s3, s4, s5, s6, s7

vars == <<kind, s1, s2, s3, s4, s5, s6, s7>>

(* Robin Hood: two keys collide in slot 3, whose run goes around the end of *)
(* 4 slots, and no longer when there are 8.                                 *)
RH == INSTANCE RobinHoodHashMap WITH
    Keys <- 1 .. 5, Values <- {0, 1}, Default <- 0, hash <- <<3, 3, 2, 7, 0>>,
    INITIAL_CAPACITY <- 4, LoadFactors <- {75, 100}, Counts <- {0, 5},
    slots <- s1, size <- s2, max_load <- s3, cursor <- s4, map <- s5, visited <- s6

(* Cuckoo: with the first seed all keys collide in both tables, so that the *)
(* kicks run out and the stash fills; with the second they spread.          *)
CH == INSTANCE CuckooHashMap WITH
    Keys <- 1 .. 4, Values <- {0, 1}, Default <- 0,
    hash_mix1 <- [s \in 0 .. 1 |-> [k \in 1 .. 4 |-> IF s = 0 THEN 0 ELSE k \div 2]],
    hash_mix2 <- [s \in 0 .. 1 |-> [k \in 1 .. 4 |-> IF s = 0 THEN 0 ELSE k]],
    INITIAL_CAPACITY <- 2, STASH_SIZE <- 1, MaxKicks <- 2,
    LoadFactors <- {75, 100}, Counts <- {0, 6}, ReuseMoved <- FALSE,
    tables <- s1, max_load <- s2, map <- s3

CB == INSTANCE CircularBuffers WITH
    Values <- {1, 2}, Default <- 0, Capacities <- 1 .. 3, kMinCapacity <- 2, MaxSize <- 4,
    Items <- 1 .. 4, MaxRange <- 4, MaxHeap <- 6,
    buffer <- s1, head <- s2, tail <- s3, slots <- s4, contents <- s5,
    deque_size <- s4, capacity <- s6, data <- s1, bag <- s2

UF == INSTANCE UnionFind WITH
    Elements <- 1 .. 5, n <- 4, Unchanged <- Absent,
    parent <- s1, rank <- s2, history <- s3, set_count <- s4,
    classes <- s5, seen <- s6

LK == INSTANCE LinkedLists WITH
    Nodes <- 1 .. 3, Values <- {1, 2}, Queues <- {}, Keys <- 1 .. 4, maxLevel <- 3, Header <- 0,
    Null <- Absent,
    data <- s1, next <- s2, prev <- s3, head <- s4, tail <- s5,
    list_size <- s6, contents <- s7,
    forward <- s1, currentLevel <- s2, size <- s3, set <- s4

QU == INSTANCE LinkedLists WITH
    Nodes <- 1 .. 4, Values <- {1, 2}, Queues <- {1, 2}, Keys <- {}, maxLevel <- 0,
    Header <- 0, Null <- Absent,
    data <- s1, next <- s2, head <- s3, tail <- s4, list_size <- s5, contents <- s6,
    prev <- s7, forward <- s7, currentLevel <- s7, size <- s7, set <- s7

(* Each tree with as many keys as its shapes need. *)
Itself(element) == element
First(entry) == entry[1]
BS == INSTANCE SearchTrees WITH
    Keys <- 1 .. 5, Key <- Itself, Mapped <- <<>>, Default <- 0,
    SelfBalancing <- FALSE, Priorities <- {}, Values <- {}, MaxSize <- 0,
    Null <- Absent, root <- s1, set <- s2, size <- s3, last <- s4, tree <- s5, bag <- s6,
    map <- s4, copied <- s5
AV == INSTANCE SearchTrees WITH
    Keys <- 1 .. 9, Key <- Itself, Mapped <- <<>>, Default <- 0,
    SelfBalancing <- TRUE, Priorities <- {}, Values <- {}, MaxSize <- 0,
    Null <- Absent, root <- s1, set <- s2, size <- s3, last <- s4, tree <- s5, bag <- s6,
    map <- s4, copied <- s5
SP == INSTANCE SearchTrees WITH
    Keys <- 1 .. 6, Key <- Itself, Mapped <- <<>>, Default <- 0,
    SelfBalancing <- FALSE, Priorities <- {}, Values <- {}, MaxSize <- 0,
    Null <- Absent, root <- s1, set <- s2, size <- s3, last <- s4, tree <- s5, bag <- s6,
    map <- s4, copied <- s5
TR == INSTANCE SearchTrees WITH
    Keys <- 1 .. 5, Key <- Itself, Mapped <- <<>>, Default <- 0,
    SelfBalancing <- FALSE, Priorities <- 1 .. 3, Values <- 1 .. 4,
    MaxSize <- 8, Null <- Absent,
    root <- s1, set <- s2, size <- s3, last <- s4, tree <- s1, bag <- s2,
    map <- s4, copied <- s5

TM == INSTANCE SearchTrees WITH
    Keys <- 1 .. 6, Key <- First, Default <- 0,
    Mapped <- [k \in 1 .. 6 |-> IF k = 4 THEN {1, 2} ELSE {1}],
    SelfBalancing <- TRUE, Priorities <- {}, Values <- {}, MaxSize <- 0, Null <- Absent,
    root <- s1, size <- s2, map <- s3, copied <- s4, set <- s5, last <- s6, tree <- s6, bag <- s7
TS == INSTANCE SearchTrees WITH
    Keys <- 1 .. 7, Key <- Itself, Mapped <- <<>>, Default <- 0,
    SelfBalancing <- TRUE, Priorities <- {}, Values <- {}, MaxSize <- 0, Null <- Absent,
    root <- s1, size <- s2, set <- s3, copied <- s4, map <- s5, last <- s6, tree <- s6, bag <- s7

(* Order 2, so that three levels need few keys.  One key of the B+ tree is  *)
(* inserted with two values, to tell an update from a new entry.            *)
MT == INSTANCE MultiwayTrees WITH
    Keys <- 1 .. 10, MapKeys <- 1 .. 7,
    Values <- [k \in 1 .. 7 |-> IF k = 4 THEN {0, 1} ELSE {0}],
    Order <- 2, Null <- Absent,
    root <- s1, size <- s2, set <- s3, nodes <- s3, head <- s4, map <- s5,
    Options <- {}, l0_compaction_threshold <- 2, max_levels <- 2, Tombstone <- -1,
    NoEntry <- Absent, options <- s1, memtable <- s2, levels <- s3

(* A MemTable of one entry, and tables of two, or of two entries: three     *)
(* keys reach the deepest of three levels, which is never compacted.        *)
LS == INSTANCE MultiwayTrees WITH
    Keys <- 1 .. 3, Values <- <<{0}, {0, 1}, {0}>>, MapKeys <- {}, Order <- 2, Null <- Absent,
    Options <- {[memtable_size |-> 1, fan_out |-> 2], [memtable_size |-> 2, fan_out |-> 1]},
    l0_compaction_threshold <- 2, max_levels <- 2, Tombstone <- -1, NoEntry <- Absent,
    options <- s1, memtable <- s2, levels <- s3, map <- s4,
    root <- s1, size <- s2, set <- s3, nodes <- s3, head <- s5

Interval(low, high, data) == [low |-> low, high |-> high, data |-> data]
SomeIntervals ==
    {Interval(0, 3, 1), Interval(0, 1, 2), Interval(1, 2, 1), Interval(1, 3, 3),
     Interval(2, 3, 2), Interval(2, 2, 4), Interval(3, 4, 1)}
Point(x, y) == [x |-> x, y |-> y]
Box(x1, y1, x2, y2) == [min |-> <<x1, y1>>, max |-> <<x2, y2>>]
Boxes == <<Box(0, 0, 1, 1), Box(2, 0, 3, 2), Box(4, 4, 5, 6),
           Box(0, 4, 1, 4), Box(1, 1, 4, 3), Box(5, 0, 6, 1)>>
(* Points that share coordinates, so that medians are not unique, and      *)
(* small nodes of boxes, that split and reinsert.                          *)
ST == INSTANCE SpatialTrees WITH
    Entries <- SomeIntervals \cup (IF AnyPayload THEN {Interval(1, 2, 2)} ELSE {}),
    Instants <- 0 .. 4,
    Points <- {<<0, 0>>, <<0, 2>>, <<1, 2>>, <<2, 1>>, <<2, 2>>}, K <- 2, MaxSize <- 4,
    Places <- {Point(0, 0), Point(1, 1), Point(4, 4), Point(-8, 8), Point(4, -4),
               Point(2, 2), Point(0, -8)},
    half <- 8, Null <- Absent,
    Items <- 1 .. 6, Removed <- {2, 5}, BoxOf <- Boxes, Dims <- 2, MaxEntries <- 3,
    root <- s1, size <- s2, quadtree_size <- s2, dataCount <- s2, contents <- s3
(* Larger nodes of boxes, that condense. *)
RL == INSTANCE SpatialTrees WITH
    Entries <- {}, Instants <- {}, Points <- {}, K <- 2, MaxSize <- 0, Places <- {},
    half <- 8, Null <- Absent,
    Items <- 1 .. 6, Removed <- {3}, BoxOf <- Boxes, Dims <- 2, MaxEntries <- 5,
    root <- s1, size <- s2, quadtree_size <- s2, dataCount <- s2, contents <- s3

(* Two keys have one fingerprint and the same buckets; both buckets of a   *)
(* third are the same.  Of the items, two share a column, two a register   *)
(* and two a smallest hash.                                                *)
PR == INSTANCE Probabilistic WITH
    Keys <- 1 .. 4, fingerprint <- <<1, 2, 3, 1>>, bucket1 <- <<0, 0, 1, 0>>,
    hash_fingerprint <- <<1, 2, 0>>, num_buckets <- 4, ENTRIES_PER_BUCKET <- 2,
    MAX_KICKS <- 4, TRAIL_CAPACITY <- 2,
    buckets <- s1, displacements <- s2, element_count <- s3, contents <- s4,
    hash_ap <- <<<<0, 9>>, <<2, 12>>, <<1, 4>>, <<4, 9>>>>, Salts <- {1, 2},
    table_size <- 8, MaxInserted <- 3,
    bit_table <- s1, inserted_element_count <- s2, inserted <- s3,
    Items <- 1 .. 3, Width <- 2, Depth <- 2, CounterBits <- 4, HashBits <- 5, Precision <- 1,
    Column <- <<[r \in 0 .. 1 |-> 0], [r \in 0 .. 1 |-> r], [r \in 0 .. 1 |-> 1 - r]>>,
    Hash <- <<3, 12, 20>>, SignatureSize <- 2, MaxHash <- 9,
    MinHashes <- <<[i \in 0 .. 1 |-> 4], [i \in 0 .. 1 |-> 3 + i], [i \in 0 .. 1 |-> 4 - i]>>,
    Counts <- IF AnyCount THEN {1, 15} ELSE {1, 2}, MaxCount <- IF AnyCount THEN 16 ELSE 2,
    counters <- s1, registers <- s2, signature <- s3, count <- s4,
    Values <- {1, 3, 4}, Weights <- {1, 2}, Compression <- 1, MaxWeight <- 4,
    centroids <- s1, buffer <- s2, totalWeight <- s3, seen <- s4

(* Nodes of two children: ten elements make the tree of a persistent        *)
(* vector three levels high.                                                *)
AT == INSTANCE ArrayTrees WITH
    Values <- 0 .. 2, MaxLength <- 6, data <- s1, fenwick <- s2, segment <- s3,
    Blocks <- {1, 2}, MaxLeaves <- 7, levels <- s1, contents <- s2,
    Items <- {1, 2}, BRANCH_BITS <- 1, MaxSize <- 10, Null <- Absent, vector <- s1

SI == INSTANCE StringIndexes WITH
    Alphabet <- {1, 2},
    Patterns <- {<<1>>, <<1, 2>>, <<2>>, <<2, 1, 2>>, <<1, 1>>, <<1, 2, 1>>},
    MaxPatterns <- 3, TextLength <- 5,
    goto <- s1, output <- s2, patterns <- s3, fail <- s4, trans <- s5, built <- s6,
    Keys <- {<<>>, <<1>>, <<1, 2>>, <<1, 2, 1>>, <<1, 1>>, <<2, 2>>},
    Values <- {1, 2}, Null <- Absent,
    root <- s1, size <- s2, map <- s3

(* Lines that end in the middle, at the end and after the end of a buffer. *)
IO == INSTANCE Streams WITH
    text <- <<1, 2, 0, 3, 4, 5, 0, 0, 6, 7, 8>>, newline <- 0, buffer_size <- 3,
    reader <- s1, marks <- s2, at <- s3, marked <- s4, refilled <- s5,
    characters <- <<1, 2, 3>>, Chars <- {1, 4}, size <- 3, DEFAULT_BUFFER_SIZE <- 3,
    buffer <- s1, buffer_pos <- s2, position <- s3, rest <- s4,
    Bytes <- {1, 2}, bufferSize <- 3, MaxWritten <- 7, Null <- Absent,
    array <- s2, writer <- s3, closed <- s4, accepted <- s5,
    Values <- {1, 2}, capacity <- 4, limit <- s1, reading <- s4, queue <- s5

(* Circuits of weight -1, 0 and more, and nodes that cannot be reached. *)
GP == INSTANCE GraphAlgorithms WITH
    n <- 4,
    Edges <- {<<0, 1, 2>>, <<1, 0, -2>>, <<1, 2, 1>>, <<2, 0, -1>>, <<2, 1, -2>>, <<0, 2, 4>>,
              <<2, 3, 1>>, <<1, 3, 3>>, <<3, 1, 1>>},
    MaxEdges <- 7, INT32_MAX <- 1000,
    adj_list <- s1, edge_count <- s2
GN == INSTANCE GraphAlgorithms WITH
    n <- 5,
    Edges <- {<<0, 1, 1>>, <<1, 2, 2>>, <<0, 2, 2>>, <<2, 3, 1>>, <<3, 4, 2>>, <<2, 4, 3>>,
              <<1, 4, 1>>},
    MaxEdges <- 12, INT32_MAX <- 1000,
    adj_list <- s1, edge_count <- s2

(* Days of four minutes; months of two and three days, so that the third    *)
(* day of a month is rare, and on some weekday too rare for the search.     *)
F(base, first, last, step) == [base |-> base, first |-> first, last |-> last, step |-> step]
Any == F("*", 0, 0, 1)
CX == INSTANCE CronExpression WITH
    Expressions <- {Any, F("*", 0, 0, 2), F("value", 1, 0, 1)} \X {Any, F("range", 0, 1, 2)}
                   \X {Any, F("range", 2, 3, 1), F("value", 3, 0, 1), F("value", 4, 0, 1)}
                   \X {Any, F("value", 2, 0, 1)}
                   \X {Any, F("value", 0, 0, 2), F("value", 1, 0, 1), F("value", 1, 0, 0)},
    Minute <- 2, Hour <- 2, Day <- 2, MonthDays <- 3, Months <- 2, Week <- 3,
    Days <- <<<<1, 1>>, <<2, 1>>, <<1, 2>>, <<2, 2>>, <<1, 1>>, <<2, 1>>, <<3, 1>>,
              <<1, 2>>, <<2, 2>>, <<3, 2>>>>,
    max_iterations <- 60, MaxTime <- 240, Delays <- {0, 1, 2, 5}, Nothing <- Absent,
    fields <- s1, from <- s2, due <- s3, earlier <- s4

-----------------------------------------------------------------------------
No6 == s6 = Absent /\ s7 = Absent
No5 == s5 = Absent /\ No6
No4 == s4 = Absent /\ No5
Keep6 == UNCHANGED <<kind, s6, s7>>
Keep5 == UNCHANGED s5 /\ Keep6
Keep4 == UNCHANGED s4 /\ Keep5

Init ==
    /\ kind \in Kinds
    /\ \/ kind = "robin hood" /\ RH!Init /\ s7 = Absent
       \/ kind = "cuckoo" /\ CH!Init /\ No4
       \/ kind = "ring" /\ CB!RingBuffer_Init /\ No6
       \/ kind = "union" /\ UF!UnionSet_Init /\ s3 = Absent /\ s4 = Absent /\ No6
       \/ kind = "rollback" /\ UF!UnionSetWithRollback_Init /\ s5 = Absent /\ s7 = Absent
       \/ kind = "list" /\ LK!LinkedList_Init
       \/ kind = "skip list" /\ LK!SkipList_Init /\ No5
       \/ kind = "heap" /\ CB!Heap_Init /\ s3 = Absent /\ No4
       \/ kind = "deque" /\ CB!Deque_Init /\ s7 = Absent
       \/ kind = "queue" /\ QU!Queue_Init /\ s7 = Absent
       \/ kind = "top k" /\ CB!TopK_Init /\ s3 = Absent /\ s4 = Absent
              /\ s5 = Absent /\ s7 = Absent
       \/ /\ \/ kind = "bst" /\ BS!BSTBase_Init
             \/ kind = "avl" /\ AV!BSTBase_Init
             \/ kind = "red black" /\ TR!RedBlackTree_Init
          /\ s3 = Absent /\ No4
       \/ /\ \/ kind = "treap" /\ TR!Treap_Init
             \/ kind = "b tree" /\ MT!BTree_Init
          /\ No4
       \/ /\ \/ kind = "tree map" /\ TM!TreeMap_Init
             \/ kind = "tree set" /\ TS!TreeSet_Init
             \/ kind = "splay" /\ SP!SplayTree_Init
             \/ kind = "lsm" /\ LS!LSMTree_Init
          /\ No5
       \/ kind = "b+ tree" /\ MT!BPlusTree_Init /\ No6
       \/ kind = "vector" /\ AT!PersistentVector_Init /\ s3 = Absent /\ No4
       \/ kind = "intervals" /\ ST!IntervalTree_Init /\ No4
       \/ kind = "kd tree" /\ ST!KDTree_Init /\ No4
       \/ kind = "r tree" /\ ST!RTree_Init /\ No4
       \/ kind = "wide r tree" /\ RL!RTree_Init /\ No4
       \/ kind = "quadtree" /\ ST!Quadtree_Init /\ No4
       \/ kind = "cuckoo filter" /\ PR!CuckooFilter_Init /\ No5
       \/ kind = "bloom filter" /\ PR!BloomFilter_Init /\ No4
       \/ kind = "ranges" /\ AT!RangeTrees_Init /\ No4
       \/ kind = "merkle" /\ AT!MerkleTree_Init /\ s3 = Absent /\ No4
       \/ kind = "matcher" /\ SI!AhoCorasick_Init /\ s7 = Absent
       \/ kind = "trie" /\ SI!Trie_Init /\ No4
       \/ kind = "reader" /\ IO!BufferedReader_Init /\ No6
       \/ kind = "pushback" /\ IO!PushbackReader_Init /\ No5
       \/ kind = "output" /\ IO!BufferedOutput_Init /\ No6
       \/ kind = "buffer" /\ IO!TypedBuffer_Init /\ No6
       \/ kind = "sketches" /\ PR!Sketches_Init /\ No5
       \/ kind = "cron" /\ CX!Init /\ No5
       \/ kind = "digest" /\ PR!TDigest_Init /\ No5
       \/ kind = "directed graph" /\ GP!Init /\ s3 = Absent /\ No4
       \/ kind = "network" /\ GN!Init /\ s3 = Absent /\ No4

RobinHood == kind = "robin hood" /\ RH!Next /\ UNCHANGED <<kind, s7>>
Cuckoo == kind = "cuckoo" /\ CH!Next /\ Keep4
Ring == kind = "ring" /\ CB!RingBuffer_Next /\ Keep6
Union == kind = "union" /\ UF!UnionSet_Next /\ UNCHANGED <<kind, s3, s4, s6, s7>>
Rollback == kind = "rollback" /\ UF!UnionSetWithRollback_Next /\ UNCHANGED <<kind, s5, s7>>
List == kind = "list" /\ LK!LinkedList_Next /\ UNCHANGED kind
Skip == kind = "skip list" /\ LK!SkipList_Next /\ Keep5
Heap == kind = "heap" /\ CB!Heap_Next /\ UNCHANGED s3 /\ Keep4
Deque == kind = "deque" /\ CB!Deque_Next /\ UNCHANGED <<kind, s7>>
Queue == kind = "queue" /\ QU!Queue_Next /\ UNCHANGED <<kind, s7>>
TopK == kind = "top k" /\ CB!TopK_Next /\ UNCHANGED <<kind, s3, s4, s5, s7>>
Bst == kind = "bst" /\ BS!BSTBase_Next /\ UNCHANGED s3 /\ Keep4
Avl == kind = "avl" /\ AV!BSTBase_Next /\ UNCHANGED s3 /\ Keep4
Splay == kind = "splay" /\ SP!SplayTree_Next /\ Keep5
TreeMap == kind = "tree map" /\ TM!TreeMap_Next /\ Keep5
TreeSet == kind = "tree set" /\ TS!TreeSet_Next /\ Keep5
Treap == kind = "treap" /\ TR!Treap_Next /\ Keep4
RedBlack == kind = "red black" /\ TR!RedBlackTree_Next /\ UNCHANGED s3 /\ Keep4
BTree == kind = "b tree" /\ MT!BTree_Next /\ Keep4
BPlusTree == kind = "b+ tree" /\ MT!BPlusTree_Next /\ Keep6
Lsm == kind = "lsm" /\ LS!LSMTree_Next /\ Keep5
Vector == kind = "vector" /\ AT!PersistentVector_Next /\ UNCHANGED s3 /\ Keep4
Intervals == kind = "intervals" /\ ST!IntervalTree_Next /\ Keep4
KdTree == kind = "kd tree" /\ ST!KDTree_Next /\ Keep4
RTree == kind = "r tree" /\ ST!RTree_Next /\ Keep4
WideRTree == kind = "wide r tree" /\ RL!RTree_Next /\ Keep4
Quadrants == kind = "quadtree" /\ ST!Quadtree_Next /\ Keep4
Cuckoos == kind = "cuckoo filter" /\ PR!CuckooFilter_Next /\ Keep5
Blooms == kind = "bloom filter" /\ PR!BloomFilter_Next /\ Keep4
Ranges == kind = "ranges" /\ AT!RangeTrees_Next /\ Keep4
Merkle == kind = "merkle" /\ AT!MerkleTree_Next /\ UNCHANGED s3 /\ Keep4
Matcher == kind = "matcher" /\ SI!AhoCorasick_Next /\ UNCHANGED <<kind, s7>>
Tries == kind = "trie" /\ SI!Trie_Next /\ Keep4
Readers == kind = "reader" /\ IO!BufferedReader_Next /\ Keep6
Pushbacks == kind = "pushback" /\ IO!PushbackReader_Next /\ Keep5
Outputs == kind = "output" /\ IO!BufferedOutput_Next /\ Keep6
Sketches == kind = "sketches" /\ PR!Sketches_Next /\ Keep5
Digests == kind = "digest" /\ PR!TDigest_Next /\ Keep5
Cron == kind = "cron" /\ CX!Next /\ Keep5
DirectedGraph == kind = "directed graph" /\ GP!GraphPaths_Next /\ UNCHANGED s3 /\ Keep4
Network == kind = "network" /\ GN!GraphNetworks_Next /\ UNCHANGED s3 /\ Keep4
Buffers == kind = "buffer" /\ IO!TypedBuffer_Next /\ Keep6

Next ==
    \/ RobinHood \/ Cuckoo \/ Ring \/ Union \/ Rollback
    \/ List \/ Skip \/ Heap \/ Deque
    \/ Bst \/ Avl \/ Splay \/ Treap \/ RedBlack \/ BTree \/ BPlusTree \/ Lsm
    \/ TreeMap \/ TreeSet \/ Queue \/ TopK
    \/ Vector \/ Intervals \/ KdTree \/ RTree \/ WideRTree \/ Quadrants
    \/ Cuckoos \/ Blooms \/ Ranges \/ Merkle \/ Matcher \/ Tries
    \/ Readers \/ Pushbacks \/ Outputs \/ Buffers
    \/ Sketches \/ Digests \/ DirectedGraph \/ Network \/ Cron

Spec == Init /\ [][Next]_vars

-----------------------------------------------------------------------------
(* RobinHoodHashMap: what find answers is what the calls stored.  Probe     *)
(* distances are right and rise by at most one from slot to slot, which the *)
(* early stop of find and the backward shift of erase need.                 *)
RobinHoodFinds ==
    kind = "robin hood" => RH!FindsExactlyTheMap /\ RH!RobinHoodOrder

(* RobinHoodHashMap and CuckooHashMap answer as maps, through displacement, *)
(* backward shift, kicks, stash and growth inside growth; erasing through   *)
(* an iterator of RobinHoodHashMap skips no other element.                  *)
HashMapsFind ==
    /\ RobinHoodFinds
    /\ kind = "robin hood" => RH!TypeOK /\ RH!IterationSkipsNothing
    /\ kind = "cuckoo" => CH!TypeOK /\ CH!FindsExactlyTheMap

(* LinkedList reads the same forward and backward, whatever was unlinked.   *)
ListReadsBothWays == kind = "list" => LK!LinkedList_TypeOK /\ LK!ReadsBothWays

(* LinkedList, RingBuffer and Deque read as the sequence of their elements, *)
(* across the seam of the circle and when the buffer grows or shrinks; so   *)
(* do two queues that are swapped, copied and moved.                        *)
SequencesRead ==
    /\ ListReadsBothWays
    /\ kind = "ring" => CB!RingBuffer_TypeOK /\ CB!RingBuffer_ReadsAsASequence
    /\ kind = "deque" => CB!Deque_TypeOK /\ CB!Deque_ReadsAsASequence
    /\ kind = "queue" => QU!QueuesRead

(* UnionSet and UnionSetWithRollback: roots are the partition the unions    *)
(* made that were not rolled back; paths stay logarithmic although          *)
(* compression moves nodes and rollbacks take ranks back.                   *)
UnionsPartition ==
    /\ kind = "union" => /\ UF!UnionSet_TypeOK /\ UF!RootsAreThePartition
                         /\ UF!UnionSet_PathsAreLogarithmic
    /\ kind = "rollback" => /\ UF!UnionSetWithRollback_TypeOK /\ UF!RollbackRestoresTheSets
                            /\ UF!UnionSetWithRollback_PathsAreLogarithmic

(* BPlusTree: find, rangeScan over the linked leaves and size answer from   *)
(* what was inserted last for each key and not removed since.               *)
BPlusTreeReads == kind = "b+ tree" => MT!ReadsAsAMap

(* The trees hold in order exactly what was inserted and not removed, and a *)
(* search finds it, through every rotation, split, borrowed key and merge.  *)
(* What keeps the paths short survives too: heights (AVLTree), colours and  *)
(* black heights (RedBlackTree), the priorities' heap order (Treap), keys   *)
(* per node and leaves on one level (BTree, BPlusTree); SplayTree brings    *)
(* the key of the last access to the root.  TreeMap and TreeSet read as     *)
(* they should also where the heights of a copy misguide the rotations.     *)
TreesSearch ==
    /\ kind = "bst" => BS!BSTBase_IsSearchTree
    /\ kind = "avl" => AV!BSTBase_IsSearchTree /\ AV!AVLTree_IsBalanced
    /\ kind = "splay" => SP!SplayTree_IsSearchTree /\ SP!LastIsAtTheRoot
    /\ kind = "treap" => TR!Treap_IsSearchTree /\ TR!IsHeap
    /\ kind = "red black" => TR!IsOrdered /\ TR!IsRedBlack
    /\ kind = "b tree" => MT!IsSearchTree /\ MT!BTree_IsBalanced
    /\ kind = "b+ tree" => MT!BPlusTree_IsBalanced
    /\ BPlusTreeReads
    /\ kind = "tree map" => TM!TreeMap_Reads
    /\ kind = "tree set" => TS!TreeSet_Reads

(* Heap: the greatest element is on top and none is lost.  TopK turns away  *)
(* nothing that is among the greatest of all it saw.  SkipList: every      *)
(* level is a sorted list of the nodes that reach it, and search finds      *)
(* exactly the keys in the list.  LSMTree: get answers the last put, and    *)
(* nothing after the last remove: neither a flush nor a compaction loses an *)
(* entry or brings an older one back, and the tables of the deeper levels   *)
(* stay sorted and apart, which the binary search of searchLevel needs.     *)
OrderIsKept ==
    /\ kind = "heap" => CB!TopIsGreatest
    /\ kind = "top k" => CB!TopKAreGreatest
    /\ kind = "skip list" => LK!SkipList_TypeOK /\ LK!LevelsAreSortedLists
    /\ kind = "lsm" => LS!GetsTheLatest /\ LS!LevelsAreSorted

(* What the indexes promise of their reads: an index reads as the elements *)
(* that were put in, in order, after every growth and shrinking.  The      *)
(* search of a cron expression leaves out no minute that matches.          *)
IndexesRead ==
    /\ kind = "vector" => AT!ReadsAsASequence
    /\ kind = "ranges" => AT!RangesAnswer
    /\ kind = "merkle" => AT!ProofsVerify
    /\ kind = "trie" => SI!KeysAreFound
    /\ kind = "matcher" => SI!MatchesAll
    /\ kind = "cron" => CX!NextIsTheFirst

(* What the spatial indexes promise: a search that leaves out parts of the *)
(* tree answers as a scan of everything that is stored.  Of the R-tree,    *)
(* whose search does not: insertImpl, splitLeafNode and removeRecursive,   *)
(* with reinsertion, splits and condensing, keep every entry once.         *)
SearchesLeaveNothingOut ==
    /\ kind = "intervals" => ST!QueriesAnswer
    /\ kind = "kd tree" => ST!SearchesAnswer
    /\ kind = "quadtree" => ST!RangesAnswer
    /\ kind = "r tree" => ST!EntriesAreKept
    /\ kind = "wide r tree" => RL!EntriesAreKept

(* The buffered streams and the typed buffers: what comes out is what went *)
(* in, in order, at any sizes around those of the buffers.                 *)
StreamsDeliver ==
    /\ kind = "reader" => IO!BufferedReader_DeliversTheRest
    /\ kind = "pushback" => IO!PushbackReader_DeliversTheRest
    /\ kind = "output" => IO!ArrivesInOrder
    /\ kind = "buffer" => IO!GetsWhatWasPut

(* CuckooFilter and BloomFilter never deny a key that is in, after any     *)
(* displacements, removals and combinations.  The estimators: what two     *)
(* were told before they are merged is in the one they become, and an      *)
(* estimate keeps to its side of the truth.                                *)
EstimatorsHold ==
    /\ kind = "cuckoo filter" => PR!CuckooFilter_NeverMisses
    /\ kind = "bloom filter" => PR!BloomFilter_NeverMisses
    /\ kind = "sketches" => PR!SketchesCover
    /\ kind = "digest" => PR!DigestsSummarize

(* graph::algorithm, on every graph built from the edges above: what the   *)
(* traversals reach, the orders, cycles and components, the distances and  *)
(* paths, the spanning trees, cuts and colours are what the edges say.     *)
GraphsAnswer ==
    /\ kind = "directed graph" => /\ GP!TraversalsReach
                                  /\ GP!OrdersFollowEdges
                                  /\ GP!ComponentsAreStrong
                                  /\ GP!PathsAreShortest
    /\ kind = "network" => /\ GN!SpanningTreesAreMinimal
                           /\ GN!CutsAreCritical
                           /\ GN!ColorsDiffer
                           /\ GN!CyclesAreFound

(* UnionSetWithRollback.hpp:163 on the ranks: "Upper bound on tree height". *)
(* A rollback between the two records of a union takes the rank back and   *)
(* leaves the link.                                                        *)
RanksBoundHeights == kind = "rollback" => UF!RanksBoundHeights

(* RTree.hpp:196 on search: "Vector of matching payloads".                 *)
SearchFindsAll == kind = "r tree" => ST!SearchFindsAll
=============================================================================
