SPECIFICATION Spec
CONSTANTS
    Kinds = {"robin hood", "cuckoo", "ring", "union", "rollback",
             "list", "skip list", "heap", "deque",
             "bst", "avl", "splay", "treap", "red black", "b tree", "b+ tree", "lsm",
             "tree map", "tree set", "queue", "top k",
             "vector", "intervals", "kd tree", "r tree", "wide r tree", "quadtree",
             "cuckoo filter", "bloom filter", "ranges", "merkle", "matcher", "trie",
             "reader", "pushback", "output", "buffer", "sketches", "digest",
             "directed graph", "network", "cron"}
    AnySubscript = FALSE
    AnyPosition = FALSE
    AnyKey = FALSE
    AnyResize = FALSE
    AnyPayload = FALSE
    AnyInsert = FALSE
    AnyCount = FALSE
    AnyReset = FALSE
    AnyPoint = FALSE
    AnyDifference = FALSE
    AnyRead = FALSE
    Absent = Absent
INVARIANTS HashMapsFind SequencesRead UnionsPartition
           OrderIsKept TreesSearch
           IndexesRead SearchesLeaveNothingOut StreamsDeliver EstimatorsHold
           GraphsAnswer
