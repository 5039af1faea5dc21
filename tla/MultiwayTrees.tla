------------------------------- MODULE MultiwayTrees ------------------------
(***************************************************************************)
(* tree::multiway::BTree and BPlusTree, and tree::lsm::LSMTree.            *)
(***************************************************************************)
EXTENDS Integers, FiniteSets, SequencesExt

CONSTANTS
    Keys,     \* integers
    Order,    \* minimum degree
    AnyKey,   \* insert may be called for a key that a split moves up
    Null,
    MapKeys,  \* integers
    Values,   \* per key: the values it is inserted with
    Options,                    \* the options an LSM tree may be created with
    l0_compaction_threshold, max_levels,
    Tombstone, NoEntry

VARIABLES
    root,   \* root_
    size,   \* size_
    set,    \* history: the keys it should hold
    head,   \* head_
    nodes,  \* per node: keys_, values_, children_, prev_, next_
    map,    \* history: the values of the keys it should hold
    options,    \* options_: memtable_size and fan_out
    memtable,   \* memtable_: for each key an entry or NoEntry
    levels      \* levels_: for each level 0 .. max_levels its tables

-----------------------------------------------------------------------------
(* tree::multiway::BTree: nodes of up to 2 Order - 1 keys, split on the    *)
(* way down of an insert, filled up on the way down of a remove.  A node   *)
(* owns its children, so the tree is a nested record; count_ is the number *)
(* of keys and a leaf has no children.                                     *)

BTree_vars == <<root, size, set>>

Leaf(n) == n.children = <<>>
Count(n) == Len(n.keys)
isFull(n) == Count(n) = 2 * Order - 1

(* The first n elements, and those after the first n. *)
BTree_First(s, n) == SubSeq(s, 1, IF n < Len(s) THEN n ELSE Len(s))
After(s, n) == SubSeq(s, n + 1, Len(s))

(* Index of the first key that is not below k; also of the child for k. *)
findKey(n, k) == 1 + Cardinality({i \in 1 .. Count(n) : n.keys[i] < k})
Holds(n, i, k) == i <= Count(n) /\ n.keys[i] = k

RECURSIVE contains(_, _)
contains(n, k) ==
    LET i == findKey(n, k)
    IN  Holds(n, i, k) \/ (~ Leaf(n) /\ contains(n.children[i], k))

(* The median key of child i moves up between the two halves of the child. *)
splitChild(n, i) ==
    LET c == n.children[i]
        low == [keys |-> BTree_First(c.keys, Order - 1), children |-> BTree_First(c.children, Order)]
        high == [keys |-> After(c.keys, Order), children |-> After(c.children, Order)]
    IN  [keys |-> InsertAt(n.keys, i, c.keys[Order]),
         children |-> InsertAt([n.children EXCEPT ![i] = low], i + 1, high)]

RECURSIVE BTree_insertNonFull(_, _)
BTree_insertNonFull(n, k) ==
    LET i == findKey(n, k)
    IN  IF Holds(n, i, k) THEN n
        ELSE IF Leaf(n) THEN [n EXCEPT !.keys = InsertAt(@, i, k)]
        ELSE LET split == isFull(n.children[i])
                 m == IF split THEN splitChild(n, i) ELSE n
                 j == IF split /\ m.keys[i] < k THEN i + 1 ELSE i
             IN  [m EXCEPT !.children[j] = BTree_insertNonFull(m.children[j], k)]

(* The insert of k splits a node below n whose median is k itself. *)
RECURSIVE MovesUp(_, _)
MovesUp(n, k) ==
    LET i == findKey(n, k)
        c == n.children[i]
    IN /\ ~ Leaf(n) /\ ~ Holds(n, i, k)
       /\ (isFull(c) /\ c.keys[Order] = k) \/ MovesUp(c, k)

BTree_insert(k) ==
    LET top == IF isFull(root) THEN splitChild([keys |-> <<>>, children |-> <<root>>], 1)
               ELSE root
    IN /\ root # Null => AnyKey \/ ~ MovesUp(top, k)
       /\ root' = IF root = Null THEN [keys |-> <<k>>, children |-> <<>>]
                  ELSE BTree_insertNonFull(top, k)
       /\ size' = IF root # Null /\ contains(top, k) /\ ~ MovesUp(top, k)
                  THEN size ELSE size + 1
       /\ set' = set \cup {k}

RECURSIVE getPredecessor(_)
getPredecessor(n) ==
    IF Leaf(n) THEN n.keys[Count(n)] ELSE getPredecessor(n.children[Count(n) + 1])

RECURSIVE getSuccessor(_)
getSuccessor(n) == IF Leaf(n) THEN n.keys[1] ELSE getSuccessor(n.children[1])

(* The last key of child i - 1 moves up, the key above moves down into i. *)
borrowFromPrev(n, i) ==
    LET c == n.children[i]
        s == n.children[i - 1]
        given == IF Leaf(s) THEN <<>> ELSE <<s.children[Count(s) + 1]>>
    IN  [keys |-> [n.keys EXCEPT ![i - 1] = s.keys[Count(s)]],
         children |-> [n.children EXCEPT
             ![i] = [keys |-> <<n.keys[i - 1]>> \o c.keys, children |-> given \o c.children],
             ![i - 1] = [keys |-> BTree_First(s.keys, Count(s) - 1),
                         children |-> BTree_First(s.children, Count(s))]]]

borrowFromNext(n, i) ==
    LET c == n.children[i]
        s == n.children[i + 1]
    IN  [keys |-> [n.keys EXCEPT ![i] = s.keys[1]],
         children |-> [n.children EXCEPT
             ![i] = [keys |-> Append(c.keys, n.keys[i]),
                     children |-> c.children \o BTree_First(s.children, 1)],
             ![i + 1] = [keys |-> After(s.keys, 1),
                         children |-> IF Leaf(s) THEN <<>> ELSE After(s.children, 1)]]]

(* Children i and i + 1 become one, with the key between them. *)
merge(n, i) ==
    LET l == n.children[i]
        r == n.children[i + 1]
        both == [keys |-> Append(l.keys, n.keys[i]) \o r.keys,
                 children |-> l.children \o r.children]
    IN  [keys |-> RemoveAt(n.keys, i),
         children |-> RemoveAt([n.children EXCEPT ![i] = both], i + 1)]

fill_thin(n, i) ==
    IF i > 1 /\ Count(n.children[i - 1]) >= Order - 1 THEN borrowFromPrev(n, i)
    ELSE IF i <= Count(n) /\ Count(n.children[i + 1]) >= Order THEN borrowFromNext(n, i)
    ELSE merge(n, IF i <= Count(n) THEN i ELSE i - 1)
fill(n, i) ==
    IF i > 1 /\ Count(n.children[i - 1]) >= Order THEN borrowFromPrev(n, i)
    ELSE IF i <= Count(n) /\ Count(n.children[i + 1]) >= Order THEN borrowFromNext(n, i)
    ELSE merge(n, IF i <= Count(n) THEN i ELSE i - 1)

RECURSIVE removeFromNode(_, _)
removeFromNode(n, k) ==
    LET i == findKey(n, k)
        Within(m, j, x) == [m EXCEPT !.children[j] = removeFromNode(m.children[j], x)]
    IN  IF Leaf(n) THEN IF Holds(n, i, k) THEN [n EXCEPT !.keys = RemoveAt(@, i)] ELSE n
        ELSE IF Holds(n, i, k)
        THEN IF Count(n.children[i]) >= Order
             THEN LET pred == getPredecessor(n.children[i])
                  IN  Within([n EXCEPT !.keys[i] = pred], i, pred)
             ELSE IF Count(n.children[i + 1]) >= Order
             THEN LET succ == getSuccessor(n.children[i + 1])
                  IN  Within([n EXCEPT !.keys[i] = succ], i + 1, succ)
             ELSE Within(merge(n, i), i, k)
        ELSE LET m == IF Count(n.children[i]) = Order - 1 THEN fill(n, i) ELSE n
             IN  Within(m, IF i > Count(m) + 1 THEN Count(m) + 1 ELSE i, k)

BTree_remove(k) ==
    LET t == removeFromNode(root, k)
    IN /\ root # Null
       /\ root' = IF t.keys # <<>> THEN t
                  ELSE IF Leaf(t) THEN Null ELSE t.children[1]
       /\ size' = IF contains(root, k) THEN size - 1 ELSE size
       /\ set' = set \ {k}

BTree_clear == root' = Null /\ size' = 0 /\ set' = {}

BTree_Init == root = Null /\ size = 0 /\ set = {}

BTree_Next ==
    \/ \E k \in Keys : BTree_insert(k) \/ BTree_remove(k)
    \/ BTree_clear

-----------------------------------------------------------------------------
RECURSIVE Inorder(_)
Inorder(n) ==
    IF Leaf(n) THEN n.keys
    ELSE FoldLeft(LAMBDA s, i : s \o <<n.keys[i]>> \o Inorder(n.children[i + 1]),
                  Inorder(n.children[1]), [i \in 1 .. Count(n) |-> i])

(* inorder() is the sorted sequence of the keys held, each once; contains   *)
(* finds exactly them and size_ counts them.                                *)
IsSearchTree ==
    LET s == IF root = Null THEN <<>> ELSE Inorder(root)
    IN /\ \A i \in 1 .. Len(s) - 1 : s[i] < s[i + 1]
       /\ ToSet(s) = set
       /\ {k \in Keys : root # Null /\ contains(root, k)} = set
       /\ size = Cardinality(set)

RECURSIVE BTree_Depths(_)
BTree_Depths(n) == IF Leaf(n) THEN {1} ELSE {d + 1 : d \in UNION {BTree_Depths(c) : c \in ToSet(n.children)}}

RECURSIVE Below(_)
Below(n) == UNION {{c} \cup Below(c) : c \in ToSet(n.children)}

(* "Every node has at most 2t-1 keys", "every non-root node has at least    *)
(* t-1 keys", an inner node one child more than keys, and "all leaves       *)
(* appear at the same depth".                                               *)
BTree_IsBalanced ==
    root # Null =>
        /\ Cardinality(BTree_Depths(root)) = 1
        /\ Count(root) \in 1 .. 2 * Order - 1
        /\ \A n \in Below(root) : Count(n) \in Order - 1 .. 2 * Order - 1
        /\ \A n \in Below(root) \cup {root} : Leaf(n) \/ Len(n.children) = Count(n) + 1

-----------------------------------------------------------------------------
(* tree::multiway::BPlusTree: the values are in the leaves, which form a   *)
(* doubly linked list; the keys of an inner node only route.  Addresses    *)
(* are not visible from outside, so that after a call the nodes are        *)
(* numbered from the root down.                                            *)

BPlusTree_vars == <<root, head, nodes, size, map>>

BPlusTree_First(s, n) == SubSeq(s, 1, n)

NewLeaf(k, v) ==
    [keys |-> k, values |-> v, children |-> <<>>, prev |-> Null, next |-> Null]
Inner(k, c) == [keys |-> k, values |-> <<>>, children |-> c, prev |-> Null, next |-> Null]


(* The child for k: a key equal to a routing key is right of it. *)
ChildFor(n, k) == 1 + Cardinality({i \in 1 .. Count(n) : n.keys[i] <= k})

SetPrev(h, x, p) == IF x = Null THEN h ELSE [h EXCEPT ![x].prev = p]

(* Child i of node p is full: its upper part goes to a new sibling, which  *)
(* is linked behind it; the first key of the sibling becomes routing key.  *)
splitLeaf(h, p, i) ==
    LET c == h[p].children[i]
        s == Len(h) + 1
        sibling == [NewLeaf(After(h[c].keys, Order), After(h[c].values, Order))
                       EXCEPT !.prev = c, !.next = h[c].next]
    IN  [SetPrev(Append(h, sibling), h[c].next, s) EXCEPT
            ![c].keys = BPlusTree_First(@, Order), ![c].values = BPlusTree_First(@, Order), ![c].next = s,
            ![p].keys = InsertAt(@, i, sibling.keys[1]),
            ![p].children = InsertAt(@, i + 1, s)]

splitInternal(h, p, i) ==
    LET c == h[p].children[i]
    IN  [Append(h, Inner(After(h[c].keys, Order), After(h[c].children, Order))) EXCEPT
            ![c].keys = BPlusTree_First(@, Order - 1), ![c].children = BPlusTree_First(@, Order),
            ![p].keys = InsertAt(@, i, h[c].keys[Order]),
            ![p].children = InsertAt(@, i + 1, Len(h) + 1)]

split(h, p, i) ==
    IF Leaf(h[h[p].children[i]]) THEN splitLeaf(h, p, i) ELSE splitInternal(h, p, i)

RECURSIVE BPlusTree_insertNonFull(_, _, _, _)
BPlusTree_insertNonFull(h, x, k, v) ==
    LET n == h[x]
        i == IF Leaf(n) THEN findKey(n, k) ELSE ChildFor(n, k)
    IN  IF Leaf(n)
        THEN IF Holds(n, i, k) THEN [h EXCEPT ![x].values[i] = v]
             ELSE [h EXCEPT ![x].keys = InsertAt(@, i, k), ![x].values = InsertAt(@, i, v)]
        ELSE LET full == isFull(h[n.children[i]])
                 g == IF full THEN split(h, x, i) ELSE h
                 j == IF full /\ g[x].keys[i] < k THEN i + 1 ELSE i
             IN  BPlusTree_insertNonFull(g, g[x].children[j], k, v)

(* The insert of k splits a node below x so that k itself becomes the       *)
(* routing key.                                                             *)
RECURSIVE MeetsSplit(_, _, _)
MeetsSplit(h, x, k) ==
    LET y == h[x].children[ChildFor(h[x], k)]
        c == h[y]
    IN /\ ~ Leaf(h[x])
       /\ \/ isFull(c) /\ k = c.keys[IF Leaf(c) THEN Order + 1 ELSE Order]
          \/ MeetsSplit(h, y, k)

RECURSIVE findLeaf(_, _, _)
findLeaf(h, x, k) ==
    IF Leaf(h[x]) THEN x ELSE findLeaf(h, h[x].children[ChildFor(h[x], k)], k)

find(k) ==
    LET n == nodes[findLeaf(nodes, root, k)]
        i == findKey(n, k)
    IN  IF root # Null /\ Holds(n, i, k) THEN n.values[i] ELSE Null

(* The nodes below x, from the root down. *)
RECURSIVE Preorder(_, _)
Preorder(h, x) ==
    FoldLeft(LAMBDA s, c : s \o Preorder(h, c), <<x>>, h[x].children)

(* The tree of h below r, with its nodes numbered. *)
Becomes(h, r, first) ==
    LET order == Preorder(h, r)
        Name(x) == IF x = Null THEN Null ELSE CHOOSE i \in DOMAIN order : order[i] = x
    IN /\ root' = 1
       /\ head' = Name(first)
       /\ nodes' = [i \in DOMAIN order |->
              [h[order[i]] EXCEPT !.children = [c \in DOMAIN @ |-> Name(@[c])],
                                  !.prev = Name(@), !.next = Name(@)]]

LeafKeys(h, r) == UNION {{<<x, k>> : k \in ToSet(h[x].keys)} :
                            x \in {y \in ToSet(Preorder(h, r)) : Leaf(h[y])}}

BPlusTree_insert(k, v) ==
    LET grown == isFull(nodes[root])
        top == IF grown THEN Len(nodes) + 1 ELSE root
        h == IF grown THEN split(Append(nodes, Inner(<<>>, <<root>>)), top, 1) ELSE nodes
        g == BPlusTree_insertNonFull(h, top, k, v)
    IN /\ map' = [map EXCEPT ![k] = v]
       /\ IF root = Null
          THEN /\ root' = 1 /\ head' = 1
               /\ nodes' = <<NewLeaf(<<k>>, <<v>>)>>
               /\ size' = size + 1
          ELSE /\ AnyKey \/ ~ MeetsSplit(h, top, k)
               /\ Becomes(g, top, head)
               /\ size' = size + Cardinality(LeafKeys(g, top))
                               - Cardinality(LeafKeys(nodes, root))

-----------------------------------------------------------------------------
(* Child i of node p gets an entry from the sibling on its left, its right. *)
borrowLeafFromPrev(h, p, i) ==
    LET c == h[p].children[i]
        s == h[p].children[i - 1]
        n == Count(h[s])
    IN  [h EXCEPT ![c].keys = <<h[s].keys[n]>> \o @,
                  ![c].values = <<h[s].values[n]>> \o @,
                  ![s].keys = BPlusTree_First(@, n - 1), ![s].values = BPlusTree_First(@, n - 1),
                  ![p].keys[i - 1] = h[s].keys[n]]

borrowLeafFromNext_stale(h, p, i) ==
    LET c == h[p].children[i]
        s == h[p].children[i + 1]
    IN  [h EXCEPT ![c].keys = Append(@, h[s].keys[1]),
                  ![c].values = Append(@, h[s].values[1]),
                  ![s].keys = After(@, 1), ![s].values = After(@, 1)]
borrowLeafFromNext(h, p, i) ==
    LET c == h[p].children[i]
        s == h[p].children[i + 1]
    IN  [h EXCEPT ![c].keys = Append(@, h[s].keys[1]),
                  ![c].values = Append(@, h[s].values[1]),
                  ![s].keys = After(@, 1), ![s].values = After(@, 1),
                  ![p].keys[i] = h[s].keys[2]]

borrowInternalFromPrev(h, p, i) ==
    LET c == h[p].children[i]
        s == h[p].children[i - 1]
        n == Count(h[s])
    IN  [h EXCEPT ![c].keys = <<h[p].keys[i - 1]>> \o @,
                  ![c].children = <<h[s].children[n + 1]>> \o @,
                  ![s].keys = BPlusTree_First(@, n - 1), ![s].children = BPlusTree_First(@, n),
                  ![p].keys[i - 1] = h[s].keys[n]]

borrowInternalFromNext(h, p, i) ==
    LET c == h[p].children[i]
        s == h[p].children[i + 1]
    IN  [h EXCEPT ![c].keys = Append(@, h[p].keys[i]),
                  ![c].children = Append(@, h[s].children[1]),
                  ![s].keys = After(@, 1), ![s].children = After(@, 1),
                  ![p].keys[i] = h[s].keys[1]]

(* Children i and i + 1 become one; leaves drop the routing key between     *)
(* them and the right one leaves the list, inner nodes take the key in.     *)
mergeLeaf(h, p, i) ==
    LET l == h[p].children[i]
        r == h[h[p].children[i + 1]]
    IN  [SetPrev(h, r.next, l) EXCEPT
            ![l].keys = @ \o r.keys, ![l].values = @ \o r.values, ![l].next = r.next,
            ![p].keys = RemoveAt(@, i), ![p].children = RemoveAt(@, i + 1)]

mergeInternal(h, p, i) ==
    LET l == h[p].children[i]
        r == h[h[p].children[i + 1]]
    IN  [h EXCEPT ![l].keys = Append(@, h[p].keys[i]) \o r.keys,
                  ![l].children = @ \o r.children,
                  ![p].keys = RemoveAt(@, i), ![p].children = RemoveAt(@, i + 1)]

(* Child i, one key short of being safe to descend into, is filled up. *)
Filled(h, p, i) ==
    LET n == h[p]
        ChildCount(j) == Count(h[n.children[j]])
        leaf == Leaf(h[n.children[i]])
        last == i > Count(n)
    IN  IF i > 1 /\ ChildCount(i - 1) >= Order
        THEN IF leaf THEN borrowLeafFromPrev(h, p, i) ELSE borrowInternalFromPrev(h, p, i)
        ELSE IF ~ last /\ ChildCount(i + 1) >= Order
        THEN IF leaf THEN borrowLeafFromNext(h, p, i) ELSE borrowInternalFromNext(h, p, i)
        ELSE LET j == IF last THEN i - 1 ELSE i
             IN  IF leaf THEN mergeLeaf(h, p, j) ELSE mergeInternal(h, p, j)

RECURSIVE removeRecursive(_, _, _)
removeRecursive(h, x, k) ==
    LET n == h[x]
        i == IF Leaf(n) THEN findKey(n, k) ELSE ChildFor(n, k)
    IN  IF Leaf(n)
        THEN IF Holds(n, i, k)
             THEN [h EXCEPT ![x].keys = RemoveAt(@, i), ![x].values = RemoveAt(@, i)]
             ELSE h
        ELSE LET g == IF Count(h[n.children[i]]) = Order - 1 THEN Filled(h, x, i) ELSE h
                 j == IF i > Count(g[x]) + 1 THEN Count(g[x]) + 1 ELSE i
             IN  removeRecursive(g, g[x].children[j], k)

cleared ==
    /\ root' = Null /\ head' = Null /\ nodes' = <<>>

BPlusTree_remove(k) ==
    LET h == removeRecursive(nodes, root, k)
    IN /\ root # Null
       /\ IF h[root].keys # <<>> THEN Becomes(h, root, head)
          ELSE IF Leaf(h[root]) THEN cleared
          ELSE Becomes(h, h[root].children[1], head)
       /\ size' = size + Cardinality(LeafKeys(h, root)) - Cardinality(LeafKeys(nodes, root))
       /\ map' = [map EXCEPT ![k] = Null]

BPlusTree_clear ==
    /\ cleared
    /\ size' = 0
    /\ map' = [k \in MapKeys |-> Null]

BPlusTree_Init ==
    /\ root = Null /\ head = Null /\ nodes = <<>>
    /\ size = 0
    /\ map = [k \in MapKeys |-> Null]

BPlusTree_Next ==
    \/ \E k \in MapKeys : (\E v \in Values[k] : BPlusTree_insert(k, v)) \/ BPlusTree_remove(k)
    \/ BPlusTree_clear

-----------------------------------------------------------------------------
(* inorderLeaves from position i of leaf x, up to but without key end. *)
RECURSIVE Scan(_, _, _)
Scan(x, i, end) ==
    IF x = Null THEN <<>>
    ELSE LET n == nodes[x]
         IN  IF i > Count(n) THEN Scan(n.next, 1, end)
             ELSE IF n.keys[i] >= end THEN <<>>
             ELSE <<<<n.keys[i], n.values[i]>>>> \o Scan(x, i + 1, end)

rangeScan(begin, end) ==
    IF root = Null THEN <<>>
    ELSE LET x == findLeaf(nodes, root, begin)
         IN  Scan(x, findKey(nodes[x], begin), end)

Present == {k \in MapKeys : map[k] # Null}

(* The entries of the keys in [b, e), in order. *)
EntriesIn(b, e) ==
    [i \in 1 .. Cardinality({k \in Present : b <= k /\ k < e}) |->
        LET k == CHOOSE k \in Present : b <= k /\
                     Cardinality({j \in Present : b <= j /\ j < k}) = i - 1
        IN  <<k, map[k]>>]

(* find and rangeScan, the links between the leaves included, answer from   *)
(* what was inserted and not removed since; size_ counts it.                *)
ReadsAsAMap ==
    /\ \A k \in MapKeys : find(k) = map[k]
    /\ \A b \in MapKeys, e \in MapKeys \cup {1 + Cardinality(MapKeys)} :
           b < e => rangeScan(b, e) = EntriesIn(b, e)
    /\ size = Cardinality(Present)

RECURSIVE BPlusTree_Depths(_)
BPlusTree_Depths(x) ==
    IF Leaf(nodes[x]) THEN {1}
    ELSE {d + 1 : d \in UNION {BPlusTree_Depths(c) : c \in ToSet(nodes[x].children)}}

(* verifyNode: number of keys in every node, one child more than keys, the  *)
(* leaves on one level and linked both ways, the list starting at head_.    *)
BPlusTree_IsBalanced ==
    root # Null =>
        /\ Cardinality(BPlusTree_Depths(root)) = 1
        /\ \A x \in DOMAIN nodes :
             /\ Count(nodes[x]) \in (IF x = root THEN 1 ELSE Order - 1) .. 2 * Order - 1
             /\ ~ Leaf(nodes[x]) => Len(nodes[x].children) = Count(nodes[x]) + 1
             /\ nodes[x].next # Null => nodes[nodes[x].next].prev = x
             /\ nodes[x].prev # Null => nodes[nodes[x].prev].next = x
        /\ head = findLeaf(nodes, root, 0)

-----------------------------------------------------------------------------
(* tree::lsm::LSMTree and tree::lsm::SSTable: writes go to a MemTable that *)
(* is flushed to a new SSTable of level 0 when it is full; compaction      *)
(* merges a level that is too large into the next one.  Every public       *)
(* method holds the mutex throughout, so a call is one step, and within it *)
(* the sealed MemTable is always flushed: no call ends with one.           *)
(*                                                                         *)
(* A table is its id and its entries, a function on its keys; its Bloom    *)
(* filter, which has no false negatives, changes no answer.  Only the      *)
(* order of the ids matters, so that after a call they are their ranks.    *)
(* approximateSize_, which nothing decides on, is left out.                *)

LSMTree_vars == <<options, memtable, levels, map>>

Levels == 0 .. max_levels
NoEntries == [k \in Keys |-> NoEntry]

KeysOf(table) == DOMAIN table.entries
minKey(table) == Min(KeysOf(table))
maxKey(table) == Max(KeysOf(table))
InMemory(m) == {k \in Keys : m[k] # NoEntry}

Tables(lv) == UNION {ToSet(lv[l]) : l \in Levels}

(* The next id: above those of all tables. *)
nextSSTableId(lv) == 1 + Max({0} \cup {t.id : t \in Tables(lv)})

Ranked(lv) ==
    LET ids == {t.id : t \in Tables(lv)}
        Rank(t) == [t EXCEPT !.id = Cardinality({i \in ids : i <= t.id})]
    IN  [l \in Levels |-> [i \in DOMAIN lv[l] |-> Rank(lv[l][i])]]

-----------------------------------------------------------------------------
RECURSIVE Power(_, _)
Power(b, n) == IF n = 0 THEN 1 ELSE b * Power(b, n - 1)

shouldCompactLevel(lv, l) ==
    IF l = 0 THEN Len(lv[0]) >= l0_compaction_threshold
    ELSE FoldLeft(LAMBDA n, t : n + Cardinality(KeysOf(t)), 0, lv[l])
             >= options.memtable_size * Power(options.fan_out, l)

NewestEntry_oldest(inputs, k) ==
    LET having == {t \in inputs : k \in KeysOf(t)}
    IN  (CHOOSE t \in having : \A u \in having : t.id <= u.id).entries[k]
(* advanceMinKey: of the entries of a key, the one of the newest table. *)
NewestEntry(inputs, k) ==
    LET having == {t \in inputs : k \in KeysOf(t)}
    IN  (CHOOSE t \in having : \A u \in having : t.id >= u.id).entries[k]

(* When the loop looks for a value that a tombstone deletes, all iterators *)
(* have moved past the key: it finds none and the tombstone is kept.       *)
Dropped_withValue(inputs, k) ==
    /\ NewestEntry(inputs, k) = Tombstone
    /\ \E t \in inputs : k \in KeysOf(t) /\ t.entries[k] # Tombstone
Dropped(inputs, k) == FALSE

(* The merged entries in tables of twice memtable_size, ids from next on. *)
mergeTables(inputs, next) ==
    LET merged == {k \in UNION {KeysOf(t) : t \in inputs} : ~ Dropped(inputs, k)}
        order == SetToSortSeq(merged, <)
        batch == 2 * options.memtable_size
        Part(i) == {order[j] : j \in {j \in DOMAIN order : (j - 1) \div batch = i - 1}}
    IN  [i \in 1 .. (Len(order) + batch - 1) \div batch |->
            [id |-> next + i - 1, entries |-> [k \in Part(i) |-> NewestEntry(inputs, k)]]]

(* All of level l, and the tables of the next level whose key ranges meet  *)
(* its key range, are merged into the next level.                          *)
compactLevel(lv, l) ==
    LET source == ToSet(lv[l])
        globalMin == Min({minKey(t) : t \in source})
        globalMax == Max({maxKey(t) : t \in source})
        Apart(t) == maxKey(t) < globalMin \/ globalMax < minKey(t)
        overlapping == {t \in ToSet(lv[l + 1]) : ~ Apart(t)}
        output == mergeTables(source \cup overlapping, nextSSTableId(lv))
        MinLess(t, u) == minKey(t) < minKey(u)
    IN  [lv EXCEPT ![l] = <<>>,
                   ![l + 1] = SortSeq(SelectSeq(@, Apart) \o output, MinLess)]

(* One round: the first level that is too large. *)
doCompact(lv) ==
    LET due == {l \in Levels \ {max_levels} : shouldCompactLevel(lv, l)}
    IN  IF due = {} THEN lv ELSE compactLevel(lv, Min(due))

(* sealMemTable and doFlush: the entries, tombstones too, become a table. *)
doFlush(m, lv) ==
    IF InMemory(m) = {} THEN lv
    ELSE [lv EXCEPT ![0] = Append(@, [id |-> nextSSTableId(lv),
                                      entries |-> [k \in InMemory(m) |-> m[k]]])]

(* What put and remove do when m has become the MemTable. *)
maybeSealAndFlush(m) ==
    IF Cardinality(InMemory(m)) < options.memtable_size
    THEN memtable' = m /\ UNCHANGED levels
    ELSE /\ memtable' = NoEntries
         /\ levels' = Ranked(doCompact(doFlush(m, levels)))

put(k, v) ==
    /\ maybeSealAndFlush([memtable EXCEPT ![k] = v])
    /\ map' = [map EXCEPT ![k] = v]

remove(k) ==
    /\ maybeSealAndFlush([memtable EXCEPT ![k] = Tombstone])
    /\ map' = [map EXCEPT ![k] = Tombstone]

flush ==
    /\ memtable' = NoEntries
    /\ levels' = Ranked(doCompact(doFlush(memtable, levels)))
    /\ UNCHANGED map

compact ==
    /\ levels' = Ranked(doCompact(levels))
    /\ UNCHANGED <<memtable, map>>

clear ==
    /\ memtable' = NoEntries
    /\ levels' = [l \in Levels |-> <<>>]
    /\ map' = [k \in Keys |-> Tombstone]

LSMTree_Init ==
    /\ options \in Options
    /\ memtable = NoEntries
    /\ levels = [l \in Levels |-> <<>>]
    /\ map = [k \in Keys |-> Tombstone]

LSMTree_Next ==
    /\ \/ \E k \in Keys : (\E v \in Values[k] : put(k, v)) \/ remove(k)
       \/ flush \/ compact \/ clear
    /\ UNCHANGED options

-----------------------------------------------------------------------------
EntryOf(table, k) == IF k \in KeysOf(table) THEN table.entries[k] ELSE NoEntry

(* Level 0: newest table first.  Deeper: the last table that starts at or  *)
(* before the key.                                                         *)
searchLevel(k, l) ==
    IF l = 0
    THEN LET having == {t \in ToSet(levels[0]) : k \in KeysOf(t)}
         IN  IF having = {} THEN NoEntry ELSE NewestEntry(having, k)
    ELSE LET starts == {i \in DOMAIN levels[l] : minKey(levels[l][i]) <= k}
         IN  IF starts = {} THEN NoEntry ELSE EntryOf(levels[l][Max(starts)], k)

RECURSIVE SearchFrom(_, _)
SearchFrom(k, l) ==
    IF l > max_levels THEN Tombstone
    ELSE IF searchLevel(k, l) # NoEntry THEN searchLevel(k, l)
    ELSE SearchFrom(k, l + 1)

(* The value, or Tombstone for nullopt. *)
get(k) == IF memtable[k] # NoEntry THEN memtable[k] ELSE SearchFrom(k, 0)

(* get answers the last put, and nothing after the last remove: neither a   *)
(* flush nor a compaction loses an entry or brings an older one back.       *)
GetsTheLatest == \A k \in Keys : get(k) = map[k]

(* "For deeper levels the SSTables are non-overlapping", and sorted, which  *)
(* the binary search of searchLevel needs.                                  *)
LevelsAreSorted ==
    \A l \in Levels \ {0} : \A i \in 1 .. Len(levels[l]) - 1 :
        maxKey(levels[l][i]) < minKey(levels[l][i + 1])
=============================================================================
