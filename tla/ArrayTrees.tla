--------------------------------- MODULE ArrayTrees -------------------------
(***************************************************************************)
(* Trees computed from an array, and one that stands for an array.        *)
(***************************************************************************)
EXTENDS Integers, Sequences, SequencesExt, FiniteSetsExt

CONSTANTS
    Values,
    MaxLength,
    Blocks,
    MaxLeaves,
    Items,          \* the elements of a persistent vector
    BRANCH_BITS,
    MaxSize,        \* bound on the elements
    Null

VARIABLES
    data,      \* the array, from 1
    fenwick,   \* tree_ of the Fenwick tree, from 1
    segment,   \* tree_ of the segment tree, by node
    levels,
    vector,    \* root_, tail_, size_, shift_ of the persistent vector
    contents   \* history: the blocks added, or the elements of the vector

-----------------------------------------------------------------------------
(* tree::range: FenwickTree, SegmentTree and SparseTable over one array.   *)
(* The Fenwick tree adds, the segment tree joins sequences, so that the    *)
(* order in which it merges shows, and the sparse table takes minima.      *)

RangeTrees_vars == <<data, fenwick, segment>>

n == Len(data)

(* The lowest bit that is set. *)
lowbit(x) == Max({p \in {2 ^ k : k \in 0 .. 4} : x % p = 0})

RECURSIVE addTo(_, _, _)
addTo(tree, i, delta) ==
    IF i > Len(tree) THEN tree
    ELSE addTo([tree EXCEPT ![i] = @ + delta], i + lowbit(i), delta)

RECURSIVE prefixSum(_, _)
prefixSum(tree, i) == IF i = 0 THEN 0 ELSE tree[i] + prefixSum(tree, i - lowbit(i))

sum(l, r) == prefixSum(fenwick, r) - prefixSum(fenwick, l)

-----------------------------------------------------------------------------
merge(a, b) == a \o b
Mid(l, r) == l + (r - l) \div 2

(* The nodes below a node, built from the half-open range of the array. *)
RECURSIVE buildTree(_, _, _, _)
buildTree(array, node, l, r) ==
    IF l + 1 = r THEN node :> <<array[l + 1]>>
    ELSE LET below == buildTree(array, node * 2, l, Mid(l, r))
                      @@ buildTree(array, node * 2 + 1, Mid(l, r), r)
         IN node :> merge(below[node * 2], below[node * 2 + 1]) @@ below

RECURSIVE updateTree(_, _, _, _, _, _)
updateTree(tree, node, l, r, pos, value) ==
    IF l + 1 = r THEN [tree EXCEPT ![node] = <<value>>]
    ELSE LET t == IF pos < Mid(l, r)
                  THEN updateTree(tree, node * 2, l, Mid(l, r), pos, value)
                  ELSE updateTree(tree, node * 2 + 1, Mid(l, r), r, pos, value)
         IN [t EXCEPT ![node] = merge(t[node * 2], t[node * 2 + 1])]

(* No element is the empty sequence. *)
RECURSIVE queryTree(_, _, _, _, _)
queryTree(node, l, r, ql, qr) ==
    IF ql >= r \/ qr <= l THEN <<>>
    ELSE IF ql <= l /\ r <= qr THEN segment[node]
    ELSE merge(queryTree(node * 2, l, Mid(l, r), ql, qr),
               queryTree(node * 2 + 1, Mid(l, r), r, ql, qr))

-----------------------------------------------------------------------------
Lesser(a, b) == IF a < b THEN a ELSE b

(* bit_width(len) - 1 *)
Log(len) == Max({k \in 0 .. 4 : 2 ^ k <= len})

RECURSIVE Row(_)
Row(k) ==
    IF k = 0 THEN data
    ELSE LET prev == Row(k - 1)
         IN [i \in 1 .. n - 2 ^ k + 1 |-> Lesser(prev[i], prev[i + 2 ^ (k - 1)])]

LowHalf(l, r) == Row(Log(r - l))[l + 1]
sparseQuery(l, r) ==
    IF r - l = 1 THEN data[l + 1]
    ELSE LET row == Row(Log(r - l)) IN Lesser(row[l + 1], row[r - 2 ^ Log(r - l) + 1])

-----------------------------------------------------------------------------
RangeTrees_Init ==
    /\ \E len \in 1 .. MaxLength : data \in [1 .. len -> Values]
    /\ fenwick = FoldLeft(LAMBDA t, i : addTo(t, i, data[i]), [i \in 1 .. n |-> 0],
                          [i \in 1 .. n |-> i])
    /\ segment = buildTree(data, 1, 0, n)

Assign(pos, value) ==
    /\ data' = [data EXCEPT ![pos + 1] = value]
    /\ fenwick' = addTo(fenwick, pos + 1, value - data[pos + 1])
    /\ segment' = updateTree(segment, 1, 0, n, pos, value)

RangeTrees_Next == \E pos \in 0 .. n - 1, value \in Values : Assign(pos, value)

-----------------------------------------------------------------------------
(* The three structures answer every range of the array as the array does, *)
(* at lengths that are no powers of two as well, after any updates.        *)
RangesAnswer ==
    \A l \in 0 .. n - 1 : \A r \in l + 1 .. n :
        LET part == SubSeq(data, l + 1, r)
        IN /\ sum(l, r) = FoldLeft(LAMBDA a, b : a + b, 0, part)
           /\ queryTree(1, 0, n, l, r) = part
           /\ sparseQuery(l, r) = Min(ToSet(part))

-----------------------------------------------------------------------------
(* tree::crypto::MerkleTree: the levels of a hash tree, the leaves first.  *)
(* A digest stands for what was hashed: a block, or two digests.           *)

MerkleTree_vars == <<levels, contents>>

Sha256(block) == <<block>>
Sha256Of(a, b) == <<a, b>>

(* The next level: pairs, and a last one without a partner with itself. *)
Parents(level) ==
    [i \in 1 .. (Len(level) + 1) \div 2 |->
        Sha256Of(level[2 * i - 1], IF 2 * i <= Len(level) THEN level[2 * i] ELSE level[2 * i - 1])]

RECURSIVE rebuildInternalNodes(_)
rebuildInternalNodes(built) ==
    IF Len(Last(built)) <= 1 THEN built
    ELSE rebuildInternalNodes(Append(built, Parents(Last(built))))

rootHash == IF levels = <<>> THEN <<>> ELSE Last(levels)[1]

(* The siblings from the leaf up, and whether each is on the left. *)
LeftAlways(leafIndex) ==
    LET At(level) == leafIndex \div 2 ^ (level - 1)
    IN [level \in 1 .. Len(levels) - 1 |->
        [isLeft |-> FALSE, sibling |-> levels[level][IF At(level) + 2 <= Len(levels[level]) THEN At(level) + 2 ELSE At(level) + 1]]]
getProof(leafIndex) ==
    LET Position(level) == leafIndex \div 2 ^ (level - 1)
        Sibling(level, p) == IF p % 2 = 1 THEN p - 1
                             ELSE IF p + 1 < Len(levels[level]) THEN p + 1
                             ELSE p
    IN [level \in 1 .. Len(levels) - 1 |->
          [isLeft |-> Position(level) % 2 = 1,
           sibling |-> levels[level][Sibling(level, Position(level)) + 1]]]

verifyProof(proof, leafHash, root) ==
    root = FoldLeft(LAMBDA current, step : IF step.isLeft THEN Sha256Of(step.sibling, current)
                                           ELSE Sha256Of(current, step.sibling),
                    leafHash, proof)

-----------------------------------------------------------------------------
MerkleTree_Init == levels = <<>> /\ contents = <<>>

addLeaf(block) ==
    LET leaves == IF levels = <<>> THEN <<>> ELSE levels[1]
    IN /\ Len(leaves) < MaxLeaves
       /\ levels' = rebuildInternalNodes(<<Append(leaves, Sha256(block))>>)
       /\ contents' = Append(contents, block)

clear == levels' = <<>> /\ contents' = <<>>

MerkleTree_Next == clear \/ \E block \in Blocks : addLeaf(block)

-----------------------------------------------------------------------------
(* The blocks with those that stand for themselves twice, where a level    *)
(* has a last node without a partner: as many as a power of two.           *)
Padded(blocks) ==
    FoldLeft(LAMBDA s, width :
                IF Len(s) > width /\ (Len(s) \div width) % 2 = 1
                THEN s \o SubSeq(s, Len(s) - width + 1, Len(s)) ELSE s,
             blocks, <<1, 2, 4, 8>>)

Root(blocks) ==
    Last(rebuildInternalNodes(<<[k \in DOMAIN blocks |-> Sha256(blocks[k])]>>))[1]

(* The proof of every leaf verifies against the root, at sizes that are no *)
(* powers of two as well, and verifies no other block at its place.  Of    *)
(* the trees of any other blocks, as many or not, those and only those     *)
(* have the same root whose blocks are the same once the last nodes of odd *)
(* levels are doubled: a, b, c and a, b, c, c share a root and its proofs. *)
ProofsVerify ==
    /\ \A i \in 1 .. Len(contents) : \A block \in Blocks :
          verifyProof(getProof(i - 1), Sha256(block), rootHash) <=> block = contents[i]
    /\ contents # <<>> => \A other \in BoundedSeq(Blocks, MaxLeaves) \ {<<>>} :
          Root(other) = rootHash <=> Padded(other) = Padded(contents)

-----------------------------------------------------------------------------
(* PersistentVector: a tree of immutable nodes with up to BRANCH_SIZE      *)
(* children, the last elements in a separate tail.  Every operation makes  *)
(* a new version out of an old one, so versions are values here, and an    *)
(* action replaces the version in hand by the one the operation returns.   *)

PersistentVector_vars == <<vector, contents>>

BRANCH_SIZE == 2 ^ BRANCH_BITS

Leaf(values) == [leaf |-> TRUE, items |-> values]
Internal(children) == [leaf |-> FALSE, items |-> children]
Empty == [root |-> Null, tail |-> <<>>, size |-> 0, shift |-> 0]

(* (index >> level) & BRANCH_MASK, as a place of a sequence. *)
Digit(index, level) == ((index \div 2 ^ level) % BRANCH_SIZE) + 1

tailOffset(sz) == IF sz = 0 THEN 0 ELSE ((sz - 1) \div BRANCH_SIZE) * BRANCH_SIZE

RECURSIVE doGet(_, _, _)
doGet(node, level, index) ==
    IF level = 0 THEN node.items[Digit(index, 0)]
    ELSE doGet(node.items[Digit(index, level)], level - BRANCH_BITS, index)

get(v, index) ==
    IF index >= tailOffset(v.size) THEN v.tail[Digit(index, 0)]
    ELSE doGet(v.root, v.shift, index)

-----------------------------------------------------------------------------
(* The path counts one child, which is the leaf's only on the leftmost path. *)
RECURSIVE newPath(_, _, _)
newPath(leaf, shift, idx) ==
    IF shift = 0 THEN leaf
    ELSE Internal(<<IF Digit(idx, shift) = 1 THEN newPath(leaf, shift - BRANCH_BITS, idx)
                    ELSE Null>>)

(* The children with x at place i; storage that is not in use reads as Null. *)
Placed(items, i, x) ==
    [j \in 1 .. (IF i > Len(items) THEN i ELSE Len(items)) |->
        IF j = i THEN x ELSE IF j <= Len(items) THEN items[j] ELSE Null]

RECURSIVE pushLeaf(_, _, _, _)
pushLeaf(root, shift, leaf, idx) ==
    LET i == Digit(idx, shift)
        child == IF shift = BRANCH_BITS THEN leaf
                 ELSE IF i <= Len(root.items) /\ root.items[i] # Null
                 THEN pushLeaf(root.items[i], shift - BRANCH_BITS, leaf, idx)
                 ELSE newPath(leaf, shift - BRANCH_BITS, idx)
    IN Internal(Placed(root.items, i, child))

(* The loop that puts roots above the root until the leaf's index fits. *)
NotElevated(root, shift, idx) == [root |-> root, shift |-> shift]
RECURSIVE Elevated(_, _, _)
Elevated(root, shift, idx) ==
    IF idx \div 2 ^ shift < BRANCH_SIZE THEN [root |-> root, shift |-> shift]
    ELSE Elevated(Internal(<<root>>), shift + BRANCH_BITS, idx)

pushBackImpl(v, value) ==
    IF Len(v.tail) < BRANCH_SIZE
    THEN [v EXCEPT !.tail = Append(@, value), !.size = @ + 1]
    ELSE LET idx == tailOffset(v.size)
             up == Elevated(v.root, v.shift, idx)
         IN [root |-> IF v.root = Null THEN newPath(Leaf(v.tail), BRANCH_BITS, idx)
                      ELSE pushLeaf(up.root, up.shift, Leaf(v.tail), idx),
             shift |-> IF v.root = Null THEN BRANCH_BITS ELSE up.shift,
             tail |-> <<value>>, size |-> v.size + 1]

RECURSIVE doUpdate(_, _, _, _)
doUpdate(node, level, index, value) ==
    [node EXCEPT !.items[Digit(index, level)] =
        IF node.leaf THEN value ELSE doUpdate(@, level - BRANCH_BITS, index, value)]

update(v, index, value) ==
    IF index >= tailOffset(v.size) THEN [v EXCEPT !.tail[Digit(index, 0)] = value]
    ELSE [v EXCEPT !.root = doUpdate(@, v.shift, index, value)]

(* What is left of the node, or Null, and its last leaf. *)
RECURSIVE doPopBack(_)
doPopBack(node) ==
    IF node.leaf THEN [rest |-> Null, leaf |-> node]
    ELSE LET size == Len(node.items)
             p == doPopBack(node.items[size])
         IN [leaf |-> p.leaf,
             rest |-> IF p.rest # Null THEN Internal([node.items EXCEPT ![size] = p.rest])
                      ELSE IF size = 1 THEN Null
                      ELSE Internal(Front(node.items))]

(* The loop that takes roots with a single child away. *)
RECURSIVE Lowered(_, _)
Lowered(root, shift) ==
    IF root = Null THEN [root |-> Null, shift |-> 0]
    ELSE IF ~root.leaf /\ Len(root.items) = 1 /\ shift > BRANCH_BITS
    THEN Lowered(root.items[1], shift - BRANCH_BITS)
    ELSE [root |-> root, shift |-> shift]

pop_back(v) ==
    IF Len(v.tail) > 1 THEN [v EXCEPT !.tail = Front(@), !.size = @ - 1]
    ELSE IF v.size = 1 THEN Empty
    ELSE LET p == doPopBack(v.root)
             down == Lowered(p.rest, v.shift)
         IN [root |-> down.root, shift |-> down.shift,
             tail |-> p.leaf.items, size |-> v.size - 1]

PushAll(v, values) == FoldLeft(pushBackImpl, v, values)

(* The elements from first up to last, read by the iterators and by get. *)
Elements(v, first, last) == [i \in 1 .. last - first |-> get(v, first + i - 1)]

-----------------------------------------------------------------------------
PersistentVector_Init == vector = Empty /\ contents = <<>>

push_back(value) ==
    /\ vector.size < MaxSize
    /\ vector' = pushBackImpl(vector, value)
    /\ contents' = Append(contents, value)

Update(index, value) ==
    /\ index < vector.size
    /\ vector' = update(vector, index, value)
    /\ contents' = [contents EXCEPT ![index + 1] = value]

PopBack ==
    /\ vector.size > 0
    /\ vector' = pop_back(vector)
    /\ contents' = Front(contents)

(* sub_vector builds a new vector, element by element. *)
sub_vector(first, last) ==
    /\ first <= last /\ last <= vector.size
    /\ vector' = PushAll(Empty, Elements(vector, first, last))
    /\ contents' = SubSeq(contents, first + 1, last)

(* concat with a part of itself, element by element. *)
concat(first, last) ==
    /\ first < last /\ last <= vector.size /\ vector.size + last - first <= MaxSize
    /\ vector' = PushAll(vector, Elements(vector, first, last))
    /\ contents' = contents \o SubSeq(contents, first + 1, last)

PersistentVector_Next ==
    \/ \E x \in Items : push_back(x) \/ \E i \in 0 .. MaxSize - 1 : Update(i, x)
    \/ PopBack
    \/ \E i, j \in 0 .. MaxSize : sub_vector(i, j) \/ concat(i, j)

-----------------------------------------------------------------------------
(* Every index reads the element that was put there, wherever tree and tail *)
(* begin, after the tree has grown and shrunk; what the next update or push *)
(* would return reads the same everywhere else.                             *)
ReadsAsASequence ==
    /\ vector.size = Len(contents)
    /\ Elements(vector, 0, vector.size) = contents
    /\ \A i \in 0 .. vector.size - 1, x \in Items :
          Elements(update(vector, i, x), 0, vector.size) = [contents EXCEPT ![i + 1] = x]
=============================================================================
