-------------------------------- MODULE SpatialTrees ------------------------
(***************************************************************************)
(* The indexes of intervals, points and boxes.                             *)
(***************************************************************************)
EXTENDS Integers, FiniteSets, Bags, Sequences, SequencesExt, FiniteSetsExt, BagsExt

CONSTANTS
    Entries,   \* records of low, high and data
    Instants,  \* the ends of the queries
    Null,
    Points,    \* sequences of K coordinates
    K,
    AnyPoint,  \* FALSE: no stored point is inserted where insert may miss it
    MaxSize,   \* bound on the points of the tree
    Places,    \* records of x and y
    half,      \* the half side of the whole square, whose center is 0, 0
    Items,     \* payloads of boxes
    Removed,   \* the payloads that are removed again
    BoxOf,     \* the box of a payload: the least and greatest coordinates
    Dims,
    MaxEntries

VARIABLES
    root,
    size,
    contents,
    quadtree_size,
    dataCount

-----------------------------------------------------------------------------
(* spatial::IntervalTree: an AVL tree of half-open intervals by (low,      *)
(* high), each with a payload.  A node also keeps the greatest upper bound *)
(* of its subtree, by which the queries leave subtrees out.                *)

IntervalTree_vars == <<root, size, contents>>

IntervalTree_Node(entry) ==
    [entry |-> entry, left |-> Null, right |-> Null, max_high |-> entry.high, height |-> 1]

getHeight(node) == IF node = Null THEN 0 ELSE node.height
getBalance(node) == getHeight(node.left) - getHeight(node.right)

Greater(a, b) == IF a > b THEN a ELSE b
MaxHigh(node, least) == IF node = Null THEN least ELSE Greater(node.max_high, least)

KeepMaxHigh(node) ==
    [node EXCEPT !.height = 1 + Greater(getHeight(node.left), getHeight(node.right))]
updateStats(node) ==
    [node EXCEPT !.height = 1 + Greater(getHeight(node.left), getHeight(node.right)),
                 !.max_high = MaxHigh(node.left, MaxHigh(node.right, node.entry.high))]

rotateRight(node) ==
    updateStats([node.left EXCEPT
        !.right = updateStats([node EXCEPT !.left = node.left.right])])
rotateLeft(node) ==
    updateStats([node.right EXCEPT
        !.left = updateStats([node EXCEPT !.right = node.right.left])])

rebalance(node) ==
    IF getBalance(node) > 1
    THEN rotateRight(IF getBalance(node.left) < 0
                     THEN [node EXCEPT !.left = rotateLeft(@)] ELSE node)
    ELSE IF getBalance(node) < -1
    THEN rotateLeft(IF getBalance(node.right) > 0
                    THEN [node EXCEPT !.right = rotateRight(@)] ELSE node)
    ELSE node

Before(e, f) == e.low < f.low \/ (e.low = f.low /\ e.high < f.high)

(* The subtree with the entry, and how many nodes it has more. *)
RECURSIVE insertImpl(_, _)
insertImpl(node, entry) ==
    IF node = Null THEN [node |-> IntervalTree_Node(entry), more |-> 1]
    ELSE IF node.entry = entry THEN [node |-> node, more |-> 0]
    ELSE LET left == Before(entry, node.entry)
             sub == insertImpl(IF left THEN node.left ELSE node.right, entry)
         IN [more |-> sub.more,
             node |-> rebalance(updateStats(IF left THEN [node EXCEPT !.left = sub.node]
                                            ELSE [node EXCEPT !.right = sub.node]))]

RECURSIVE findMin(_)
findMin(node) == IF node.left = Null THEN node ELSE findMin(node.left)

RECURSIVE removeImpl(_, _)
removeImpl(node, entry) ==
    IF node = Null THEN [node |-> Null, more |-> 0]
    ELSE IF Before(entry, node.entry)
    THEN LET sub == removeImpl(node.left, entry)
         IN [more |-> sub.more,
             node |-> rebalance(updateStats([node EXCEPT !.left = sub.node]))]
    ELSE IF entry # node.entry
    THEN LET sub == removeImpl(node.right, entry)
         IN [more |-> sub.more,
             node |-> rebalance(updateStats([node EXCEPT !.right = sub.node]))]
    ELSE IF node.left = Null THEN [node |-> node.right, more |-> -1]
    ELSE IF node.right = Null THEN [node |-> node.left, more |-> -1]
    ELSE LET successor == findMin(node.right).entry
             sub == removeImpl(node.right, successor)
         IN [more |-> sub.more,
             node |-> rebalance(updateStats([node EXCEPT !.entry = successor,
                                                         !.right = sub.node]))]

overlaps(e, query) == ~(e.high <= query.low \/ query.high <= e.low)
IntervalTree_contains(e, point) == e.low <= point /\ point < e.high

(* The payloads of the answers, and how often each is given. *)
RECURSIVE queryOverlapImpl(_, _)
queryOverlapImpl(node, query) ==
    LET left == IF node.left # Null /\ node.left.max_high > query.low
                THEN queryOverlapImpl(node.left, query) ELSE EmptyBag
        right == IF node.right # Null THEN queryOverlapImpl(node.right, query) ELSE EmptyBag
        here == IF overlaps(node.entry, query) THEN SetToBag({node.entry.data}) ELSE EmptyBag
    IN here (+) left (+) right

RECURSIVE queryPointImpl(_, _)
queryPointImpl(node, point) ==
    LET left == IF node.left # Null /\ node.left.max_high > point
                THEN queryPointImpl(node.left, point) ELSE EmptyBag
        right == IF node.right # Null THEN queryPointImpl(node.right, point) ELSE EmptyBag
        here == IF IntervalTree_contains(node.entry, point) THEN SetToBag({node.entry.data}) ELSE EmptyBag
    IN here (+) left (+) right

queryOverlap(query) == IF root = Null THEN EmptyBag ELSE queryOverlapImpl(root, query)
queryPoint(point) == IF root = Null THEN EmptyBag ELSE queryPointImpl(root, point)

RECURSIVE verifyNode(_)
verifyNode(node) ==
    \/ node = Null
    \/ /\ getBalance(node) \in -1 .. 1
       /\ node.max_high = MaxHigh(node.left, MaxHigh(node.right, node.entry.high))
       /\ verifyNode(node.left) /\ verifyNode(node.right)

-----------------------------------------------------------------------------
IntervalTree_Init == root = Null /\ size = 0 /\ contents = {}

IntervalTree_insert(entry) ==
    LET t == insertImpl(root, entry)
    IN root' = t.node /\ size' = size + t.more /\ contents' = contents \cup {entry}

remove(entry) ==
    LET t == removeImpl(root, entry)
    IN root' = t.node /\ size' = size + t.more /\ contents' = contents \ {entry}

IntervalTree_clear == root' = Null /\ size' = 0 /\ contents' = {}

IntervalTree_Next == IntervalTree_clear \/ \E e \in Entries : IntervalTree_insert(e) \/ remove(e)

-----------------------------------------------------------------------------
Answer(found) ==
    [d \in {x.data : x \in found} |-> Cardinality({y \in found : y.data = d})]

(* A query that leaves subtrees out answers what a scan of all the entries *)
(* would, the tree passes its own check and counts its entries, after any  *)
(* order of insertions, removals and rotations.                            *)
QueriesAnswer ==
    /\ size = Cardinality(contents)
    /\ verifyNode(root)
    /\ \A p \in Instants : queryPoint(p) = Answer({e \in contents : IntervalTree_contains(e, p)})
    /\ \A p, q \in Instants : p <= q =>
          LET query == [low |-> p, high |-> q]
          IN queryOverlap(query) = Answer({e \in contents : overlaps(e, query)})

-----------------------------------------------------------------------------
(* spatial::KDTree: points split by one coordinate on every level.  build  *)
(* takes medians with std::nth_element, which may order the points in many *)
(* ways, so it has a set of possible results.  Distances are squared.      *)

KDTree_vars == <<root, size, contents>>

KDTree_Node(point) == [point |-> point, left |-> Null, right |-> Null]

axis(depth) == (depth % K) + 1

squaredDistance(a, b) ==
    FoldLeft(LAMBDA sum, d : sum + (a[d] - b[d]) * (a[d] - b[d]), 0, [d \in 1 .. K |-> d])

(* The ways nth_element can leave the bag: what is before the middle, the  *)
(* middle, and what is after.                                              *)
Medians(points, depth) ==
    LET mid == BagCardinality(points) \div 2
        Coord(p) == p[axis(depth)]
    IN {s \in (SubBag(points) \X BagToSet(points)) :
          /\ BagCardinality(s[1]) = mid
          /\ s[1] (+) SetToBag({s[2]}) \sqsubseteq points
          /\ \A p \in BagToSet(s[1]) : Coord(p) <= Coord(s[2])
          /\ \A p \in BagToSet(points (-) (s[1] (+) SetToBag({s[2]}))) : Coord(s[2]) <= Coord(p)}

RECURSIVE buildTree(_, _)
buildTree(points, depth) ==
    IF points = EmptyBag THEN {Null}
    ELSE UNION {{[point |-> s[2], left |-> l, right |-> r] :
                    l \in buildTree(s[1], depth + 1),
                    r \in buildTree(points (-) (s[1] (+) SetToBag({s[2]})), depth + 1)} :
                s \in Medians(points, depth)}

(* Null where the point is found on the way. *)
RECURSIVE KDTree_insertNode(_, _, _)
KDTree_insertNode(node, point, depth) ==
    IF node = Null THEN KDTree_Node(point)
    ELSE IF node.point = point THEN Null
    ELSE LET left == point[axis(depth)] < node.point[axis(depth)]
             sub == KDTree_insertNode(IF left THEN node.left ELSE node.right, point, depth + 1)
         IN IF sub = Null THEN Null
            ELSE IF left THEN [node EXCEPT !.left = sub]
            ELSE [node EXCEPT !.right = sub]

-----------------------------------------------------------------------------
(* The child on the query's side of the splitting plane, the other child,   *)
(* and the squared distance of the plane.                                   *)
Sides(node, query, depth) ==
    LET q == query[axis(depth)]
        n == node.point[axis(depth)]
    IN [near |-> IF q < n THEN node.left ELSE node.right,
        far |-> IF q < n THEN node.right ELSE node.left,
        plane |-> (n - q) * (n - q)]

RECURSIVE nearestSearch(_, _, _, _)
nearestSearch(node, query, depth, best) ==
    LET s == Sides(node, query, depth)
        b1 == IF s.near = Null THEN best ELSE nearestSearch(s.near, query, depth + 1, best)
        b2 == IF b1 = Null \/ squaredDistance(query, node.point) < squaredDistance(query, b1)
              THEN node.point ELSE b1
    IN IF s.far # Null /\ s.plane < squaredDistance(query, b2)
       THEN nearestSearch(s.far, query, depth + 1, b2) ELSE b2

(* The heap of the k least distances, ascending: the top is the last. *)
Push(heap, d) ==
    InsertAt(heap, 1 + Len(SelectSeq(heap, LAMBDA e : e <= d)), d)

RECURSIVE knnSearch(_, _, _, _, _)
knnSearch(node, query, depth, k, heap) ==
    LET s == Sides(node, query, depth)
        h1 == IF s.near = Null THEN heap ELSE knnSearch(s.near, query, depth + 1, k, heap)
        d == squaredDistance(query, node.point)
        h2 == IF Len(h1) < k THEN Push(h1, d)
              ELSE IF d < Last(h1) THEN Push(Front(h1), d)
              ELSE h1
    IN IF s.far # Null /\ (Len(h2) < k \/ s.plane < Last(h2))
       THEN knnSearch(s.far, query, depth + 1, k, h2) ELSE h2

RECURSIVE rangeSearchImpl(_, _, _, _)
rangeSearchImpl(node, query, radiusSq, depth) ==
    LET s == Sides(node, query, depth)
        here == IF squaredDistance(query, node.point) <= radiusSq
                THEN SetToBag({node.point}) ELSE EmptyBag
        near == IF s.near = Null THEN EmptyBag
                ELSE rangeSearchImpl(s.near, query, radiusSq, depth + 1)
        far == IF s.far # Null /\ s.plane <= radiusSq
               THEN rangeSearchImpl(s.far, query, radiusSq, depth + 1) ELSE EmptyBag
    IN here (+) near (+) far

nearestNeighbor(query) == IF root = Null THEN Null ELSE nearestSearch(root, query, 0, Null)
kNearestNeighbors(query, k) ==
    IF k = 0 \/ root = Null THEN <<>> ELSE knnSearch(root, query, 0, k, <<>>)
rangeSearch(query, radiusSq) ==
    IF root = Null THEN EmptyBag ELSE rangeSearchImpl(root, query, radiusSq, 0)

-----------------------------------------------------------------------------
KDTree_Init == root = Null /\ size = 0 /\ contents = EmptyBag

(* build replaces what the tree holds by points in any order. *)
build(points) ==
    /\ root' \in buildTree(points, 0)
    /\ size' = BagCardinality(points)
    /\ contents' = points

(* Everything that is left of a node has a lesser coordinate: so it is in  *)
(* a tree of inserted points, and not always in one that was built.        *)
RECURSIVE InTree(_)
InTree(node) ==
    IF node = Null THEN {} ELSE {node.point} \cup InTree(node.left) \cup InTree(node.right)
RECURSIVE LeftIsLess(_, _)
LeftIsLess(node, depth) ==
    IF node = Null THEN TRUE
    ELSE /\ \A p \in InTree(node.left) : p[axis(depth)] < node.point[axis(depth)]
         /\ LeftIsLess(node.left, depth + 1) /\ LeftIsLess(node.right, depth + 1)

(* "If the point already exists it will not be inserted again" (KDTree.hpp). *)
(* In a tree that was built it may be on the left of an equal coordinate,  *)
(* where insert does not look, and come in twice.                          *)
KDTree_insert(point) ==
    LET t == KDTree_insertNode(root, point, 0)
        stored == point \in BagToSet(contents)
    IN /\ size < MaxSize /\ t # Null
       /\ AnyPoint \/ ~stored \/ LeftIsLess(root, 0)
       /\ root' = t
       /\ size' = size + 1
       /\ contents' = IF stored THEN contents ELSE BagAdd(contents, point)

KDTree_clear == root' = Null /\ size' = 0 /\ contents' = EmptyBag

KDTree_Next ==
    \/ \E p \in Points : KDTree_insert(p)
    \/ size = 0 /\ \E P \in SUBSET Points, p \in Points :
          build(SetToBag(P) (+) SetToBag(P \cap {p}))
    \/ KDTree_clear

-----------------------------------------------------------------------------
Distances(query) ==
    LET d == [p \in BagToSet(contents) |-> squaredDistance(query, p)]
        Copies(p) == [i \in 1 .. contents[p] |-> d[p]]
    IN SortSeq(FlattenSeq([i \in 1 .. Cardinality(DOMAIN d) |->
                    Copies(SetToSeq(DOMAIN d)[i])]), <)

(* The searches that leave out the far side of a plane find the nearest,   *)
(* the k nearest in order, and all points of a radius, however the medians *)
(* fell and wherever equal coordinates are.                                *)
SearchesAnswer ==
    /\ size = BagCardinality(contents)
    /\ \A q \in Points :
          LET all == Distances(q)
          IN /\ IF root = Null THEN nearestNeighbor(q) = Null
                ELSE /\ nearestNeighbor(q) \in BagToSet(contents)
                     /\ squaredDistance(q, nearestNeighbor(q)) = all[1]
             /\ \A k \in 0 .. MaxSize :
                   kNearestNeighbors(q, k) = SubSeq(all, 1, IF k < Len(all) THEN k ELSE Len(all))
             /\ \A r \in {squaredDistance(q, p) : p \in Points} \cup {3} :
                   LET near == {p \in BagToSet(contents) : squaredDistance(q, p) <= r}
                   IN rangeSearch(q, r) = [p \in near |-> contents[p]]

-----------------------------------------------------------------------------
(* tree::spatial::Quadtree: squares cut in four as soon as two points meet *)
(* in one.  Coordinates are integers and the half sides powers of two, so  *)
(* the halves are exact.  The same point twice would be cut for ever, and  *)
(* is left out.                                                            *)

Quadtree_vars == <<root, quadtree_size, contents>>

Abs(n) == IF n < 0 THEN -n ELSE n

Square(x, y, h) == [x |-> x, y |-> y, half |-> h, point |-> Null, child |-> Null]

Quadtree_contains(node, p) == Abs(p.x - node.x) <= node.half /\ Abs(p.y - node.y) <= node.half
intersects(node, c, h) ==
    Abs(node.x - c.x) <= node.half + h /\ Abs(node.y - c.y) <= node.half + h

makeChild(node, left, top) ==
    LET h == node.half \div 2
    IN Square(node.x + (IF left THEN -h ELSE h), node.y + (IF top THEN h ELSE -h), h)

(* The children are northwest, northeast, southwest and southeast by left and top. *)
subdivide(node) ==
    [node EXCEPT !.point = Null,
        !.child = [side \in BOOLEAN \X BOOLEAN |-> makeChild(node, side[1], side[2])]]

SideOf(node, p) == <<p.x <= node.x, p.y >= node.y>>

RECURSIVE Quadtree_insertNode(_, _)
Quadtree_insertNode(node, p) ==
    IF node.child # Null THEN [node EXCEPT !.child[SideOf(node, p)] = Quadtree_insertNode(@, p)]
    ELSE IF node.point = Null THEN [node EXCEPT !.point = p]
    ELSE Quadtree_insertNode(Quadtree_insertNode(subdivide(node), node.point), p)

RECURSIVE queryRangeImpl(_, _, _)
queryRangeImpl(node, c, h) ==
    IF ~intersects(node, c, h) THEN {}
    ELSE IF node.child # Null
    THEN UNION {queryRangeImpl(node.child[side], c, h) : side \in BOOLEAN \X BOOLEAN}
    ELSE {p \in {node.point} \ {Null} : Abs(p.x - c.x) <= h /\ Abs(p.y - c.y) <= h}

queryRange(c, h) == queryRangeImpl(root, c, h)

-----------------------------------------------------------------------------
Quadtree_Init == root = Square(0, 0, half) /\ quadtree_size = 0 /\ contents = {}

(* A point outside throws and changes nothing. *)
Quadtree_insert(p) ==
    /\ Quadtree_contains(root, p) /\ p \notin contents
    /\ root' = Quadtree_insertNode(root, p)
    /\ quadtree_size' = quadtree_size + 1
    /\ contents' = contents \cup {p}

Quadtree_clear == root' = Square(0, 0, half) /\ quadtree_size' = 0 /\ contents' = {}

Quadtree_Next == Quadtree_clear \/ \E p \in Places : Quadtree_insert(p)

-----------------------------------------------------------------------------
(* A range finds every point in it, those on the borders of squares too,   *)
(* though the point is filed under one of the squares that touch it.       *)
RangesAnswer ==
    /\ quadtree_size = Cardinality(contents)
    /\ \A c \in Places, h \in 0 .. half :
          queryRange(c, h) = {p \in contents : Abs(p.x - c.x) <= h /\ Abs(p.y - c.y) <= h}

-----------------------------------------------------------------------------
(* spatial::RTree: boxes with payloads, in nodes of at most MaxEntries     *)
(* entries.  A node keeps its own box, and its parent keeps another copy.  *)
(* insert enlarges the box of the leaf and no copy above it, and a node    *)
(* that splits hangs its half beside the root: what holds all the same is  *)
(* that reinsertion, splitting and condensing lose and invent nothing.     *)

RTree_vars == <<root, dataCount, contents>>

AtLeast1(n) == IF n > 1 THEN n ELSE 1
kMinEntries == AtLeast1((MaxEntries * 40) \div 100)
kReinsertCount == AtLeast1((MaxEntries * 30) \div 100)

Axes == [d \in 1 .. Dims |-> d]
Lesser(a, b) == IF a < b THEN a ELSE b

RTree_intersects(a, b) == \A d \in 1 .. Dims : a.min[d] <= b.max[d] /\ a.max[d] >= b.min[d]
area(a) == FoldLeft(LAMBDA r, d : r * (a.max[d] - a.min[d]), 1, Axes)
margin(a) == FoldLeft(LAMBDA r, d : r + (a.max[d] - a.min[d]), 0, Axes)
combined(a, b) ==
    [min |-> [d \in 1 .. Dims |-> Lesser(a.min[d], b.min[d])],
     max |-> [d \in 1 .. Dims |-> Greater(a.max[d], b.max[d])]]
enlargement(a, b) == area(combined(a, b)) - area(a)

(* The squared distance of two centers, times four. *)
CenterDistance(a, b) ==
    FoldLeft(LAMBDA r, d : LET diff == a.min[d] + a.max[d] - b.min[d] - b.max[d]
                           IN r + diff * diff, 0, Axes)

intersectionArea(a, b) ==
    FoldLeft(LAMBDA r, d : LET lo == Greater(a.min[d], b.min[d])
                               hi == Lesser(a.max[d], b.max[d])
                           IN IF lo >= hi THEN 0 ELSE r * (hi - lo), 1, Axes)

(* A node, and the entry of a child or of a payload. *)
Node(leaf, mbr, entries) == [leaf |-> leaf, mbr |-> mbr, entries |-> entries]
Entry(box, of) == [box |-> box, of |-> of]
computeMBR(entries) ==
    FoldLeft(LAMBDA box, e : combined(box, e.box), entries[1].box, entries)

(* The first of 1 .. n whose tuple is least, from left to right. *)
Best(n, Key(_)) ==
    LET Less(a, b) == \E k \in DOMAIN a : a[k] < b[k] /\ \A m \in 1 .. k - 1 : a[m] = b[m]
    IN CHOOSE i \in 1 .. n :
          \A j \in 1 .. n : ~Less(Key(j), Key(i)) /\ (j < i => Less(Key(i), Key(j)))

(* std::sort of a few elements keeps the order of equal ones. *)
Sorted(s, Key(_)) ==
    FoldLeft(LAMBDA t, x : InsertAt(t, 1 + Len(SelectSeq(t, LAMBDA y : Key(y) <= Key(x))), x),
             <<>>, s)

(* The places to go down to the leaf for the box. *)
RECURSIVE chooseSubtree(_, _, _)
chooseSubtree(node, box, level) ==
    LET n == Len(node.entries)
        Box(i) == node.entries[i].box
        Overlap(i, b) == MapThenSumSet(LAMBDA j : intersectionArea(b, Box(j)), (1 .. n) \ {i})
        Root(i) == <<Overlap(i, combined(Box(i), box)) - Overlap(i, Box(i)),
                     enlargement(Box(i), box), area(Box(i))>>
        Deeper(i) == <<enlargement(Box(i), box), area(Box(i))>>
        best == IF level = 0 THEN Best(n, Root) ELSE Best(n, Deeper)
    IN IF node.leaf THEN <<>>
       ELSE <<best>> \o chooseSubtree(node.entries[best].of, box, level + 1)

RECURSIVE At(_, _)
At(node, path) == IF path = <<>> THEN node ELSE At(node.entries[path[1]].of, Tail(path))

(* The node at the path replaced; the copies of its box above stay. *)
RECURSIVE With(_, _, _)
With(node, path, new) ==
    IF path = <<>> THEN new
    ELSE [node EXCEPT !.entries[path[1]].of = With(@, Tail(path), new)]

-----------------------------------------------------------------------------
GroupMBR(s, first, last) == computeMBR(SubSeq(s, first, last))

marginSum(s) ==
    MapThenSumSet(LAMBDA k : margin(GroupMBR(s, 1, k)) + margin(GroupMBR(s, k + 1, Len(s))),
                  kMinEntries .. Len(s) - kMinEntries)

chooseSplitAxis(entries) ==
    Best(Dims, LAMBDA d : <<Lesser(marginSum(Sorted(entries, LAMBDA e : e.box.min[d])),
                                   marginSum(Sorted(entries, LAMBDA e : e.box.max[d])))>>)

chooseSplitIndex(s) ==
    LET Key(i) == LET a == GroupMBR(s, 1, kMinEntries - 1 + i)
                      b == GroupMBR(s, kMinEntries + i, Len(s))
                  IN <<intersectionArea(a, b), area(a) + area(b)>>
    IN kMinEntries - 1 + Best(Len(s) - 2 * kMinEntries + 1, Key)

DropsTheMiddle(s, k) ==
    [kept |-> Node(TRUE, GroupMBR(s, 1, k), SubSeq(s, 1, k)),
     split |-> Node(TRUE, GroupMBR(s, k + 1, Len(s)), SubSeq(s, k + 2, Len(s)))]
Halves(s, k) ==
    [kept |-> Node(TRUE, GroupMBR(s, 1, k), SubSeq(s, 1, k)),
     split |-> Node(TRUE, GroupMBR(s, k + 1, Len(s)), SubSeq(s, k + 1, Len(s)))]

splitSorted(s) == Halves(s, chooseSplitIndex(s))
sortAxis(entries, d) == Sorted(entries, LAMBDA e : e.box.min[d])
splitLeafNode(leaf) == splitSorted(sortAxis(leaf.entries, chooseSplitAxis(leaf.entries)))

(* The root over the old one and the half of a leaf, wherever that was. *)
NewRoot(old, split) ==
    Node(FALSE, combined(old.mbr, split.mbr), <<Entry(old.mbr, old), Entry(split.mbr, split)>>)

Split(r, path, halves) == NewRoot(With(r, path, halves.kept), halves.split)

(* The entries of an overflowing leaf that are farthest from its center. *)
Farthest(leaf) ==
    SubSeq(Sorted(leaf.entries, LAMBDA e : -CenterDistance(e.box, leaf.mbr)), 1, kReinsertCount)
Remaining(near) == Node(TRUE, computeMBR(near), near)
Without(leaf, far) == Remaining(SelectSeq(leaf.entries, LAMBDA e : ~Contains(far, e)))
Enlarged(leaf, entry) ==
    Node(TRUE, combined(leaf.mbr, entry.box), Append(leaf.entries, entry))

(* The root after the entry is in: a leaf that overflows gives its         *)
(* farthest entries away first, unless it is the root or is being given    *)
(* one, and splits otherwise.                                              *)
RECURSIVE RTree_insertImpl(_, _, _)
Reinsert(r, path, leaf, far) ==
    FoldLeft(LAMBDA t, e : RTree_insertImpl(t, e, 1), With(r, path, Without(leaf, far)), far)
InsertInto(r, path, leaf, depth) ==
    IF Len(leaf.entries) <= MaxEntries THEN With(r, path, leaf)
    ELSE IF depth = 0 /\ path # <<>> THEN Reinsert(r, path, leaf, Farthest(leaf))
    ELSE Split(r, path, splitLeafNode(leaf))
InsertAlong(r, path, entry, depth) ==
    InsertInto(r, path, Enlarged(At(r, path), entry), depth)
RTree_insertImpl(r, entry, depth) ==
    IF r = Null THEN Node(TRUE, entry.box, <<entry>>)
    ELSE InsertAlong(r, chooseSubtree(r, entry.box, 0), entry, depth)

-----------------------------------------------------------------------------
(* What is left of a node, the entries of a leaf that has become too small *)
(* for its parent, and whether the entry was found.                        *)
Condensed(node, i, s) ==
    LET small == s.node.leaf /\ Len(s.node.entries) < kMinEntries
        rest == IF small THEN RemoveAt(node.entries, i)
                ELSE [node.entries EXCEPT ![i] =
                         Entry(IF s.node.leaf THEN s.node.mbr ELSE @.box, s.node)]
    IN [found |-> TRUE, orphans |-> IF small THEN s.node.entries ELSE s.orphans,
        node |-> Node(FALSE, IF rest = <<>> THEN node.mbr ELSE computeMBR(rest), rest)]

RECURSIVE removeRecursive(_, _)
RemoveBelow(node, entry, tried) ==
    IF tried = {} THEN [found |-> FALSE, orphans |-> <<>>, node |-> node]
    ELSE Condensed(node, Min(tried), removeRecursive(node.entries[Min(tried)].of, entry))
removeRecursive(node, entry) ==
    IF node.leaf
    THEN [found |-> Contains(node.entries, entry), orphans |-> <<>>,
          node |-> [node EXCEPT !.entries = RemoveFirst(@, entry)]]
    ELSE RemoveBelow(node, entry,
             {i \in DOMAIN node.entries :
                 /\ RTree_intersects(node.entries[i].box, entry.box)
                 /\ removeRecursive(node.entries[i].of, entry).found})

RECURSIVE searchNode(_, _)
searchNode(node, query) ==
    IF ~RTree_intersects(node.mbr, query) THEN <<>>
    ELSE LET hit == SelectSeq(node.entries, LAMBDA e : RTree_intersects(e.box, query))
         IN IF node.leaf THEN [i \in DOMAIN hit |-> hit[i].of]
            ELSE FlattenSeq([i \in DOMAIN hit |-> searchNode(hit[i].of, query)])

search(query) == IF root = Null THEN <<>> ELSE searchNode(root, query)

RECURSIVE Leaves(_)
Leaves(node) ==
    IF node.leaf THEN node.entries
    ELSE FlattenSeq([i \in DOMAIN node.entries |-> Leaves(node.entries[i].of)])

RECURSIVE HasEmptyNode(_)
HasEmptyNode(node) ==
    ~node.leaf /\ (node.entries = <<>> \/ \E i \in DOMAIN node.entries : HasEmptyNode(node.entries[i].of))

-----------------------------------------------------------------------------
RTree_Init == root = Null /\ dataCount = 0 /\ contents = {}

RTree_insert(item) ==
    /\ item \notin contents
    /\ root' = RTree_insertImpl(root, Entry(BoxOf[item], item), 0)
    /\ dataCount' = IF root = Null THEN 1 ELSE dataCount + 1
    /\ contents' = contents \cup {item}

Shortened(r) == IF ~r.leaf /\ Len(r.entries) = 1 THEN r.entries[1].of ELSE r

(* remove answers FALSE where it does not find the entry.  An inner node   *)
(* that has lost its last leaf stays, and the next descent into it reads a *)
(* child it does not have: such removals are left out.                     *)
RTree_remove(item) ==
    LET r == removeRecursive(root, Entry(BoxOf[item], item))
    IN /\ root # Null /\ r.found /\ ~HasEmptyNode(r.node)
       /\ root' = Shortened(FoldLeft(LAMBDA t, e : RTree_insertImpl(t, e, 0), r.node, r.orphans))
       /\ dataCount' = dataCount - 1
       /\ contents' = contents \ {item}

RTree_clear == root' = Null /\ dataCount' = 0 /\ contents' = {}

RTree_Next ==
    \/ RTree_clear
    \/ \E item \in Items : RTree_insert(item)
    \/ \E item \in Removed : RTree_remove(item)

-----------------------------------------------------------------------------
Stored == IF root = Null THEN <<>> ELSE Leaves(root)

(* The leaves hold each entry once, with its box, and no other, through    *)
(* reinsertions, splits and removals; what a search returns is stored and  *)
(* touches the query.                                                      *)
EntriesAreKept ==
    /\ dataCount = Cardinality(contents) /\ Len(Stored) = dataCount
    /\ {Entry(BoxOf[x], x) : x \in contents} = ToSet(Stored)
    /\ \A q \in Items : ToSet(search(BoxOf[q])) \subseteq
                           {x \in contents : RTree_intersects(BoxOf[x], BoxOf[q])}

(* RTree.hpp:196: search returns the matching payloads, here all of them.  *)
SearchFindsAll ==
    \A q \in Items : ToSet(search(BoxOf[q])) =
                        {x \in contents : RTree_intersects(BoxOf[x], BoxOf[q])}
=============================================================================
