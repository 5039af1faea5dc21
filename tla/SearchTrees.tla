-------------------------------- MODULE SearchTrees -------------------------
(***************************************************************************)
(* tree::core, tree::node and tree::balanced: the binary search trees, and *)
(* map::TreeMap and TreeSet, which are made of them.                       *)
(* The classes share the nodes; a tree uses the variables it needs.        *)
(***************************************************************************)
EXTENDS Integers, Sequences, FiniteSets, Bags

CONSTANTS
    Null,
    Keys,
    Key(_),            \* what operator<=> of the elements compares
    Mapped,            \* per key: the values of a TreeMap
    Default,           \* V{}
    SelfBalancing,  \* the tree is an AVLTree, not a BinarySearchTree
    Priorities,
    Values,            \* integers
    MaxSize            \* bound on the number of nodes

VARIABLES
    root,  \* root_
    set,   \* history: the keys it should hold
    size,  \* size_
    last,  \* history: the key of the last access, if it is in the tree
    map,   \* history: the values a TreeMap should hold by key
    copied,  \* history: the tree is a copy
    tree,  \* root_, and for each node child (by side), parent, color, data
    bag    \* history: the values it should hold

-----------------------------------------------------------------------------
(* tree::node::TreeNode and tree::core::TreeToolkit: binary trees.  A node *)
(* owns its subtrees through unique pointers, so a tree is a nested record *)
(* and Null an empty one.                                                  *)

Node(value) == [data |-> value, left |-> Null, right |-> Null, height |-> 1]

RECURSIVE findMin(_)
findMin(node) == IF node.left = Null THEN node ELSE findMin(node.left)

RECURSIVE findNode(_, _)
findNode(node, value) ==
    IF node = Null \/ Key(node.data) = Key(value) THEN node
    ELSE findNode(IF Key(value) < Key(node.data) THEN node.left ELSE node.right, value)

RECURSIVE TreeHeight(_)
TreeHeight(node) ==
    IF node = Null THEN -1
    ELSE LET l == TreeHeight(node.left)
             r == TreeHeight(node.right)
         IN  1 + IF l > r THEN l ELSE r

RECURSIVE Inorder(_)
Inorder(node) ==
    IF node = Null THEN <<>>
    ELSE Inorder(node.left) \o <<node.data>> \o Inorder(node.right)

RECURSIVE Subtrees(_)
Subtrees(node) ==
    IF node = Null THEN {} ELSE {node} \cup Subtrees(node.left) \cup Subtrees(node.right)

Ascends(s) == \A i \in 1 .. Len(s) - 1 : s[i] < s[i + 1]

(* The tree holds the keys in order, and a search finds exactly them. *)
IsSearchTreeOf(node, keys, all) ==
    LET s == Inorder(node)
    IN /\ Ascends(s)
       /\ {s[i] : i \in DOMAIN s} = keys
       /\ {k \in all : findNode(node, k) # Null} = keys

-----------------------------------------------------------------------------
(* tree::balanced::AVLTree: BSTBase with hooks that restore the balance.   *)
(* A node stores its height, which the rotations and the hooks recompute.  *)

getHeight(node) == IF node = Null THEN 0 ELSE node.height

getBalance(node) ==
    IF node = Null THEN 0 ELSE getHeight(node.left) - getHeight(node.right)

(* The node with its stored height recomputed from its children. *)
Measured(node) ==
    LET l == getHeight(node.left)
        r == getHeight(node.right)
    IN  [node EXCEPT !.height = 1 + IF l > r THEN l ELSE r]

AVLTree_rotateRight(y) ==
    LET x == y.left
    IN  Measured([x EXCEPT !.right = Measured([y EXCEPT !.left = x.right])])

AVLTree_rotateLeft(x) ==
    LET y == x.right
    IN  Measured([y EXCEPT !.left = Measured([x EXCEPT !.right = y.left])])

AVLTree_postInsert(node, value) ==
    LET n == Measured(node)
        balance == getBalance(n)
    IN  IF balance > 1 /\ Key(value) < Key(n.left.data) THEN AVLTree_rotateRight(n)
        ELSE IF balance < -1 /\ Key(value) > Key(n.right.data) THEN AVLTree_rotateLeft(n)
        ELSE IF balance > 1 /\ Key(value) > Key(n.left.data)
        THEN AVLTree_rotateRight([n EXCEPT !.left = AVLTree_rotateLeft(n.left)])
        ELSE IF balance < -1 /\ Key(value) < Key(n.right.data)
        THEN AVLTree_rotateLeft([n EXCEPT !.right = AVLTree_rotateRight(n.right)])
        ELSE n

AVLTree_postRemove_strict(node) ==
    LET n == Measured(node)
        balance == getBalance(n)
    IN  IF balance > 1
        THEN AVLTree_rotateRight(IF getBalance(n.left) > 0 THEN n
                         ELSE [n EXCEPT !.left = AVLTree_rotateLeft(n.left)])
        ELSE IF balance < -1
        THEN AVLTree_rotateLeft(IF getBalance(n.right) <= 0 THEN n
                        ELSE [n EXCEPT !.right = AVLTree_rotateRight(n.right)])
        ELSE n
AVLTree_postRemove(node) ==
    LET n == Measured(node)
        balance == getBalance(n)
    IN  IF balance > 1
        THEN AVLTree_rotateRight(IF getBalance(n.left) >= 0 THEN n
                         ELSE [n EXCEPT !.left = AVLTree_rotateLeft(n.left)])
        ELSE IF balance < -1
        THEN AVLTree_rotateLeft(IF getBalance(n.right) <= 0 THEN n
                        ELSE [n EXCEPT !.right = AVLTree_rotateRight(n.right)])
        ELSE n

(* The hooks of BSTBase: those of BinarySearchTree do nothing. *)
postInsert(node, value) == IF SelfBalancing THEN AVLTree_postInsert(node, value) ELSE node
postRemove(node) == IF SelfBalancing THEN AVLTree_postRemove(node) ELSE node

(* "|height(left) - height(right)| <= 1", and the stored heights are right. *)
AVLTree_IsBalanced ==
    \A n \in Subtrees(root) :
        /\ getBalance(n) \in -1 .. 1
        /\ n.height = TreeHeight(n) + 1

-----------------------------------------------------------------------------
(* tree::core::BSTBase: insert and remove of BinarySearchTree and AVLTree, *)
(* which supply the two hooks that run on every node of the path back up.  *)

BSTBase_vars == <<root, set>>

RECURSIVE insertImpl(_, _)
insertImpl(node, value) ==
    IF node = Null THEN Node(value)
    ELSE IF Key(value) < Key(node.data)
    THEN postInsert([node EXCEPT !.left = insertImpl(node.left, value)], value)
    ELSE IF Key(value) > Key(node.data)
    THEN postInsert([node EXCEPT !.right = insertImpl(node.right, value)], value)
    ELSE node

RECURSIVE removeImpl(_, _)
removeImpl(node, value) ==
    IF node = Null THEN Null
    ELSE IF Key(value) < Key(node.data)
    THEN postRemove([node EXCEPT !.left = removeImpl(node.left, value)])
    ELSE IF Key(value) > Key(node.data)
    THEN postRemove([node EXCEPT !.right = removeImpl(node.right, value)])
    ELSE IF node.left = Null THEN node.right
    ELSE IF node.right = Null THEN node.left
    ELSE LET successor == findMin(node.right).data
         IN  postRemove([node EXCEPT !.data = successor,
                                     !.right = removeImpl(node.right, successor)])

BSTBase_insert(value) ==
    /\ root' = insertImpl(root, value)
    /\ set' = set \cup {value}

BSTBase_remove(value) ==
    /\ root' = removeImpl(root, value)
    /\ set' = set \ {value}

BSTBase_Init == root = Null /\ set = {}

BSTBase_Next == \E k \in Keys : BSTBase_insert(k) \/ BSTBase_remove(k)

BSTBase_IsSearchTree == IsSearchTreeOf(root, set, Keys)

-----------------------------------------------------------------------------
(* map::TreeMap: an AVLTree of entries of which only the keys are compared. *)
(* The map goes on as its own copy when it is copied or assigned.           *)

TreeMap_vars == <<root, size, map, copied>>

Entry(key, value) == <<key, value>>

(* The nodes of the copy are new ones: their heights are those of leaves.   *)
RECURSIVE clone_node(_)
clone_node(node) ==
    IF node = Null THEN Null
    ELSE [Node(node.data) EXCEPT !.left = clone_node(node.left), !.right = clone_node(node.right)]

(* The node of the key with another value. *)
RECURSIVE Assigned(_, _, _)
Assigned(node, key, value) ==
    IF Key(node.data) = key THEN [node EXCEPT !.data = Entry(key, value)]
    ELSE IF key < Key(node.data) THEN [node EXCEPT !.left = Assigned(node.left, key, value)]
    ELSE [node EXCEPT !.right = Assigned(node.right, key, value)]

Holds(key) == findNode(root, Entry(key, Default)) # Null

With(f, key, value) == [k \in DOMAIN f \cup {key} |-> IF k = key THEN value ELSE f[k]]

TreeMap_insert(key, value) ==
    /\ ~ Holds(key)
    /\ root' = insertImpl(root, Entry(key, value))
    /\ size' = size + 1
    /\ map' = With(map, key, value)
    /\ UNCHANGED copied

insert_or_assign_first(key, value) ==
    /\ IF Holds(key)
       THEN root' = Assigned(root, Key(root.data), value) /\ UNCHANGED size
       ELSE root' = insertImpl(root, Entry(key, value)) /\ size' = size + 1
    /\ map' = With(map, key, value)
    /\ UNCHANGED copied
insert_or_assign(key, value) ==
    /\ IF Holds(key)
       THEN root' = Assigned(root, key, value) /\ UNCHANGED size
       ELSE root' = insertImpl(root, Entry(key, value)) /\ size' = size + 1
    /\ map' = With(map, key, value)
    /\ UNCHANGED copied

(* operator[], where what it returns is not assigned to. *)
Subscript(key) ==
    /\ ~ Holds(key)
    /\ root' = insertImpl(root, Entry(key, Default))
    /\ size' = size + 1
    /\ map' = With(map, key, Default)
    /\ UNCHANGED copied

TreeMap_erase(key) ==
    /\ Holds(key)
    /\ root' = removeImpl(root, Entry(key, Default))
    /\ size' = size - 1
    /\ map' = [k \in DOMAIN map \ {key} |-> map[k]]
    /\ UNCHANGED copied

TreeMap_clear ==
    /\ root' = Null /\ size' = 0
    /\ map' = [k \in {} |-> Default]
    /\ copied' = FALSE

TreeMap_copy ==
    /\ root' = clone_node(root)
    /\ copied' = TRUE
    /\ UNCHANGED <<size, map>>

TreeMap_Init ==
    /\ root = Null /\ size = 0
    /\ map = [k \in {} |-> Default] /\ copied = FALSE

TreeMap_Next ==
    \/ \E k \in Keys : \/ \E v \in Mapped[k] : TreeMap_insert(k, v) \/ insert_or_assign(k, v)
                       \/ Subscript(k) \/ TreeMap_erase(k)
    \/ TreeMap_clear \/ TreeMap_copy

(* toVector lists the keys in order with the values given to them last, and *)
(* findValue, contains, min and max speak of the same map: where removeImpl *)
(* moves an entry its value goes along, and rotations decided by the        *)
(* heights of a copied tree, which are wrong, lose nothing.  The heights of *)
(* a map that is no copy are right and balanced.                            *)
TreeMap_Reads ==
    LET s == Inorder(root)
    IN /\ size = Len(s) /\ size = Cardinality(DOMAIN map)
       /\ \A i \in 1 .. Len(s) - 1 : Key(s[i]) < Key(s[i + 1])
       /\ {s[i] : i \in DOMAIN s} = {Entry(k, map[k]) : k \in DOMAIN map}
       /\ \A k \in DOMAIN map : findNode(root, Entry(k, Default)).data = Entry(k, map[k])
       /\ copied \/ AVLTree_IsBalanced

-----------------------------------------------------------------------------
(* TreeSet: an AVLTree of its elements, and their number. *)

TreeSet_vars == <<root, size, set, copied>>

TreeSet_insert(value) ==
    /\ findNode(root, value) = Null
    /\ BSTBase_insert(value)
    /\ size' = size + 1
    /\ UNCHANGED copied

TreeSet_erase(value) ==
    /\ findNode(root, value) # Null
    /\ BSTBase_remove(value)
    /\ size' = size - 1
    /\ UNCHANGED copied

TreeSet_clear == root' = Null /\ size' = 0 /\ set' = {} /\ copied' = FALSE

TreeSet_copy ==
    /\ root' = clone_node(root)
    /\ copied' = TRUE
    /\ UNCHANGED <<size, set>>

TreeSet_Init == BSTBase_Init /\ size = 0 /\ copied = FALSE

TreeSet_Next ==
    \/ \E k \in Keys : TreeSet_insert(k) \/ TreeSet_erase(k)
    \/ TreeSet_clear \/ TreeSet_copy

(* toVector, contains, size: the elements inserted and not erased, in order, *)
(* also of a copy that is changed.                                           *)
TreeSet_Reads ==
    /\ IsSearchTreeOf(root, set, Keys)
    /\ size = Cardinality(set)
    /\ copied \/ AVLTree_IsBalanced

-----------------------------------------------------------------------------
(* tree::balanced::SplayTree: a search tree that rotates the key of every  *)
(* access, a find included, to the root.                                   *)

SplayTree_vars == <<root, size, set, last>>

SplayTree_rotateRight(node) ==
    LET left == node.left
    IN  [left EXCEPT !.right = [node EXCEPT !.left = left.right]]

SplayTree_rotateLeft(node) ==
    LET right == node.right
    IN  [right EXCEPT !.left = [node EXCEPT !.right = right.left]]

(* zig-zig and zig-zag below the root of the subtree, then the last zig,   *)
(* unless the descent ended one level above.                               *)
RECURSIVE splay(_, _)
splay(node, value) ==
    IF node = Null \/ node.data = value THEN node
    ELSE IF value < node.data
    THEN IF node.left = Null THEN node
         ELSE LET l == node.left
                  n == IF value < l.data
                       THEN SplayTree_rotateRight([node EXCEPT !.left.left = splay(l.left, value)])
                       ELSE IF value > l.data /\ splay(l.right, value) # Null
                       THEN [node EXCEPT !.left =
                                SplayTree_rotateLeft([l EXCEPT !.right = splay(l.right, value)])]
                       ELSE node
              IN  IF n.left # Null THEN SplayTree_rotateRight(n) ELSE n
    ELSE IF node.right = Null THEN node
         ELSE LET r == node.right
                  n == IF value > r.data
                       THEN SplayTree_rotateLeft([node EXCEPT !.right.right = splay(r.right, value)])
                       ELSE IF value < r.data /\ splay(r.left, value) # Null
                       THEN [node EXCEPT !.right =
                                SplayTree_rotateRight([r EXCEPT !.left = splay(r.left, value)])]
                       ELSE node
              IN  IF n.right # Null THEN SplayTree_rotateLeft(n) ELSE n

RECURSIVE SplayTree_insertImpl(_, _)
SplayTree_insertImpl(node, value) ==
    IF node = Null THEN Node(value)
    ELSE IF value < node.data
    THEN splay([node EXCEPT !.left = SplayTree_insertImpl(node.left, value)], value)
    ELSE IF value > node.data
    THEN splay([node EXCEPT !.right = SplayTree_insertImpl(node.right, value)], value)
    ELSE node

SplayTree_insert(value) ==
    /\ root' = SplayTree_insertImpl(root, value)
    /\ size' = IF findNode(root, value) = Null THEN size + 1 ELSE size
    /\ set' = set \cup {value}
    /\ last' = value

Joined_unsplayed(left, right, value) ==
    IF left = Null THEN right
    ELSE IF right = Null THEN left
    ELSE [left EXCEPT !.right = right]
(* The greatest key of the left subtree becomes the root. *)
Joined(left, right, value) ==
    IF left = Null THEN right
    ELSE IF right = Null THEN left
    ELSE [splay(left, value) EXCEPT !.right = right]

SplayTree_remove(value) ==
    LET t == splay(root, value)
    IN /\ root # Null
       /\ IF t.data = value
          THEN root' = Joined(t.left, t.right, value) /\ size' = size - 1
          ELSE root' = t /\ UNCHANGED size
       /\ set' = set \ {value}
       /\ last' = Null

find(value) ==
    /\ root # Null
    /\ root' = splay(root, value)
    /\ last' = IF root'.data = value THEN value ELSE Null
    /\ UNCHANGED <<size, set>>

SplayTree_clear ==
    /\ root' = Null /\ size' = 0
    /\ set' = {} /\ last' = Null

SplayTree_Init == root = Null /\ size = 0 /\ set = {} /\ last = Null

SplayTree_Next ==
    \/ \E k \in Keys : SplayTree_insert(k) \/ SplayTree_remove(k) \/ find(k)
    \/ SplayTree_clear

(* No rotation loses a subtree, and size_ counts the keys. *)
SplayTree_IsSearchTree ==
    /\ IsSearchTreeOf(root, set, Keys)
    /\ size = Cardinality(set)

(* "Insert a value into the tree, then splay it to the root", and find      *)
(* splays the accessed node to the root: it finds exactly the keys held.    *)
LastIsAtTheRoot == last # Null => root.data = last

-----------------------------------------------------------------------------
(* tree::balanced::Treap: a search tree by key that is a heap by priority. *)
(* A new node's random priority is any priority.                           *)

Treap_vars == <<root, size, set>>

Leaf(value, p) == [data |-> value, priority |-> p, left |-> Null, right |-> Null]

Treap_rotateRight(node) ==
    LET left == node.left
    IN  [left EXCEPT !.right = [node EXCEPT !.left = left.right]]

Treap_rotateLeft(node) ==
    LET right == node.right
    IN  [right EXCEPT !.left = [node EXCEPT !.right = right.left]]

RECURSIVE Treap_insertImpl(_, _, _)
Treap_insertImpl(node, value, p) ==
    IF node = Null THEN Leaf(value, p)
    ELSE IF value < node.data
    THEN LET n == [node EXCEPT !.left = Treap_insertImpl(node.left, value, p)]
         IN  IF n.left.priority > n.priority THEN Treap_rotateRight(n) ELSE n
    ELSE IF value > node.data
    THEN LET n == [node EXCEPT !.right = Treap_insertImpl(node.right, value, p)]
         IN  IF n.right.priority > n.priority THEN Treap_rotateLeft(n) ELSE n
    ELSE node

PrefersLeft_swapped(node) == node.left.priority < node.right.priority
PrefersLeft(node) == node.left.priority > node.right.priority

(* The node found is rotated down until one of its children is missing. *)
RECURSIVE Treap_removeImpl(_, _)
Treap_removeImpl(node, value) ==
    IF node = Null THEN Null
    ELSE IF value < node.data
    THEN [node EXCEPT !.left = Treap_removeImpl(node.left, value)]
    ELSE IF value > node.data
    THEN [node EXCEPT !.right = Treap_removeImpl(node.right, value)]
    ELSE IF node.left = Null THEN node.right
    ELSE IF node.right = Null THEN node.left
    ELSE IF PrefersLeft(node)
    THEN LET n == Treap_rotateRight(node)
         IN  [n EXCEPT !.right = Treap_removeImpl(n.right, value)]
    ELSE LET n == Treap_rotateLeft(node)
         IN  [n EXCEPT !.left = Treap_removeImpl(n.left, value)]

Treap_insert(value, p) ==
    /\ root' = Treap_insertImpl(root, value, p)
    /\ size' = IF findNode(root, value) = Null THEN size + 1 ELSE size
    /\ set' = set \cup {value}

Treap_remove(value) ==
    /\ root' = Treap_removeImpl(root, value)
    /\ size' = IF findNode(root, value) = Null THEN size ELSE size - 1
    /\ set' = set \ {value}

Treap_clear == root' = Null /\ size' = 0 /\ set' = {}

Treap_Init == root = Null /\ size = 0 /\ set = {}

Treap_Next ==
    \/ \E k \in Keys : (\E p \in Priorities : Treap_insert(k, p)) \/ Treap_remove(k)
    \/ Treap_clear

Treap_IsSearchTree ==
    /\ IsSearchTreeOf(root, set, Keys)
    /\ size = Cardinality(set)

(* verifyHeap: no child has a higher priority than its parent. *)
IsHeap ==
    \A n \in Subtrees(root) : \A c \in {n.left, n.right} \ {Null} :
        c.priority <= n.priority

-----------------------------------------------------------------------------
(* tree::balanced::RedBlackTree: nodes with a colour and links to both     *)
(* children and to the parent; a value may be inserted several times.      *)
(* The code spells every case out twice, left and right: here a case has a *)
(* side.  Addresses are not visible from outside, so that after a call the *)
(* nodes are numbered from left to right.                                  *)

RedBlackTree_vars == <<tree, bag>>

Sides == {"left", "right"}
Other(side) == IF side = "left" THEN "right" ELSE "left"
Empty == [root |-> Null, child |-> [s \in Sides |-> <<>>],
          parent |-> <<>>, color |-> <<>>, data |-> <<>>]

Size(t) == Len(t.data)
IsRed(t, n) == n # Null /\ t.color[n] = "Red"
SideOf(t, n) == IF n = t.child["left"][t.parent[n]] THEN "left" ELSE "right"

SetColor(t, n, c) == IF n = Null THEN t ELSE [t EXCEPT !.color[n] = c]
SetParent(t, n, p) == IF n = Null THEN t ELSE [t EXCEPT !.parent[n] = p]

(* m takes the place of n below n's parent, or as the root. *)
Replace(t, n, m) ==
    IF t.parent[n] = Null THEN [t EXCEPT !.root = m]
    ELSE [t EXCEPT !.child[SideOf(t, n)][t.parent[n]] = m]

(* leftRotate for side "left", rightRotate for side "right". *)
Rotate(t, n, side) ==
    LET up == t.child[Other(side)][n]
        inner == t.child[side][up]
        t1 == SetParent([t EXCEPT !.child[Other(side)][n] = inner], inner, n)
        t2 == Replace(SetParent(t1, up, t1.parent[n]), n, up)
    IN  SetParent([t2 EXCEPT !.child[side][up] = n], n, up)

RECURSIVE FixInsertFrom(_, _)
FixInsertFrom(t, node) ==
    LET parent == t.parent[node]
        grand == t.parent[parent]
        side == SideOf(t, parent)
        uncle == t.child[Other(side)][grand]
    IN  IF node = t.root \/ ~ IsRed(t, parent) THEN SetColor(t, t.root, "Black")
        ELSE IF IsRed(t, uncle)
        THEN FixInsertFrom(
                 SetColor(SetColor(SetColor(t, parent, "Black"), uncle, "Black"),
                          grand, "Red"),
                 grand)
        ELSE LET inside == node = t.child[Other(side)][parent]
                 n == IF inside THEN parent ELSE node
                 t1 == IF inside THEN Rotate(t, n, side) ELSE t
                 p == t1.parent[n]
                 g == t1.parent[p]
             IN  FixInsertFrom(
                     Rotate(SetColor(SetColor(t1, p, "Black"), g, "Red"), g, Other(side)),
                     n)

fixInsert_noop(t, node) == SetColor(t, t.root, "Black")
fixInsert(t, node) == FixInsertFrom(t, node)

(* Where the search for the place of a value ends: equal values go right. *)
RECURSIVE PlaceBelow(_, _, _)
PlaceBelow(t, n, value) ==
    LET side == IF value < t.data[n] THEN "left" ELSE "right"
    IN  IF t.child[side][n] = Null THEN <<n, side>>
        ELSE PlaceBelow(t, t.child[side][n], value)

(* A new node, red and without children, numbered after the others. *)
WithNode(t, value) ==
    [t EXCEPT !.child = [s \in Sides |-> Append(t.child[s], Null)],
              !.parent = Append(@, Null),
              !.color = Append(@, "Red"),
              !.data = Append(@, value)]

Inserted(t, value) ==
    LET t1 == WithNode(t, value)
        node == Size(t1)
    IN  IF t.root = Null
        THEN SetColor([t1 EXCEPT !.root = node], node, "Black")
        ELSE LET place == PlaceBelow(t, t.root, value)
             IN  fixInsert([t1 EXCEPT !.parent[node] = place[1],
                                      !.child[place[2]][place[1]] = node],
                           node)

(* node carries one black too few; it may be Null, then parent places it. *)
RECURSIVE fixDelete(_, _, _)
fixDelete(t, node, parent) ==
    IF node = t.root \/ IsRed(t, node) THEN SetColor(t, node, "Black")
    ELSE LET side == IF node = t.child["left"][parent] THEN "left" ELSE "right"
             far == Other(side)
             red == IsRed(t, t.child[far][parent])
             t1 == IF red
                   THEN Rotate(SetColor(SetColor(t, t.child[far][parent], "Black"),
                                        parent, "Red"),
                               parent, side)
                   ELSE t
             sibling == t1.child[far][parent]
         IN  IF \/ sibling = Null
                \/ \A s \in Sides : ~ IsRed(t1, t1.child[s][sibling])
             THEN fixDelete(SetColor(t1, sibling, "Red"), parent, t1.parent[parent])
             ELSE LET t2 == IF IsRed(t1, t1.child[far][sibling]) THEN t1
                            ELSE Rotate(SetColor(SetColor(t1, t1.child[side][sibling],
                                                          "Black"),
                                                 sibling, "Red"),
                                        sibling, far)
                      sib == t2.child[far][parent]
                      t3 == SetColor(SetColor(SetColor(t2, sib, t2.color[parent]),
                                              t2.child[far][sib], "Black"),
                                     parent, "Black")
                      t4 == Rotate(t3, parent, side)
                  IN  SetColor(t4, t4.root, "Black")

RECURSIVE Search(_, _, _)
Search(t, n, value) ==
    IF n = Null \/ value = t.data[n] THEN n
    ELSE Search(t, t.child[IF value < t.data[n] THEN "left" ELSE "right"][n], value)

RECURSIVE findMinNode(_, _)
findMinNode(t, n) ==
    IF t.child["left"][n] = Null THEN n ELSE findMinNode(t, t.child["left"][n])

(* node, with at most one child, is unlinked. *)
UnlinkSmall(t, node) ==
    LET replacement == IF t.child["left"][node] = Null THEN t.child["right"][node]
                       ELSE t.child["left"][node]
        parent == t.parent[node]
        t1 == SetParent(Replace(t, node, replacement), replacement, parent)
    IN  IF t.color[node] = "Black" THEN fixDelete(t1, replacement, parent) ELSE t1

(* The successor of node, with two children, moves to its place. *)
UnlinkInner(t, node) ==
    LET right == t.child["right"][node]
        successor == findMinNode(t, right)
        replacement == t.child["right"][successor]
        above == t.parent[successor]
        parent == IF above = node THEN successor ELSE above
        t1 == IF above = node THEN t
              ELSE LET u == SetParent(Replace(t, successor, replacement),
                                      replacement, above)
                   IN  SetParent([u EXCEPT !.child["right"][successor] = right],
                                 right, successor)
        left == t1.child["left"][node]
        t2 == SetParent([t1 EXCEPT !.child["left"][successor] = left], left, successor)
        t3 == SetColor(Replace(SetParent(t2, successor, t2.parent[node]), node, successor),
                       successor, t.color[node])
    IN  IF t.color[successor] = "Black" THEN fixDelete(t3, replacement, parent) ELSE t3

Removed(t, value) ==
    LET node == Search(t, t.root, value)
    IN  IF node = Null THEN t
        ELSE IF \E s \in Sides : t.child[s][node] = Null THEN UnlinkSmall(t, node)
        ELSE UnlinkInner(t, node)

RECURSIVE InorderFrom(_, _)
InorderFrom(t, n) ==
    IF n = Null THEN <<>>
    ELSE InorderFrom(t, t.child["left"][n]) \o <<n>>
             \o InorderFrom(t, t.child["right"][n])

(* The same tree with its nodes numbered from left to right. *)
Numbered(t) ==
    LET order == InorderFrom(t, t.root)
        N == 1 .. Len(order)
        Name(n) == IF n = Null THEN Null ELSE CHOOSE i \in N : order[i] = n
    IN  [root |-> Name(t.root),
         child |-> [s \in Sides |-> [i \in N |-> Name(t.child[s][order[i]])]],
         parent |-> [i \in N |-> Name(t.parent[order[i]])],
         color |-> [i \in N |-> t.color[order[i]]],
         data |-> [i \in N |-> t.data[order[i]]]]

RedBlackTree_insert(value) ==
    /\ Size(tree) < MaxSize
    /\ tree' = Numbered(Inserted(tree, value))
    /\ bag' = bag (+) SetToBag({value})

RedBlackTree_remove(value) ==
    /\ tree.root # Null
    /\ tree' = Numbered(Removed(tree, value))
    /\ bag' = bag (-) SetToBag({value})

RedBlackTree_Init == tree = Empty /\ bag = EmptyBag

RedBlackTree_Next == \E v \in Values : RedBlackTree_insert(v) \/ RedBlackTree_remove(v)

-----------------------------------------------------------------------------
(* The nodes hold the values in order, one for each insert not removed, and *)
(* the links to parents are those to children reversed.                     *)
IsOrdered ==
    LET N == 1 .. Size(tree)
    IN /\ \A i \in 1 .. Size(tree) - 1 : tree.data[i] <= tree.data[i + 1]
       /\ \A v \in Values : CopiesIn(v, bag) = Cardinality({i \in N : tree.data[i] = v})
       /\ \A i \in N : i # tree.root =>
              \E s \in Sides : tree.child[s][tree.parent[i]] = i
       /\ tree.root # Null => tree.parent[tree.root] = Null

(* The black nodes on the way down from n, the same on every way. *)
RECURSIVE BlackHeights(_, _)
BlackHeights(t, n) ==
    IF n = Null THEN {0}
    ELSE {h + (IF t.color[n] = "Black" THEN 1 ELSE 0) :
             h \in UNION {BlackHeights(t, t.child[s][n]) : s \in Sides}}

(* Red-black: the root is black, a red node has no red child, and every way *)
(* down has as many black nodes.                                            *)
IsRedBlack ==
    /\ ~ IsRed(tree, tree.root)
    /\ \A i \in 1 .. Size(tree), s \in Sides :
           IsRed(tree, i) => ~ IsRed(tree, tree.child[s][i])
    /\ Cardinality(BlackHeights(tree, tree.root)) = 1
=============================================================================
