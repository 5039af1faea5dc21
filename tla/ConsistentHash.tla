--------------------------- MODULE ConsistentHash ---------------------------
(***************************************************************************)
(* cppforge::data_structure::hash::ConsistentHash: a ring of hash values,  *)
(* on which every node has several virtual replicas; a key belongs to the  *)
(* first replica at or behind its hash.  Each call holds mutex_ to its end *)
(* and is one step.                                                        *)
(***************************************************************************)
EXTENDS Integers, Sequences, FiniteSets

CONSTANTS
    Names,                 \* physical nodes
    Keys,
    DEFAULT_VNODE_COUNT,
    Counts,                \* arguments virtualNodeCount of addNode
    hashVNode,             \* per node and number of the replica; without collisions
    hashBytes,             \* [Keys -> Nat]
    Absent                 \* no node

VARIABLES
    ring,                  \* ring_: hash -> node
    nodeVNodeCounts        \* nodeVNodeCounts_: replicas of a node, or Absent

vars == <<ring, nodeVNodeCounts>>

TypeOK ==
    /\ \A h \in DOMAIN ring : h \in Nat /\ ring[h] \in Names
    /\ nodeVNodeCounts \in [Names -> Nat \cup {Absent}]

Members == {n \in Names : nodeVNodeCounts[n] # Absent}
Replicas(n, count) == {hashVNode[n][i] : i \in 0 .. count - 1}
Dropped(H) == [h \in DOMAIN ring \ H |-> ring[h]]
Old(n) == IF n \in Members THEN Replicas(n, nodeVNodeCounts[n]) ELSE {}
Effective(count) == IF count = 0 THEN DEFAULT_VNODE_COUNT ELSE count

addNode_keeps_old(n, count) ==
    LET new == Replicas(n, Effective(count))
    IN /\ ring' = [h \in DOMAIN ring \cup new |-> IF h \in new THEN n ELSE ring[h]]
       /\ nodeVNodeCounts' = [nodeVNodeCounts EXCEPT ![n] = Effective(count)]

(* The node's old replicas go first: it may come back with fewer. *)
addNode(n, count) ==
    LET rest == Dropped(Old(n))
        new == Replicas(n, Effective(count))
    IN /\ ring' = [h \in DOMAIN rest \cup new |-> IF h \in new THEN n ELSE rest[h]]
       /\ nodeVNodeCounts' = [nodeVNodeCounts EXCEPT ![n] = Effective(count)]

removeNode(n) ==
    /\ n \in Members
    /\ ring' = Dropped(Old(n))
    /\ nodeVNodeCounts' = [nodeVNodeCounts EXCEPT ![n] = Absent]

clear ==
    /\ ring' = [h \in {} |-> Absent]
    /\ nodeVNodeCounts' = [n \in Names |-> Absent]

-----------------------------------------------------------------------------
Least(H) == CHOOSE h \in H : \A g \in H : h <= g

FromModulo(r, h) ==
    CHOOSE g \in DOMAIN r :
        Cardinality({x \in DOMAIN r : x < g}) = h % Cardinality(DOMAIN r)

(* lower_bound(h) of ring r, or the beginning of the ring. *)
From(r, h) ==
    LET behind == {g \in DOMAIN r : g >= h}
    IN Least(IF behind = {} THEN DOMAIN r ELSE behind)

getNode(k) == ring[From(ring, hashBytes[k])]

(* Once around the ring from hash h: where the loop of getNodes is, and the *)
(* nodes it has found before, at most n.                                    *)
Place(r, h) ==
    LET f[i \in 0 .. Cardinality(DOMAIN r)] ==
            IF i = 0 THEN From(r, h) ELSE From(r, f[i - 1] + 1)
    IN  f
More(found, node, n) ==
    IF Len(found) >= n \/ \E j \in DOMAIN found : found[j] = node
    THEN found ELSE Append(found, node)
Found(r, h, n) ==
    LET f[i \in 0 .. Cardinality(DOMAIN r)] ==
            IF i = 0 THEN <<>> ELSE More(f[i - 1], r[Place(r, h)[i - 1]], n)
    IN  f

getNodes(k, n) == Found(ring, hashBytes[k], n)[Cardinality(DOMAIN ring)]

Init ==
    /\ ring = [h \in {} |-> Absent]
    /\ nodeVNodeCounts = [n \in Names |-> Absent]

Next ==
    \/ \E n \in Names : removeNode(n) \/ \E c \in Counts : addNode(n, c)
    \/ clear

Spec == Init /\ [][Next]_vars

-----------------------------------------------------------------------------
(* Every member has its replicas on the ring and nobody else has any;       *)
(* getNodes returns as many distinct members as asked for and available,    *)
(* the owner of the key first.                                              *)
RingHoldsTheMembers ==
    /\ {<<h, ring[h]>> : h \in DOMAIN ring} =
           UNION {Replicas(n, nodeVNodeCounts[n]) \X {n} : n \in Members}
    /\ Members # {} => \A k \in Keys, n \in 1 .. Cardinality(Names) :
          LET nodes == getNodes(k, n)
              found == {nodes[i] : i \in DOMAIN nodes}
          IN /\ nodes[1] = getNode(k)
             /\ found \subseteq Members
             /\ Cardinality(found) = Len(nodes)
             /\ Len(nodes) = IF n < Cardinality(Members) THEN n ELSE Cardinality(Members)

(* What makes the hashing consistent: when a node joins, leaves or changes  *)
(* its weight, a key that changes its owner leaves or reaches that node.    *)
OnlyItsKeysMove ==
    (Members # {} /\ Members' # {}) =>
        \E n \in Names : \A k \in Keys :
            getNode(k)' = getNode(k) \/ n \in {getNode(k), getNode(k)'}
=============================================================================
