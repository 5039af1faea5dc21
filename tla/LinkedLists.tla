-------------------------------- MODULE LinkedLists -------------------------
(***************************************************************************)
(* LinkedList, Queue and SkipList: containers of linked nodes.             *)
(***************************************************************************)
EXTENDS Integers, Sequences, FiniteSets

CONSTANTS
    Nodes,        \* bound: nodes that may be in use at a time, 1 .. n
    Values,
    AnyPosition,  \* FALSE: insert is called at the beginning and the end only
    Null,
    Queues,       \* two queues
    Keys,         \* integers above Header
    maxLevel,     \* maxLevel_
    Header        \* header_

VARIABLES
    data,          \* data_ of each node
    next,
    prev,          \* next_, prev_
    head,
    tail,          \* head_, tail_
    list_size,     \* list_size_
    contents,      \* history: the elements it should hold
    forward,       \* forward of each node: [0 .. height - 1 -> node]
    currentLevel,  \* currentLevel_
    size,          \* size_
    set            \* history: the keys it should hold

-----------------------------------------------------------------------------
(* cppforge::data_structure::LinkedList: a doubly linked list.  A node     *)
(* owns the next one, so what head_ does not lead to has been freed;       *)
(* prev_ and tail_ are plain pointers, which nothing keeps up to date but  *)
(* the operations themselves.                                              *)

LinkedList_vars == <<data, next, prev, head, tail, list_size, contents>>

(* The i-th node from head_ on, Null behind the last. *)
Walk[i \in 1 .. Cardinality(Nodes) + 1] ==
    IF i = 1 THEN head
    ELSE IF Walk[i - 1] = Null THEN Null ELSE next[Walk[i - 1]]
Live == {Walk[i] : i \in DOMAIN Walk} \ {Null}
WalkLength == Cardinality({i \in DOMAIN Walk : Walk[i] # Null})

LinkedList_TypeOK ==
    /\ data \in [Nodes -> Values]
    /\ next \in [Nodes -> Nodes \cup {Null}]
    /\ prev \in [Nodes -> Nodes \cup {Null}]
    /\ head \in Nodes \cup {Null} /\ tail \in Nodes \cup {Null}
    /\ list_size \in 0 .. Cardinality(Nodes)
    /\ contents \in Seq(Values)

(* std::make_unique<Node>(value): a node not in use. *)
Fresh == CHOOSE n \in Nodes \ Live : \A m \in Nodes \ Live : n <= m
MayAllocate == Live # Nodes

Without(s, i) == SubSeq(s, 1, i - 1) \o SubSeq(s, i + 1, Len(s))
With(s, i, v) == SubSeq(s, 1, i - 1) \o <<v>> \o SubSeq(s, i, Len(s))

-----------------------------------------------------------------------------
(* The links with a fresh node in front, at the back, or before node n. *)
front_one_way ==
    [next |-> [next EXCEPT ![Fresh] = head],
     prev |-> [prev EXCEPT ![Fresh] = Null],
     head |-> Fresh,
     tail |-> IF head = Null THEN Fresh ELSE tail]

front ==
    [next |-> [next EXCEPT ![Fresh] = head],
     prev |-> [n \in Nodes |-> IF n = Fresh THEN Null
                               ELSE IF n = head THEN Fresh ELSE prev[n]],
     head |-> Fresh,
     tail |-> IF head = Null THEN Fresh ELSE tail]

back ==
    [next |-> [n \in Nodes |-> IF n = Fresh THEN Null
                               ELSE IF n = tail THEN Fresh ELSE next[n]],
     prev |-> [prev EXCEPT ![Fresh] = tail],
     head |-> IF tail = Null THEN Fresh ELSE head,
     tail |-> Fresh]

(* n itself keeps its prev_. *)
middle(n) ==
    [next |-> [next EXCEPT ![Fresh] = next[prev[n]], ![prev[n]] = Fresh],
     prev |-> [prev EXCEPT ![Fresh] = prev[n]],
     head |-> head,
     tail |-> tail]

SetLinks(l) ==
    next' = l.next /\ prev' = l.prev /\ head' = l.head /\ tail' = l.tail

Add(links, v) ==
    /\ MayAllocate
    /\ SetLinks(links)
    /\ data' = [data EXCEPT ![Fresh] = v]
    /\ list_size' = list_size + 1

push_front(v) == Add(front, v) /\ contents' = <<v>> \o contents
push_back(v) == Add(back, v) /\ contents' = Append(contents, v)

(* insert before the i-th node, where the one behind the last is end(). *)
LinkedList_insert(i, v) ==
    /\ AnyPosition \/ Walk[i] \in {Null, head}
    /\ i <= WalkLength + 1
    /\ Add(IF Walk[i] = head THEN front ELSE IF Walk[i] = Null THEN back
           ELSE middle(Walk[i]), v)
    /\ contents' = With(contents, i, v)

pop_front ==
    /\ list_size # 0
    /\ head' = next[head]
    /\ prev' = [n \in Nodes |-> IF n = next[head] THEN Null ELSE prev[n]]
    /\ tail' = IF next[head] = Null THEN Null ELSE tail
    /\ list_size' = list_size - 1
    /\ contents' = Tail(contents)
    /\ UNCHANGED <<data, next>>

pop_back ==
    /\ list_size # 0
    /\ \/ /\ head = tail
          /\ head' = Null /\ tail' = Null
          /\ UNCHANGED next
       \/ /\ head # tail
          /\ next' = [next EXCEPT ![prev[tail]] = Null]
          /\ tail' = prev[tail]
          /\ UNCHANGED head
    /\ list_size' = list_size - 1
    /\ contents' = SubSeq(contents, 1, Len(contents) - 1)
    /\ UNCHANGED <<data, prev>>

(* The links without node n. *)
erase_node(l, n) ==
    LET p == l.prev[n]
        q == l.next[n]
    IN [next |-> [m \in Nodes |-> IF m = p THEN q ELSE l.next[m]],
        prev |-> [m \in Nodes |-> IF m = q THEN p ELSE l.prev[m]],
        head |-> IF p = Null THEN q ELSE l.head,
        tail |-> IF q = Null THEN p ELSE l.tail]

Links == [next |-> next, prev |-> prev, head |-> head, tail |-> tail]

LinkedList_erase(i) ==
    /\ i \in 1 .. WalkLength
    /\ SetLinks(erase_node(Links, Walk[i]))
    /\ list_size' = list_size - 1
    /\ contents' = Without(contents, i)
    /\ UNCHANGED data

(* remove and remove_if: the nodes with value v, from head_ on; erase       *)
(* returns the node the search goes on with.                                *)
RECURSIVE Removed(_, _, _)
Removed(l, n, v) ==
    IF n = Null THEN l
    ELSE Removed(IF data[n] = v THEN erase_node(l, n) ELSE l, l.next[n], v)

remove(v) ==
    /\ \E i \in 1 .. WalkLength : data[Walk[i]] = v
    /\ SetLinks(Removed(Links, head, v))
    /\ list_size' = list_size - Cardinality({n \in Live : data[n] = v})
    /\ contents' = SelectSeq(contents, LAMBDA x : x # v)
    /\ UNCHANGED data

clear ==
    /\ head' = Null /\ tail' = Null
    /\ list_size' = 0
    /\ contents' = <<>>
    /\ UNCHANGED <<data, next, prev>>

(* One pass that turns both links of each node round. *)
reverse ==
    LET Place(n) == CHOOSE i \in DOMAIN Walk : Walk[i] = n
    IN /\ list_size >= 2
       /\ tail' = head
       /\ head' = Walk[WalkLength]
       /\ next' = [n \in Nodes |-> IF n \notin Live THEN next[n]
                      ELSE IF n = head THEN Null ELSE Walk[Place(n) - 1]]
       /\ prev' = [n \in Nodes |-> IF n \in Live THEN next[n] ELSE prev[n]]
       /\ contents' = [i \in DOMAIN contents |-> contents[Len(contents) + 1 - i]]
       /\ UNCHANGED <<data, list_size>>

LinkedList_Init ==
    /\ data = [n \in Nodes |-> CHOOSE v \in Values : TRUE]
    /\ next = [n \in Nodes |-> Null]
    /\ prev = [n \in Nodes |-> Null]
    /\ head = Null /\ tail = Null
    /\ list_size = 0
    /\ contents = <<>>

LinkedList_Next ==
    \/ \E v \in Values : push_front(v) \/ push_back(v) \/ remove(v)
    \/ pop_front \/ pop_back \/ clear \/ reverse
    \/ \E i \in DOMAIN Walk : LinkedList_erase(i) \/ \E v \in Values : LinkedList_insert(i, v)


-----------------------------------------------------------------------------
(* Read forward from head_ and backward from tail_ the list is the sequence *)
(* of its elements, and list_size_ is their number: no operation frees a    *)
(* node that the backward links still lead to.                              *)
ReadsBothWays ==
    /\ list_size = Len(contents)
    /\ WalkLength = Len(contents)
    /\ \A i \in 1 .. WalkLength : data[Walk[i]] = contents[i]
    /\ tail = IF WalkLength = 0 THEN Null ELSE Walk[WalkLength]
    /\ \A i \in 1 .. WalkLength :
          prev[Walk[i]] = IF i = 1 THEN Null ELSE Walk[i - 1]

-----------------------------------------------------------------------------
(* cppforge::data_structure::Queue: singly linked; head_ owns the nodes and *)
(* tail_ is a plain pointer to the last.  Two queues, which may be swapped, *)
(* copied and moved from one to the other: head, tail, list_size and        *)
(* contents are those of each queue.                                        *)

Queue_vars == <<data, next, head, tail, list_size, contents>>

RECURSIVE Chain(_)
Chain(n) == IF n = Null THEN <<>> ELSE <<n>> \o Chain(next[n])

Free == Nodes \ UNION {{Chain(head[q])[i] : i \in DOMAIN Chain(head[q])} : q \in Queues}

(* The i-th of the nodes not in use. *)
Unused(i) == CHOOSE n \in Free : Cardinality({m \in Free : m < n}) = i - 1

Queue_push(q, v) ==
    /\ Free # {}
    /\ data' = [data EXCEPT ![Unused(1)] = v]
    /\ IF tail[q] # Null
       THEN /\ next' = [next EXCEPT ![Unused(1)] = Null, ![tail[q]] = Unused(1)]
            /\ UNCHANGED head
       ELSE /\ next' = [next EXCEPT ![Unused(1)] = Null]
            /\ head' = [head EXCEPT ![q] = Unused(1)]
    /\ tail' = [tail EXCEPT ![q] = Unused(1)]
    /\ list_size' = [list_size EXCEPT ![q] = @ + 1]
    /\ contents' = [contents EXCEPT ![q] = Append(@, v)]

Queue_pop(q) ==
    /\ list_size[q] # 0
    /\ head' = [head EXCEPT ![q] = next[head[q]]]
    /\ tail' = [tail EXCEPT ![q] = IF head'[q] = Null THEN Null ELSE @]
    /\ list_size' = [list_size EXCEPT ![q] = @ - 1]
    /\ contents' = [contents EXCEPT ![q] = Tail(@)]
    /\ UNCHANGED <<data, next>>

Queue_clear(q) ==
    /\ head' = [head EXCEPT ![q] = Null]
    /\ tail' = [tail EXCEPT ![q] = Null]
    /\ list_size' = [list_size EXCEPT ![q] = 0]
    /\ contents' = [contents EXCEPT ![q] = <<>>]
    /\ UNCHANGED <<data, next>>

Queue_swap(q, other) ==
    /\ head' = [head EXCEPT ![q] = head[other], ![other] = head[q]]
    /\ tail' = [tail EXCEPT ![q] = tail[other], ![other] = tail[q]]
    /\ list_size' = [list_size EXCEPT ![q] = list_size[other], ![other] = list_size[q]]
    /\ contents' = [contents EXCEPT ![q] = contents[other], ![other] = contents[q]]
    /\ UNCHANGED <<data, next>>

(* The copy is complete before the nodes that it replaces are freed. *)
Queue_copy(q, other) ==
    LET from == Chain(head[other])
        k == Len(from)
        Place(n) == CHOOSE i \in 1 .. k : Unused(i) = n
        new == {Unused(i) : i \in 1 .. k}
    IN /\ q # other /\ k <= Cardinality(Free)
       /\ data' = [n \in Nodes |-> IF n \in new THEN data[from[Place(n)]] ELSE data[n]]
       /\ next' = [n \in Nodes |-> IF n \notin new THEN next[n]
                                  ELSE IF Place(n) = k THEN Null ELSE Unused(Place(n) + 1)]
       /\ head' = [head EXCEPT ![q] = IF k = 0 THEN Null ELSE Unused(1)]
       /\ tail' = [tail EXCEPT ![q] = IF k = 0 THEN Null ELSE Unused(k)]
       /\ list_size' = [list_size EXCEPT ![q] = list_size[other]]
       /\ contents' = [contents EXCEPT ![q] = contents[other]]

Queue_move_keeps_tail(q, other) ==
    /\ q # other
    /\ head' = [head EXCEPT ![q] = head[other], ![other] = Null]
    /\ tail' = [tail EXCEPT ![q] = tail[other]]
    /\ list_size' = [list_size EXCEPT ![q] = list_size[other], ![other] = 0]
    /\ contents' = [contents EXCEPT ![q] = contents[other], ![other] = <<>>]
    /\ UNCHANGED <<data, next>>
Queue_move(q, other) ==
    /\ q # other
    /\ head' = [head EXCEPT ![q] = head[other], ![other] = Null]
    /\ tail' = [tail EXCEPT ![q] = tail[other], ![other] = Null]
    /\ list_size' = [list_size EXCEPT ![q] = list_size[other], ![other] = 0]
    /\ contents' = [contents EXCEPT ![q] = contents[other], ![other] = <<>>]
    /\ UNCHANGED <<data, next>>

Queue_Init ==
    /\ data = [n \in Nodes |-> CHOOSE v \in Values : TRUE]
    /\ next = [n \in Nodes |-> Null]
    /\ head = [q \in Queues |-> Null] /\ tail = head
    /\ list_size = [q \in Queues |-> 0]
    /\ contents = [q \in Queues |-> <<>>]

Queue_Next ==
    \E q \in Queues :
        \/ \E v \in Values : Queue_push(q, v)
        \/ Queue_pop(q) \/ Queue_clear(q)
        \/ \E other \in Queues :
               Queue_swap(q, other) \/ Queue_copy(q, other) \/ Queue_move(q, other)

(* From head_ on, a queue reads as what was pushed and not popped, and      *)
(* tail_ is the last of its own nodes: after a swap, a copy or a move the   *)
(* next push goes to the queue it is called on, and no node is shared.      *)
QueuesRead ==
    /\ \A q \in Queues :
          LET c == Chain(head[q])
          IN /\ [i \in DOMAIN c |-> data[c[i]]] = contents[q]
             /\ list_size[q] = Len(c)
             /\ tail[q] = IF c = <<>> THEN Null ELSE c[Len(c)]
    /\ \A p, q \in Queues : p # q /\ head[p] # Null => tail[p] # tail[q]

-----------------------------------------------------------------------------
(* cppforge::data_structure::SkipList: a sorted set kept as a tower of     *)
(* linked lists.  A node is known by its key; the header spans all levels. *)
(* The random height of a new node is any height.                          *)

SkipList_vars == <<forward, currentLevel, size, set>>

Levels(h) == 0 .. h - 1
Empty(h) == [i \in Levels(h) |-> Null]
NoTower == Empty(0)

SkipList_TypeOK ==
    /\ \A n \in Keys \cup {Header} : \A i \in DOMAIN forward[n] :
           forward[n][i] \in Keys \cup {Null}
    /\ DOMAIN forward[Header] = Levels(maxLevel)
    /\ currentLevel \in 1 .. maxLevel
    /\ size \in Nat
    /\ set \subseteq Keys

(* From node n on level i as far as the keys are below k. *)
RECURSIVE Along(_, _, _)
Along(n, i, k) ==
    IF forward[n][i] # Null /\ forward[n][i] < k THEN Along(forward[n][i], i, k) ELSE n

(* update[i]: where the descent from the top leaves level i. *)
RECURSIVE Before(_, _)
Before(i, k) ==
    Along(IF i = currentLevel - 1 THEN Header ELSE Before(i + 1, k), i, k)

search(k) == forward[Before(0, k)][0] = k

SkipList_insert(k, newLevel) ==
    LET update == [i \in Levels(newLevel) |->
                      IF i < currentLevel THEN Before(i, k) ELSE Header]
    IN /\ ~ search(k)
       /\ currentLevel' = IF newLevel > currentLevel THEN newLevel ELSE currentLevel
       /\ forward' = [n \in Keys \cup {Header} |->
              IF n = k THEN [i \in Levels(newLevel) |-> forward[update[i]][i]]
              ELSE [i \in DOMAIN forward[n] |->
                       IF i < newLevel /\ update[i] = n THEN k ELSE forward[n][i]]]
       /\ size' = size + 1
       /\ set' = set \cup {k}

(* The levels on which the node of k is unlinked: up to the first level     *)
(* whose predecessor does not point to it.                                  *)
UnlinksBottom(k) == {0}
Unlinks(k) ==
    {i \in Levels(currentLevel) : \A j \in 0 .. i : forward[Before(j, k)][j] = k}

Shrunk(f) ==
    CHOOSE l \in 1 .. currentLevel :
        /\ l = 1 \/ f[Header][l - 1] # Null
        /\ \A j \in l + 1 .. currentLevel : f[Header][j - 1] = Null

SkipList_erase(k) ==
    /\ search(k)
    /\ forward' = [n \in Keys \cup {Header} |->
           IF n = k THEN NoTower
           ELSE [i \in DOMAIN forward[n] |->
                    IF i \in Unlinks(k) /\ Before(i, k) = n THEN forward[k][i]
                    ELSE forward[n][i]]]
    /\ currentLevel' = Shrunk(forward')
    /\ size' = size - 1
    /\ set' = set \ {k}

SkipList_Init ==
    /\ forward = [n \in Keys \cup {Header} |->
                     IF n = Header THEN Empty(maxLevel) ELSE NoTower]
    /\ currentLevel = 1
    /\ size = 0
    /\ set = {}

SkipList_Next ==
    \E k \in Keys : SkipList_erase(k) \/ \E l \in 1 .. maxLevel : SkipList_insert(k, l)


-----------------------------------------------------------------------------
OnLevel(i) == {n \in Keys : i \in DOMAIN forward[n]}

(* Every level is the sorted list of exactly the nodes that reach it, so    *)
(* that search finds the keys inserted and not erased and no others;        *)
(* currentLevel_ is the highest level in use.                               *)
LevelsAreSortedLists ==
    /\ \A i \in Levels(maxLevel) : \A n \in OnLevel(i) \cup {Header} :
           LET later == {m \in OnLevel(i) : m > n}
           IN IF later = {} THEN forward[n][i] = Null
              ELSE forward[n][i] \in later /\ \A m \in later : forward[n][i] <= m
    /\ \A k \in Keys : search(k) <=> k \in set
    /\ size = Cardinality(set)
    /\ \A i \in currentLevel .. maxLevel - 1 : forward[Header][i] = Null
    /\ currentLevel > 1 => forward[Header][currentLevel - 1] # Null
=============================================================================
