-------------------------- MODULE ConcurrentHashMap --------------------------
(***************************************************************************)
(* ConcurrentHashMap: segments with their own lock, each a table of chains *)
(* that doubles.  An operation on a key is one step, under the lock of its *)
(* segment; clear and for_each lock one segment after the other.           *)
(*                                                                         *)
(* A chain is the set of its nodes: in which order they hang matters to a  *)
(* scan only where a key hangs twice, and then the scan shows both here.   *)
(***************************************************************************)
EXTENDS Integers, FiniteSets

CONSTANTS
    Keys, Values, Threads,
    hasher,                     \* hasher[k]
    SEGMENT_COUNT,              \* 1 << SegmentBits
    INITIAL_SEGMENT_CAPACITY,
    max_load_factor,            \* in per cent
    MaxCapacity                 \* bound: a full table of this size is not inserted into

VARIABLES
    buckets,    \* per segment, the chain of each bucket: pairs of key and value
    capacity,   \* per segment
    size,       \* per segment
    walk,       \* per thread: the call of clear or for_each it is in
    map         \* history: what the calls stored

vars == <<buckets, capacity, size, walk, map>>

Segments == 0 .. SEGMENT_COUNT - 1

segment_for(k) == hasher[k] % SEGMENT_COUNT
bucket_index(k, cap) == (hasher[k] \div SEGMENT_COUNT) % cap

(* The nodes of the key that a scan of its chain meets. *)
Chain(k) == buckets[segment_for(k)][bucket_index(k, capacity[segment_for(k)])]
NodesOf(k) == {e \in Chain(k) : e[1] = k}

get(k) == {e[2] : e \in NodesOf(k)}

need_rehash(n, cap) == n * 100 >= max_load_factor * cap

(* Every node goes to the chain that its hash has in a table twice as long. *)
rehashInPlace(table, cap) ==
    [b \in 0 .. 2 * cap - 1 |-> IF b < cap THEN table[b] ELSE {}]
rehash(table, cap) ==
    [b \in 0 .. 2 * cap - 1 |->
        {e \in UNION {table[c] : c \in 0 .. cap - 1} : bucket_index(e[1], 2 * cap) = b}]

(* A walk: the segments still to visit, the keys for_each has shown so far  *)
(* and those it has shown again, and, for the properties, the keys that     *)
(* were there all the time, those that were there at some time, and those   *)
(* that clear has to remove.                                                *)
Walk(op, next, shown, again, all, some, doomed) ==
    [op |-> op, next |-> next, shown |-> shown, again |-> again,
     all |-> all, some |-> some, doomed |-> doomed]
NoWalk == Walk("none", 0, {}, {}, {}, {}, {})

Init ==
    /\ buckets = [s \in Segments |-> [b \in 0 .. INITIAL_SEGMENT_CAPACITY - 1 |-> {}]]
    /\ capacity = [s \in Segments |-> INITIAL_SEGMENT_CAPACITY]
    /\ size = [s \in Segments |-> 0]
    /\ walk = [t \in Threads |-> NoWalk]
    /\ map = [k \in Keys |-> {}]

Idle(t) == walk[t].op = "none"

(* How a walk sees that keys were stored or removed, and how it goes on.    *)
Seen(w, stored, removed) ==
    Walk(w.op, w.next, w.shown, w.again, w.all \ removed, w.some \cup stored, w.doomed \ stored)
Advanced(w, keys, twice) ==
    Walk(w.op, w.next + 1, w.shown \cup keys, w.again \cup twice, w.all, w.some, w.doomed)

Others(stored, removed) ==
    [t \in Threads |-> IF Idle(t) THEN walk[t] ELSE Seen(walk[t], stored, removed)]

(* The key is in the map: insert leaves it alone.  The value is assigned to *)
(* its node.                                                                *)
Assign(k, v) ==
    LET s == segment_for(k)
        b == bucket_index(k, capacity[s])
    IN /\ NodesOf(k) # {}
       /\ buckets' = [buckets EXCEPT ![s] =
                         [@ EXCEPT ![b] = (Chain(k) \ NodesOf(k)) \cup {<<k, v>>}]]
       /\ map' = [map EXCEPT ![k] = {v}]
       /\ UNCHANGED <<capacity, size, walk>>

(* A new node, and then the table may double. *)
Add(k, v) ==
    LET s == segment_for(k)
        cap == capacity[s]
        longer == [buckets[s] EXCEPT ![bucket_index(k, cap)] = Chain(k) \cup {<<k, v>>}]
    IN /\ NodesOf(k) = {}
       /\ size' = [size EXCEPT ![s] = size[s] + 1]
       /\ \/ /\ ~need_rehash(size[s] + 1, cap)
             /\ buckets' = [buckets EXCEPT ![s] = longer]
             /\ UNCHANGED capacity
          \/ /\ need_rehash(size[s] + 1, cap) /\ cap < MaxCapacity
             /\ buckets' = [buckets EXCEPT ![s] = rehash(longer, cap)]
             /\ capacity' = [capacity EXCEPT ![s] = 2 * cap]
       /\ map' = [map EXCEPT ![k] = {v}]
       /\ walk' = Others({k}, {})

insert(t, k, v) == Idle(t) /\ Add(k, v)
insert_or_assign(t, k, v) == Idle(t) /\ (Add(k, v) \/ Assign(k, v))

erase(t, k) ==
    LET s == segment_for(k)
        b == bucket_index(k, capacity[s])
    IN /\ Idle(t) /\ NodesOf(k) # {}
       /\ buckets' = [buckets EXCEPT ![s] = [@ EXCEPT ![b] = Chain(k) \ NodesOf(k)]]
       /\ size' = [size EXCEPT ![s] = size[s] - 1]
       /\ map' = [map EXCEPT ![k] = {}]
       /\ walk' = Others({}, {k})
       /\ UNCHANGED capacity

Present == {k \in Keys : map[k] # {}}

Begin(t, op) ==
    /\ Idle(t) /\ Present # {}
    /\ walk' = [walk EXCEPT ![t] = Walk(op, 0, {}, {}, Present, Present, Present)]
    /\ UNCHANGED <<buckets, capacity, size, map>>

(* One segment of clear: the chains are emptied, the table keeps its size.  *)
clear(t) ==
    LET s == walk[t].next
        gone == {k \in Present : segment_for(k) = s}
    IN /\ walk[t].op = "clear" /\ s \in Segments
       /\ buckets' = [buckets EXCEPT ![s] = [b \in 0 .. capacity[s] - 1 |-> {}]]
       /\ size' = [size EXCEPT ![s] = 0]
       /\ map' = [k \in Keys |-> IF k \in gone THEN {} ELSE map[k]]
       /\ walk' = [Others({}, gone) EXCEPT ![t] = Advanced(Seen(walk[t], {}, gone), {}, {})]
       /\ UNCHANGED capacity

(* One segment of for_each_impl: a key in two nodes is shown twice. *)
for_each_impl(t) ==
    LET s == walk[t].next
        In(k, b) == {e \in buckets[s][b] : e[1] = k}
        keys == {k \in Keys : \E b \in 0 .. capacity[s] - 1 : In(k, b) # {}}
        twice == {k \in keys : \E b, c \in 0 .. capacity[s] - 1 :
                     \E e \in In(k, b), f \in In(k, c) : b # c \/ e # f}
    IN /\ walk[t].op = "each" /\ s \in Segments
       /\ walk' = [walk EXCEPT ![t] =
                      Advanced(walk[t], keys, twice \cup (keys \cap walk[t].shown))]
       /\ UNCHANGED <<buckets, capacity, size, map>>

End(t) ==
    /\ walk[t].op # "none" /\ walk[t].next \notin Segments
    /\ walk' = [walk EXCEPT ![t] = NoWalk]
    /\ UNCHANGED <<buckets, capacity, size, map>>

Next ==
    \E t \in Threads :
        \/ \E k \in Keys : erase(t, k)
        \/ \E k \in Keys, v \in Values : insert(t, k, v) \/ insert_or_assign(t, k, v)
        \/ Begin(t, "clear") \/ Begin(t, "each") \/ clear(t) \/ for_each_impl(t) \/ End(t)

-----------------------------------------------------------------------------
(* get answers what was stored last for the key, through every rehash, and  *)
(* size_ counts the nodes, without which a table would stop growing.        *)
FindsExactlyTheMap ==
    /\ \A k \in Keys : get(k) = map[k]
    /\ \A s \in Segments : size[s] = Cardinality({k \in Present : segment_for(k) = s})

(* At its end for_each has shown every key that was there all the time, no  *)
(* key twice and none that never was there; a clear has left only keys that *)
(* were stored since it began.                                              *)
WalksAreConsistent ==
    \A t \in Threads : walk[t].next \notin Segments =>
        LET w == walk[t] IN
        /\ w.op = "each" => w.all \subseteq w.shown /\ w.shown \subseteq w.some /\ w.again = {}
        /\ w.op = "clear" => w.doomed \cap Present = {}

(* What is true between the steps: the chains hold exactly the map, each    *)
(* key where its hash puts it, and a walk has dealt with the segments it    *)
(* has passed.                                                              *)
Table(s, cap, m) ==
    [b \in 0 .. cap - 1 |->
        {e \in Keys \X Values : /\ e[2] \in m[e[1]]
                                /\ segment_for(e[1]) = s /\ bucket_index(e[1], cap) = b}]

ChainsHoldTheMap ==
    /\ map \in [Keys -> SUBSET Values]
    /\ \A k \in Keys : \A v, w \in map[k] : v = w
    /\ capacity \in [Segments -> Nat \ {0}]
    /\ DOMAIN buckets = Segments
    /\ \A s \in Segments : buckets[s] = Table(s, capacity[s], map)

SizesCount ==
    /\ DOMAIN size = Segments
    /\ \A s \in Segments : size[s] = Cardinality({k \in Present : segment_for(k) = s})

WalkHasPassed(w, present) ==
    /\ w.next \in Nat
    /\ w.op = "each" =>
          /\ w.all \subseteq present /\ present \subseteq w.some
          /\ \A k \in w.all : segment_for(k) < w.next => k \in w.shown
          /\ \A k \in w.shown : k \in Keys /\ segment_for(k) < w.next
          /\ w.shown \subseteq w.some /\ w.again = {}
    /\ w.op = "clear" => \A k \in w.doomed \cap present : segment_for(k) >= w.next

IInv ==
    /\ ChainsHoldTheMap /\ SizesCount
    /\ DOMAIN walk = Threads
    /\ \A t \in Threads : WalkHasPassed(walk[t], Present)
=============================================================================
