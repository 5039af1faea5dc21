----------------------------------- MODULE Caches ---------------------------
(***************************************************************************)
(* hash::LRUCache and cache::LFUCache.                                     *)
(***************************************************************************)
EXTENDS Integers, Sequences, FiniteSets

CONSTANTS
    Keys,
    Values,
    capacity,  \* capacity_
    Front,
    Back,      \* the sentinels head_ and tail_
    Absent,    \* std::nullopt, and the null pointer
    MaxFreq    \* bound: frequencies are not counted past it

VARIABLES
    value,          \* map_: the value of the node of each key, or Absent
    prev,
    next,           \* the links of the nodes and sentinels
    size,           \* size_
    last,           \* the last call and what it answered
    freq_list_map,  \* freq_list_map_: frequency -> its entries
    key_map,        \* key_map_: the frequency of the list a key's place is in
    min_freq,       \* min_freq_
    held,           \* history, per key: the value last put, while it is cached
    uses,           \* history, per key: uses since it was put in the cache
    newer           \* history: pairs of cached keys, the first used after the second

-----------------------------------------------------------------------------
(* cppforge::data_structure::hash::LRUCache: a map that owns the nodes of  *)
(* an intrusive doubly linked list between two sentinels.                  *)
(*                                                                         *)
(* A node is known by its key, since the map owns one node per key.  What  *)
(* the links of a node that is not in the map say is left over from its    *)
(* last use; a node that is created anew starts with null links.           *)

LinkedLRUCache_vars == <<value, prev, next, size, last>>

Linkable == Keys \cup {Front, Back}
Mapped == {k \in Keys : value[k] # Absent}

LinkedLRUCache_TypeOK ==
    /\ value \in [Keys -> Values \cup {Absent}]
    /\ prev \in [Linkable -> Linkable \cup {Absent}]
    /\ next \in [Linkable -> Linkable \cup {Absent}]
    /\ size \in Nat

Answered(op, k, answer) == last' = [op |-> op, key |-> k, answer |-> answer]

-----------------------------------------------------------------------------
(* Pairs of link functions. *)
Links == [prev |-> prev, next |-> next]

remove_node(l, n) ==
    [next |-> [l.next EXCEPT ![l.prev[n]] = l.next[n]],
     prev |-> [l.prev EXCEPT ![l.next[n]] = l.prev[n]]]

add_to_head_one_way(l, n) ==
    [next |-> [l.next EXCEPT ![n] = l.next[Front], ![Front] = n],
     prev |-> [l.prev EXCEPT ![n] = Front]]

add_to_head(l, n) ==
    [next |-> [l.next EXCEPT ![n] = l.next[Front], ![Front] = n],
     prev |-> [l.prev EXCEPT ![n] = Front, ![l.next[Front]] = n]]

move_to_head_unlinked(l, n) == add_to_head(l, n)
move_to_head(l, n) == add_to_head(remove_node(l, n), n)

(* The node's memory is gone: what its links said does not matter. *)
freed(l, n) ==
    [next |-> [l.next EXCEPT ![n] = Absent], prev |-> [l.prev EXCEPT ![n] = Absent]]

SetLinks(l) == prev' = l.prev /\ next' = l.next

-----------------------------------------------------------------------------
LinkedLRUCache_get(k) ==
    \/ /\ k \in Mapped
       /\ SetLinks(move_to_head(Links, k))
       /\ Answered("get", k, value[k])
       /\ UNCHANGED <<value, size>>
    \/ /\ k \notin Mapped
       /\ Answered("get", k, Absent)
       /\ UNCHANGED <<value, prev, next, size>>

put(k, v) ==
    LET lru == prev[Back]
        evicts == size >= capacity /\ lru # Front
    IN \/ /\ k \in Mapped
          /\ value' = [value EXCEPT ![k] = v]
          /\ SetLinks(move_to_head(Links, k))
          /\ Answered("put", k, v)
          /\ UNCHANGED size
       \/ /\ k \notin Mapped /\ evicts
          /\ value' = [value EXCEPT ![lru] = Absent, ![k] = v]
          /\ SetLinks(add_to_head(freed(remove_node(Links, lru), lru), k))
          /\ Answered("put", k, v)
          /\ UNCHANGED size
       \/ /\ k \notin Mapped /\ ~ evicts
          /\ value' = [value EXCEPT ![k] = v]
          /\ SetLinks(add_to_head(Links, k))
          /\ size' = size + 1
          /\ Answered("put", k, v)

LinkedLRUCache_remove(k) ==
    \/ /\ k \in Mapped
       /\ SetLinks(freed(remove_node(Links, k), k))
       /\ value' = [value EXCEPT ![k] = Absent]
       /\ size' = size - 1
       /\ Answered("remove", k, TRUE)
    \/ /\ k \notin Mapped
       /\ Answered("remove", k, FALSE)
       /\ UNCHANGED <<value, prev, next, size>>

EmptyLinks ==
    [next |-> [n \in Linkable |-> IF n = Front THEN Back ELSE Absent],
     prev |-> [n \in Linkable |-> IF n = Back THEN Front ELSE Absent]]

LinkedLRUCache_clear ==
    /\ value' = [k \in Keys |-> Absent]
    /\ SetLinks(EmptyLinks)
    /\ size' = 0
    /\ Answered("clear", Absent, Absent)

LinkedLRUCache_Init ==
    /\ value = [k \in Keys |-> Absent]
    /\ prev = EmptyLinks.prev
    /\ next = EmptyLinks.next
    /\ size = 0
    /\ last = [op |-> "clear", key |-> Absent, answer |-> Absent]

LinkedLRUCache_Next ==
    \/ \E k \in Keys : LinkedLRUCache_get(k) \/ LinkedLRUCache_remove(k)
    \/ \E k \in Keys, v \in Values : put(k, v)
    \/ LinkedLRUCache_clear


-----------------------------------------------------------------------------
(* The nodes from head_ to tail_, at most one per key. *)
Walk[n \in 0 .. Cardinality(Keys) + 1] ==
    IF n = 0 THEN Front
    ELSE IF Walk[n - 1] \in {Back, Absent} THEN Walk[n - 1] ELSE next[Walk[n - 1]]
Length == Cardinality({n \in DOMAIN Walk : Walk[n] \in Keys})
cache_list == [i \in 1 .. Length |-> [key |-> Walk[i], value |-> value[Walk[i]]]]

(* Going forward and going backward the list visits the mapped nodes and no *)
(* others, and size_ counts them.                                           *)
LinksMatchTheMap ==
    /\ {cache_list[i].key : i \in 1 .. Length} = Mapped
    /\ \A n \in Mapped \cup {Front} : next[n] # Absent /\ prev[next[n]] = n
    /\ Walk[Length + 1] = Back
    /\ size = Cardinality(Mapped)

(* The linked list implements the least recently used policy: each call     *)
(* answers, reorders and evicts as cache::LRUCache does.                    *)
LRU == INSTANCE LRUCache
IsLeastRecentlyUsed == [LRU!Next]_(LRU!vars)

-----------------------------------------------------------------------------
(* cppforge::cache::LFUCache: one list of entries per frequency of use,    *)
(* each with the most recent use in front, a map from keys to their places *)
(* and the lowest frequency min_freq_, which tells whom to evict.          *)

LFUCache_vars == <<freq_list_map, key_map, min_freq, held, uses, newer>>

Entry == [key : Keys, value : Values]
Present(k) == key_map[k] # Absent
Cached == {k \in Keys : Present(k)}
At(l, k) == CHOOSE i \in DOMAIN l : l[i].key = k
Erased(l, i) == [j \in 1 .. Len(l) - 1 |-> IF j < i THEN l[j] ELSE l[j + 1]]
EntryOf(k) ==
    freq_list_map[key_map[k]][At(freq_list_map[key_map[k]], k)]

LFUCache_TypeOK ==
    /\ DOMAIN freq_list_map \subseteq 1 .. MaxFreq
    /\ \A f \in DOMAIN freq_list_map : freq_list_map[f] \in Seq(Entry)
    /\ key_map \in [Keys -> 1 .. MaxFreq \cup {Absent}]
    /\ min_freq \in 0 .. MaxFreq
    /\ held \in [Keys -> Values \cup {Absent}]
    /\ uses \in [Keys -> 0 .. MaxFreq]
    /\ newer \subseteq Keys \X Keys

-----------------------------------------------------------------------------
(* The lists with the minimum, as the private methods change them.         *)
Lists == [lists |-> freq_list_map, min |-> min_freq]
Least(F) == IF F = {} THEN 0 ELSE CHOOSE f \in F : \A g \in F : f <= g

remove_empty_keeps_min(c, f) ==
    IF f \in DOMAIN c.lists /\ c.lists[f] = <<>>
    THEN [lists |-> [g \in DOMAIN c.lists \ {f} |-> c.lists[g]], min |-> c.min]
    ELSE c

remove_empty_freq_list(c, f) ==
    IF f \in DOMAIN c.lists /\ c.lists[f] = <<>>
    THEN [lists |-> [g \in DOMAIN c.lists \ {f} |-> c.lists[g]],
          min |-> IF f = c.min THEN Least(DOMAIN c.lists \ {f}) ELSE c.min]
    ELSE c

taken_out(c, f, k) ==
    LET left == Erased(c.lists[f], At(c.lists[f], k))
    IN remove_empty_freq_list([lists |-> [c.lists EXCEPT ![f] = left], min |-> c.min], f)

put_in_front(c, f, e) ==
    LET old == IF f \in DOMAIN c.lists THEN c.lists[f] ELSE <<>>
    IN [lists |-> [g \in DOMAIN c.lists \cup {f} |->
                       IF g = f THEN <<e>> \o old ELSE c.lists[g]],
        min |-> c.min]

(* One more use of key k, whose entry becomes e. *)
update_frequency(c, k, e) ==
    LET f == key_map[k] + 1
        moved == put_in_front(taken_out(c, key_map[k], k), f, e)
    IN IF moved.min = 0 \/ f < moved.min THEN [moved EXCEPT !.min = f] ELSE moved

VictimFront(c) == c.lists[c.min][1].key
Victim(c) == c.lists[c.min][Len(c.lists[c.min])].key

SetLists(c) == freq_list_map' = c.lists /\ min_freq' = c.min
Without(K) == {p \in newer : p[1] \notin K /\ p[2] \notin K}
Touch(k) == newer' = Without({k}) \cup {<<k, j>> : j \in Cached \ {k}}

-----------------------------------------------------------------------------
(* get and put of a key that is present; get of a const cache, and get of  *)
(* a key that is absent, change nothing.                                   *)
Use(k, e) ==
    /\ Present(k)
    /\ key_map[k] < MaxFreq
    /\ SetLists(update_frequency(Lists, k, e))
    /\ key_map' = [key_map EXCEPT ![k] = @ + 1]
    /\ held' = [held EXCEPT ![k] = e.value]
    /\ uses' = [uses EXCEPT ![k] = @ + 1]
    /\ Touch(k)

LFUCache_get(k) == Present(k) /\ Use(k, EntryOf(k))
put_update(k, v) == Use(k, [key |-> k, value |-> v])

(* A new key: its list is list 1, and 1 is the least frequency. *)
PutNew(c, dropped, k, v) ==
    LET new == put_in_front(c, 1, [key |-> k, value |-> v])
    IN /\ SetLists([new EXCEPT !.min = 1])
       /\ key_map' = [[j \in Keys |-> IF j \in dropped THEN Absent ELSE key_map[j]]
                          EXCEPT ![k] = 1]
       /\ uses' = [[j \in Keys |-> IF j \in dropped THEN 0 ELSE uses[j]]
                       EXCEPT ![k] = 1]
       /\ newer' = Without(dropped) \cup {<<k, j>> : j \in Cached \ dropped}
       /\ held' = [[j \in Keys |-> IF j \in dropped THEN Absent ELSE held[j]]
                       EXCEPT ![k] = v]

put_new(k, v) ==
    /\ ~ Present(k)
    /\ Cardinality(Cached) < capacity
    /\ PutNew(Lists, {}, k, v)

(* put would answer false if there were no list for min_freq_: PutSucceeds. *)
put_evict(k, v) ==
    /\ ~ Present(k)
    /\ Cardinality(Cached) >= capacity
    /\ min_freq \in DOMAIN freq_list_map
    /\ LET victim == Victim(Lists)
       IN PutNew(taken_out(Lists, min_freq, victim), {victim}, k, v)

LFUCache_remove(k) ==
    /\ Present(k)
    /\ SetLists(taken_out(Lists, key_map[k], k))
    /\ key_map' = [key_map EXCEPT ![k] = Absent]
    /\ uses' = [uses EXCEPT ![k] = 0]
    /\ newer' = Without({k})
    /\ held' = [held EXCEPT ![k] = Absent]

NoLists == [f \in {} |-> <<>>]

LFUCache_clear ==
    /\ freq_list_map' = NoLists
    /\ key_map' = [k \in Keys |-> Absent]
    /\ min_freq' = 0
    /\ uses' = [k \in Keys |-> 0]
    /\ newer' = {}
    /\ held' = [k \in Keys |-> Absent]

LFUCache_Init ==
    /\ freq_list_map = NoLists
    /\ key_map = [k \in Keys |-> Absent]
    /\ min_freq = 0
    /\ held = [k \in Keys |-> Absent]
    /\ uses = [k \in Keys |-> 0]
    /\ newer = {}

LFUCache_Next ==
    \/ \E k \in Keys : LFUCache_get(k) \/ LFUCache_remove(k)
    \/ \E k \in Keys, v \in Values :
           put_update(k, v) \/ put_new(k, v) \/ put_evict(k, v)
    \/ LFUCache_clear


-----------------------------------------------------------------------------
(* min_freq_ is the lowest frequency there is a list for, no list is empty, *)
(* each key is in the list its place says, once and nowhere else, with the  *)
(* value last put.                                                          *)
ListsMatchTheMap ==
    /\ min_freq = Least(DOMAIN freq_list_map)
    /\ \A f \in DOMAIN freq_list_map :
          /\ freq_list_map[f] # <<>>
          /\ \A i \in DOMAIN freq_list_map[f] :
                LET k == freq_list_map[f][i].key
                IN key_map[k] = f /\ At(freq_list_map[f], k) = i
    /\ \A k \in Cached :
          /\ key_map[k] \in DOMAIN freq_list_map
          /\ EntryOf(k) = [key |-> k, value |-> held[k]]
    /\ Cardinality(Cached) <= capacity

(* A put that drops a key drops one with the fewest uses and, among those,  *)
(* the one used longest ago: the comment in evict_lfu_item promises it.     *)
EvictsLeastFrequentlyUsed ==
    \A k \in Keys :
        (Present(k) /\ ~ Present(k)' /\ \E j \in Keys : ~ Present(j) /\ Present(j)') =>
            \A j \in Cached \ {k} :
               \/ uses[k] < uses[j]
               \/ uses[k] = uses[j] /\ <<j, k>> \in newer

(* evict_lfu_item always finds a victim: put never answers false. *)
PutSucceeds ==
    Cardinality(Cached) >= capacity => min_freq \in DOMAIN freq_list_map
=============================================================================
