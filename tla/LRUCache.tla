------------------------------ MODULE LRUCache ------------------------------
(***************************************************************************)
(* cppforge::cache::LRUCache: a list of entries in the order of their last *)
(* use and a map from keys to their places in it.  The list and the map    *)
(* always hold the same keys, so the sequence stands for both.             *)
(***************************************************************************)
EXTENDS Integers, Sequences, SequencesExt

CONSTANTS
    Keys, Values,
    capacity,      \* capacity_
    Absent         \* std::nullopt

VARIABLES
    cache_list,    \* cache_list_: the entries, most recently used first
    last           \* the last call and what it answered

vars == <<cache_list, last>>

Entry == [key : Keys, value : Values]
Held(l) == {l[i].key : i \in DOMAIN l}
At(l, k) == CHOOSE i \in DOMAIN l : l[i].key = k
Without(l, k) == IF k \in Held(l) THEN RemoveAt(l, At(l, k)) ELSE l

Answered(op, k, answer) == last' = [op |-> op, key |-> k, answer |-> answer]

(* Both overloads of get: the list is mutable, and the const one moves the  *)
(* entry to the front as well.                                              *)
get(k) ==
    \/ /\ k \in Held(cache_list)
       /\ LET e == cache_list[At(cache_list, k)]
          IN /\ cache_list' = <<e>> \o Without(cache_list, k)
             /\ Answered("get", k, e.value)
    \/ /\ k \notin Held(cache_list)
       /\ Answered("get", k, Absent)
       /\ UNCHANGED cache_list

put(k, v) ==
    LET e == [key |-> k, value |-> v]
        full == k \notin Held(cache_list) /\ Len(cache_list) >= capacity
        rest == IF full THEN Front(cache_list) ELSE Without(cache_list, k)
    IN /\ cache_list' = <<e>> \o rest
       /\ Answered("put", k, v)

remove(k) ==
    /\ cache_list' = Without(cache_list, k)
    /\ Answered("remove", k, k \in Held(cache_list))

clear ==
    /\ cache_list' = <<>>
    /\ Answered("clear", Absent, Absent)

Init ==
    /\ cache_list = <<>>
    /\ last = [op |-> "clear", key |-> Absent, answer |-> Absent]

Next ==
    \/ \E k \in Keys : get(k) \/ remove(k)
    \/ \E k \in Keys, v \in Values : put(k, v)
    \/ clear

Spec == Init /\ [][Next]_vars
=============================================================================
