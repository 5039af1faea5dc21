--------------------------- MODULE MultiLevelCache ---------------------------
(***************************************************************************)
(* MultiLevelCache of the cache starter: an LRUCache in front of a second  *)
(* level behind IL2CacheBackend.  The backend is external: its put and     *)
(* remove may fail and answer false, which MultiLevelCache does not look   *)
(* at.  Every operation holds mutex_ throughout.                           *)
(***************************************************************************)
EXTENDS LRUCache

VARIABLES
    l2,         \* what the backend holds for each key
    truth,      \* history: what was put last and not removed
    missed      \* history: the keys whose last write the backend refused

mlvars == <<cache_list, last, l2, truth, missed>>

MLInit ==
    /\ Init
    /\ l2 = [k \in Keys |-> Absent]
    /\ truth = [k \in Keys |-> Absent]
    /\ missed = {}

(* A write to the backend, which takes it or refuses it. *)
Backend(k, v) ==
    \/ l2' = [l2 EXCEPT ![k] = v] /\ missed' = missed \ {k}
    \/ UNCHANGED l2 /\ missed' = missed \cup {k}

Lookup(k) ==
    IF k \in Held(cache_list) THEN cache_list[At(cache_list, k)].value ELSE l2[k]

(* A hit in the second level is put into the first, which may evict. *)
getBoth(k) ==
    /\ IF k \notin Held(cache_list) /\ l2[k] # Absent
       THEN put(k, l2[k])
       ELSE get(k)
    /\ UNCHANGED <<l2, truth, missed>>

putBoth(k, v) ==
    /\ put(k, v)
    /\ Backend(k, v)
    /\ truth' = [truth EXCEPT ![k] = v]

(* The answer is that of the first level only. *)
removeFirst(k) ==
    /\ remove(k)
    /\ UNCHANGED <<l2, missed>>
    /\ truth' = [truth EXCEPT ![k] = Absent]
removeBoth(k) ==
    /\ remove(k)
    /\ Backend(k, Absent)
    /\ truth' = [truth EXCEPT ![k] = Absent]

clearBoth ==
    /\ clear
    /\ l2' = [k \in Keys |-> Absent]
    /\ truth' = [k \in Keys |-> Absent]
    /\ missed' = {}

MLNext ==
    \/ \E k \in Keys : getBoth(k) \/ removeBoth(k)
    \/ \E k \in Keys, v \in Values : putBoth(k, v)
    \/ clearBoth

-----------------------------------------------------------------------------
(* get answers what was put last and not removed, whichever level has it,   *)
(* unless the backend refused the last write of the key; the first level    *)
(* never exceeds its capacity when an entry comes back from the second.     *)
LevelsAgree ==
    /\ \A k \in Keys \ missed : Lookup(k) = truth[k]
    /\ Len(cache_list) <= capacity

(* What is true between the steps: the list holds a key once, and both      *)
(* levels have what was put last, except where the backend refused it.      *)
Agree(list, second, put_last, stale) ==
    /\ list \in Seq(Entry) /\ Len(list) <= capacity
    /\ \A i, j \in DOMAIN list : list[i].key = list[j].key => i = j
    /\ second \in [Keys -> Values \cup {Absent}] /\ put_last \in [Keys -> Values \cup {Absent}]
    /\ \A k \in Keys \ stale :
          /\ second[k] = put_last[k]
          /\ \A i \in DOMAIN list : list[i].key = k => list[i].value = put_last[k]

MLIInv == Agree(cache_list, l2, truth, missed)
=============================================================================
