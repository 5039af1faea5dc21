-------------------------- MODULE RobinHoodHashMap --------------------------
(***************************************************************************)
(* cppforge::data_structure::hash::RobinHoodHashMap: open addressing with  *)
(* linear probing, where an entry farther from its ideal slot takes the    *)
(* slot of one that is nearer, and erasing shifts the run behind it back.  *)
(*                                                                         *)
(* The hash of a key is a constant; the mask of the code is a modulus.  A  *)
(* load factor is a percentage.  One iterator is followed: it is dropped   *)
(* by the operations that invalidate it.                                   *)
(***************************************************************************)
EXTENDS Integers, FiniteSets

CONSTANTS
    Keys, Values,
    Default,           \* V{}
    hash,              \* hasher_: Keys -> Nat
    INITIAL_CAPACITY,
    LoadFactors,       \* arguments of max_load_factor
    Counts,            \* arguments of reserve and rehash
    AnySubscript,      \* FALSE: operator[] adds no key by displacing another
    Absent             \* no entry, or no iterator

VARIABLES
    slots,             \* slots_: [0 .. bucket_count - 1 -> entry or Absent]
    size,              \* size_
    max_load,          \* max_load_factor_, in percent
    cursor,            \* an iterator: the slot it points to
    map,               \* history: what the calls so far should have stored
    visited            \* history: keys the iterator has shown

vars == <<slots, size, max_load, cursor, map, visited>>

Entry == [key : Keys, value : Values, psr : Nat]
Cap(t) == Cardinality(DOMAIN t)
NoSlots == [i \in {} |-> Absent]
Empties(n) == [i \in 0 .. n - 1 |-> Absent]

TypeOK ==
    /\ \A i \in DOMAIN slots : slots[i] = Absent \/ slots[i] \in Entry
    /\ size \in Nat
    /\ max_load \in LoadFactors
    /\ cursor \in Nat \cup {Absent}
    /\ map \in [Keys -> Values \cup {Absent}]
    /\ visited \subseteq Keys

-----------------------------------------------------------------------------
ideal_index(t, k) == hash[k] % Cap(t)

(* An entry at distance d takes the slot of s, which is nearer to its own. *)
TakesSlotLate(s, d) == d > s.psr + 1
TakesSlot(s, d) == d > s.psr

(* The loops of insert_entry and insert_no_resize, from slot i on, carrying *)
(* entry e at distance d.  key is the key looked for (Absent: none).  An    *)
(* entry taken out of its slot is carried on.                               *)
RECURSIVE Probe(_, _, _, _, _)
Probe(t, i, d, e, key) ==
    LET s == t[i]
        here == [t EXCEPT ![i] = [e EXCEPT !.psr = d]]
        next == (i + 1) % Cap(t)
    IN CASE s = Absent -> [slots |-> here, at |-> i, inserted |-> TRUE]
         [] s # Absent /\ s.key = key ->
                [slots |-> t, at |-> i, inserted |-> FALSE]
         [] s # Absent /\ s.key # key /\ TakesSlot(s, d) ->
                Probe(here, next, s.psr + 1, s, key)
         [] OTHER -> Probe(t, next, d + 1, e, key)

insert_entry(t, k, v) ==
    Probe(t, ideal_index(t, k), 0, [key |-> k, value |-> v, psr |-> 0], k)
insert_no_resize(t, e) ==
    Probe(t, ideal_index(t, e.key), 0, [e EXCEPT !.psr = 0], Absent).slots

(* find_slot stops at an empty slot or at an entry nearer to its ideal slot *)
(* than the key would be.                                                   *)
StopsTooEarly(s, d) == d >= s.psr
StopsAt(s, d) == d > s.psr

RECURSIVE FindFrom(_, _, _, _)
FindFrom(t, k, i, d) ==
    IF t[i] = Absent \/ StopsAt(t[i], d) THEN Absent
    ELSE IF t[i].key = k THEN i
    ELSE FindFrom(t, k, (i + 1) % Cap(t), d + 1)
find_slot(t, k) ==
    IF Cap(t) = 0 THEN Absent ELSE FindFrom(t, k, ideal_index(t, k), 0)

-----------------------------------------------------------------------------
next_power_of_two(n) ==
    CHOOSE p \in {2^i : i \in 0 .. n} : p >= n /\ \A i \in 0 .. n : 2^i >= n => p <= 2^i

NewCapacity(n) ==
    LET p == next_power_of_two(n)
    IN IF p < INITIAL_CAPACITY THEN INITIAL_CAPACITY ELSE p

(* The entries are moved in the order of their old slots. *)
RECURSIVE Moved(_, _, _)
Moved(old, i, t) ==
    IF i = Cap(old) THEN t
    ELSE Moved(old, i + 1, IF old[i] = Absent THEN t ELSE insert_no_resize(t, old[i]))

rehashed(t, n) ==
    IF NewCapacity(n) = Cap(t) THEN t ELSE Moved(t, 0, Empties(NewCapacity(n)))

TooFull(t, n) == (n + 1) * 100 > max_load * Cap(t)

ensured(t) ==
    IF Cap(t) = 0 THEN rehashed(t, INITIAL_CAPACITY)
    ELSE IF TooFull(t, size) THEN rehashed(t, 2 * Cap(t)) ELSE t

-----------------------------------------------------------------------------
DropIterator == cursor' = Absent /\ visited' = {}

insert(k, v) ==
    LET r == insert_entry(ensured(slots), k, v)
    IN /\ slots' = r.slots
       /\ size' = IF r.inserted THEN size + 1 ELSE size
       /\ map' = IF map[k] = Absent THEN [map EXCEPT ![k] = v] ELSE map
       /\ DropIterator
       /\ UNCHANGED max_load

insert_or_assign(k, v) ==
    LET i == find_slot(slots, k)
    IN \/ /\ i # Absent
          /\ slots' = [slots EXCEPT ![i].value = v]
          /\ map' = [map EXCEPT ![k] = v]
          /\ DropIterator
          /\ UNCHANGED <<size, max_load>>
       \/ /\ i = Absent
          /\ insert(k, v)

(* m[k] = v: the assignment goes to the slot insert returned, which after a *)
(* displacement is the slot where the last entry carried came to rest.      *)
subscript(k, v) ==
    LET r == insert_entry(ensured(slots), k, Default)
    IN /\ AnySubscript \/ r.slots[r.at].key = k
       /\ slots' = [r.slots EXCEPT ![r.at].value = v]
       /\ size' = IF r.inserted THEN size + 1 ELSE size
       /\ map' = [map EXCEPT ![k] = v]
       /\ DropIterator
       /\ UNCHANGED max_load

MayShiftAny(e) == e # Absent
MayShift(e) == e # Absent /\ e.psr > 0

(* Backward shift: the run behind slot i moves one slot back. *)
RECURSIVE erase_at(_, _)
erase_at(t, i) ==
    LET next == (i + 1) % Cap(t)
    IN IF MayShift(t[next])
       THEN erase_at([t EXCEPT ![i] = [t[next] EXCEPT !.psr = @ - 1]], next)
       ELSE [t EXCEPT ![i] = Absent]

erase(k) ==
    LET i == find_slot(slots, k)
    IN /\ i # Absent
       /\ slots' = erase_at(slots, i)
       /\ size' = size - 1
       /\ map' = [map EXCEPT ![k] = Absent]
       /\ DropIterator
       /\ UNCHANGED max_load

clear ==
    /\ slots' = Empties(Cap(slots))
    /\ size' = 0
    /\ map' = [k \in Keys |-> Absent]
    /\ DropIterator
    /\ UNCHANGED max_load

(* rehash does not end when the entries do not fit in the new slots: the    *)
(* caller must ask for enough.                                              *)
Rehash(n) ==
    /\ size <= NewCapacity(n)
    /\ slots' = rehashed(slots, n)
    /\ DropIterator
    /\ UNCHANGED <<size, max_load, map>>

rehash(n) == Rehash(n)
reserve(n) == Rehash(next_power_of_two((n * 100) \div max_load))

(* The rehash to bucket_count() that follows does nothing. *)
set_max_load_factor(m) ==
    /\ max_load' = m
    /\ UNCHANGED <<slots, size, cursor, map, visited>>

-----------------------------------------------------------------------------
(* Iteration; the position behind the last slot is the end.                 *)
find_first_occupied_from(t, i) ==
    CHOOSE j \in i .. Cap(t) :
        /\ j = Cap(t) \/ t[j] # Absent
        /\ \A m \in i .. j - 1 : t[m] = Absent

Shown(t, i, seen) == seen \cup (IF i = Cap(t) THEN {} ELSE {t[i].key})

PointAt(t, i, seen) ==
    LET j == find_first_occupied_from(t, i)
    IN cursor' = j /\ visited' = Shown(t, j, seen)

begin ==
    /\ PointAt(slots, 0, {})
    /\ UNCHANGED <<slots, size, max_load, map>>

Dereferenceable == cursor # Absent /\ cursor < Cap(slots)

advance ==
    /\ Dereferenceable
    /\ PointAt(slots, cursor + 1, visited)
    /\ UNCHANGED <<slots, size, max_load, map>>

(* erase(it) looks for the next entry from the erased slot on: the shift    *)
(* may have moved it there.                                                 *)
erase_iter_skips ==
    /\ Dereferenceable
    /\ map' = [map EXCEPT ![slots[cursor].key] = Absent]
    /\ slots' = erase_at(slots, cursor)
    /\ size' = size - 1
    /\ PointAt(slots', cursor + 1, visited)
    /\ UNCHANGED max_load

erase_iter ==
    /\ Dereferenceable
    /\ map' = [map EXCEPT ![slots[cursor].key] = Absent]
    /\ slots' = erase_at(slots, cursor)
    /\ size' = size - 1
    /\ PointAt(slots', cursor, visited)
    /\ UNCHANGED max_load

-----------------------------------------------------------------------------
Init ==
    /\ slots = NoSlots
    /\ size = 0
    /\ max_load = 75
    /\ cursor = Absent
    /\ map = [k \in Keys |-> Absent]
    /\ visited = {}

Next ==
    \/ \E k \in Keys, v \in Values :
           insert(k, v) \/ insert_or_assign(k, v) \/ subscript(k, v)
    \/ \E k \in Keys : erase(k)
    \/ clear
    \/ \E n \in Counts : rehash(n) \/ reserve(n)
    \/ \E m \in LoadFactors : set_max_load_factor(m)
    \/ begin \/ advance \/ erase_iter

Spec == Init /\ [][Next]_vars

-----------------------------------------------------------------------------
(* Every key is found with the value last stored for it and no other key   *)
(* is found; the slots hold nothing else and size_ counts them: find_slot's *)
(* early stop is right whatever insertions, displacements, shifts and       *)
(* rehashes came before.                                                    *)
FindsExactlyTheMap ==
    /\ \A k \in Keys :
          LET i == find_slot(slots, k)
          IN map[k] = IF i = Absent THEN Absent ELSE slots[i].value
    /\ size = Cardinality({k \in Keys : map[k] # Absent})
    /\ size = Cardinality({i \in DOMAIN slots : slots[i] # Absent})

(* An entry's psr is its distance from its ideal slot, and an entry away    *)
(* from its ideal slot follows one that is at most one step nearer to its   *)
(* own: what both find_slot and the shift of erase_at rely on.              *)
RobinHoodOrder ==
    \A i \in DOMAIN slots :
        slots[i] # Absent =>
            /\ (ideal_index(slots, slots[i].key) + slots[i].psr) % Cap(slots) = i
            /\ slots[i].psr > 0 =>
                  LET before == slots[(i + Cap(slots) - 1) % Cap(slots)]
                  IN before # Absent /\ before.psr >= slots[i].psr - 1

(* While elements are erased through the iterator, none of the others is    *)
(* skipped: an entry not yet shown is still ahead, although erasing moves   *)
(* entries towards the front and around the end of the slots.               *)
IterationSkipsNothing ==
    cursor # Absent =>
        \A i \in DOMAIN slots :
            slots[i] # Absent /\ slots[i].key \notin visited => i >= cursor
=============================================================================
