--------------------------- MODULE CuckooHashMap ---------------------------
(***************************************************************************)
(* cppforge::data_structure::hash::CuckooHashMap: two tables, in each of   *)
(* which a key has one place, and a small stash.  An insertion kicks out   *)
(* whoever is in its way; what is still in hand after MAX_KICKS rounds     *)
(* goes to the stash, and when that is full the tables are doubled, the    *)
(* seed of the hash functions is changed and everything is inserted anew,  *)
(* which may overflow again.                                               *)
(*                                                                         *)
(* The seed matters through the places it gives the keys: hash_mix is a    *)
(* constant, periodic in the seed, which is kept modulo that period.  A    *)
(* load factor is a percentage.                                            *)
(***************************************************************************)
EXTENDS Integers, FiniteSets

CONSTANTS
    Keys, Values,
    Default,            \* V{}
    hash_mix1, hash_mix2,  \* per seed: the hash of a key for table 1 and 2
    INITIAL_CAPACITY, STASH_SIZE,
    MaxKicks,           \* max_kicks()
    LoadFactors,        \* arguments of max_load_factor
    Counts,             \* arguments of reserve and rehash
    AnySubscript,       \* FALSE: operator[] adds no key by kicking another
    ReuseMoved,         \* FALSE: a map is moved from with an empty stash only
    Absent              \* no entry

VARIABLES
    tables,   \* table1_, table2_, stash_, seed_ and size_
    max_load, \* max_load_factor_, in percent
    map       \* history: what the calls so far should have stored

vars == <<tables, max_load, map>>

Entry == [key : Keys, value : Values]
Seeds == Cardinality(DOMAIN hash_mix1)
Empties(n) == [i \in 0 .. n - 1 |-> Absent]
Cap(m) == Cardinality(DOMAIN m.t1)

(* The slots in the order of iteration: table 1, table 2, stash. *)
Positions(m) == 0 .. 2 * Cap(m) + STASH_SIZE - 1
Slot(m, i) ==
    CASE i < Cap(m) -> m.t1[i]
      [] i \in Cap(m) .. 2 * Cap(m) - 1 -> m.t2[i - Cap(m)]
      [] OTHER -> m.stash[i - 2 * Cap(m)]
Occupied(m) == {i \in Positions(m) : Slot(m, i) # Absent}

TypeOK ==
    /\ \A i \in Positions(tables) : Slot(tables, i) \in Entry \cup {Absent}
    /\ DOMAIN tables.t1 = DOMAIN tables.t2
    /\ DOMAIN tables.stash = 0 .. STASH_SIZE - 1
    /\ tables.seed \in 0 .. Seeds - 1 /\ tables.size \in Nat
    /\ max_load \in LoadFactors
    /\ map \in [Keys -> Values \cup {Absent}]

-----------------------------------------------------------------------------
h1(m, k) == hash_mix1[m.seed][k] % Cap(m)
h2(m, k) == hash_mix2[m.seed][k] % Cap(m)

next_power_of_two(n) ==
    CHOOSE p \in {2^i : i \in 0 .. n} : p >= n /\ \A i \in 0 .. n : 2^i >= n => p <= 2^i
PerTable(n) ==
    IF next_power_of_two(n) < INITIAL_CAPACITY THEN INITIAL_CAPACITY
    ELSE next_power_of_two(n)

alloc_tables(m, n) == [m EXCEPT !.t1 = Empties(n), !.t2 = Empties(n)]

(* A result holds the tables, and in "at" the slot where the last entry in  *)
(* hand came to rest, which is what insert returns.                         *)
Placed(m, t, i, e) ==
    [m EXCEPT ![t][i] = e, !.at = <<t, i>>, !.size = @ + 1]

StashFree(m) == \E i \in DOMAIN m.stash : m.stash[i] = Absent
ToStash(m, e) ==
    LET i == CHOOSE i \in DOMAIN m.stash :
                 m.stash[i] = Absent /\ \A j \in 0 .. i - 1 : m.stash[j] # Absent
    IN Placed(m, "stash", i, e)

(* insert_new_entry and insert_no_resize, which differ in what they return. *)
RECURSIVE insert_new_entry(_, _, _)
RECURSIVE Reinsert(_, _, _)
rehash_impl(m, n) ==
    Reinsert(m, 0, [alloc_tables(m, PerTable(n))
                        EXCEPT !.stash = Empties(STASH_SIZE), !.size = 0,
                               !.seed = (@ + 1) % Seeds])
insert_new_entry(m, e, kicks) ==
    IF kicks = MaxKicks
    THEN IF StashFree(m) THEN ToStash(m, e)
         ELSE insert_new_entry(rehash_impl(m, 2 * Cap(m)), e, 0)
    ELSE LET i1 == h1(m, e.key)
             s1 == m.t1[i1]
             i2 == h2(m, s1.key)
             s2 == m.t2[i2]
             m1 == [m EXCEPT !.t1[i1] = e]
         IN IF s1 = Absent THEN Placed(m, "t1", i1, e)
            ELSE IF s2 = Absent THEN Placed(m1, "t2", i2, s1)
            ELSE insert_new_entry([m1 EXCEPT !.t2[i2] = s1], s2, kicks + 1)
ReinsertTablesOnly(old, i, m) ==
    IF i = 2 * Cap(old) THEN m
    ELSE Reinsert(old, i + 1, IF Slot(old, i) = Absent THEN m
                              ELSE insert_new_entry(m, Slot(old, i), 0))
Reinsert(old, i, m) ==
    IF i \notin Positions(old) THEN m
    ELSE Reinsert(old, i + 1, IF Slot(old, i) = Absent THEN m
                              ELSE insert_new_entry(m, Slot(old, i), 0))

ensured(m) ==
    IF Cap(m) = 0 THEN rehash_impl(m, INITIAL_CAPACITY)
    ELSE IF (m.size + 1) * 100 > max_load * 2 * Cap(m) THEN rehash_impl(m, 2 * Cap(m))
    ELSE m

(* Table 1, table 2, then the whole stash. *)
find_slot(m, k) ==
    LET places == {<<"t1", h1(m, k)>>, <<"t2", h2(m, k)>>}
                      \cup {<<"stash", i>> : i \in DOMAIN m.stash}
    IN IF Cap(m) = 0 THEN {}
       ELSE {p \in places : m[p[1]][p[2]] # Absent /\ m[p[1]][p[2]].key = k}

-----------------------------------------------------------------------------
Store(m) == tables' = [m EXCEPT !.at = Absent]

(* insert of a key that is present changes nothing. *)
insert(k, v) ==
    /\ find_slot(tables, k) = {}
    /\ Store(insert_new_entry(ensured(tables), [key |-> k, value |-> v], 0))
    /\ map' = [map EXCEPT ![k] = v]
    /\ UNCHANGED max_load

assign(k, v) ==
    /\ \E p \in find_slot(tables, k) :
           tables' = [tables EXCEPT ![p[1]][p[2]].value = v]
    /\ map' = [map EXCEPT ![k] = v]
    /\ UNCHANGED max_load

insert_or_assign(k, v) == assign(k, v) \/ insert(k, v)

(* m[k] = v for a new k: the assignment goes to the slot insert returned. *)
subscript(k, v) ==
    LET m == insert_new_entry(ensured(tables), [key |-> k, value |-> Default], 0)
    IN \/ assign(k, v)
       \/ /\ find_slot(tables, k) = {}
          /\ AnySubscript \/ m[m.at[1]][m.at[2]].key = k
          /\ Store([m EXCEPT ![m.at[1]][m.at[2]].value = v])
          /\ map' = [map EXCEPT ![k] = v]
          /\ UNCHANGED max_load

(* erase by key, and erase through an iterator that stands on the key. *)
erase(k) ==
    /\ \E p \in find_slot(tables, k) :
          tables' = [tables EXCEPT ![p[1]][p[2]] = Absent, !.size = @ - 1]
    /\ map' = [map EXCEPT ![k] = Absent]
    /\ UNCHANGED max_load

clear ==
    /\ tables' = [alloc_tables(tables, Cap(tables))
                     EXCEPT !.stash = Empties(STASH_SIZE), !.size = 0]
    /\ map' = [k \in Keys |-> Absent]
    /\ UNCHANGED max_load

Rehashed(m, n) ==
    IF PerTable((n \div 2) + 1) = Cap(m) THEN m ELSE rehash_impl(m, PerTable((n \div 2) + 1))
rehash(n) == Store(Rehashed(tables, n)) /\ UNCHANGED <<max_load, map>>
reserve(n) == rehash((n * 100) \div max_load)

set_max_load_factor(f) ==
    /\ max_load' = f
    /\ Store(IF tables.size * 100 > f * 2 * Cap(tables) THEN Rehashed(tables, 2 * Cap(tables))
             ELSE tables)
    /\ UNCHANGED map

(* The map is moved into another one and used again.  Moving the array of  *)
(* the stash leaves its slots occupied.                                     *)
MovedFrom ==
    /\ ReuseMoved \/ tables.stash = Empties(STASH_SIZE)
    /\ tables' = [tables EXCEPT !.t1 = Empties(0), !.t2 = Empties(0),
                              !.seed = 0, !.size = 0]
    /\ max_load' = 75
    /\ map' = [k \in Keys |-> Absent]

-----------------------------------------------------------------------------
Init ==
    /\ \E n \in Counts \cup {0} :
          tables = [t1 |-> Empties(PerTable((n \div 2) + 1)),
                    t2 |-> Empties(PerTable((n \div 2) + 1)),
                    stash |-> Empties(STASH_SIZE), seed |-> 0, size |-> 0,
                    at |-> Absent]
    /\ max_load = 75
    /\ map = [k \in Keys |-> Absent]

Next ==
    \/ \E k \in Keys, v \in Values :
           insert(k, v) \/ insert_or_assign(k, v) \/ subscript(k, v)
    \/ \E k \in Keys : erase(k)
    \/ clear
    \/ \E n \in Counts : rehash(n) \/ reserve(n)
    \/ \E f \in LoadFactors : set_max_load_factor(f)
    \/ MovedFrom

Spec == Init /\ [][Next]_vars

-----------------------------------------------------------------------------
(* Every key is found with the value last stored for it, in one slot, and   *)
(* no other key is; iteration shows those and nothing else and size_ counts *)
(* them: kicks, the stash and a growth inside a growth lose, duplicate and  *)
(* misplace nothing.                                                        *)
FindsExactlyTheMap ==
    /\ \A k \in Keys :
          \/ map[k] = Absent /\ find_slot(tables, k) = {}
          \/ \E p \in find_slot(tables, k) :
                find_slot(tables, k) = {p} /\ tables[p[1]][p[2]].value = map[k]
    /\ tables.size = Cardinality({k \in Keys : map[k] # Absent})
    /\ Cap(tables) > 0 => tables.size = Cardinality(Occupied(tables))
=============================================================================
